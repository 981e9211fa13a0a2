----------------------------- MODULE MCCameraFeed -----------------------------
EXTENDS CameraFeed
S(m, c) == [media |-> m, codec |-> c]
P(stream, pts, key, good, gap) == [stream |-> stream, pts |-> pts, key |-> key, good |-> good, shape |-> 1, gap |-> gap]
Changed(packet) == [packet EXCEPT !.shape = 2]
W(tcp, bare) == [tcp |-> tcp, bare |-> bare]
Default == [demux |-> "live555", forceTCP |-> FALSE, ways |-> {W(FALSE, FALSE)}, silent |-> {},
            tsBase |-> None, live |-> TRUE, jpeg |-> FALSE, keyframeOnly |-> FALSE,
            streams |-> <<S("video", "h264"), S("audio", "pcmu")>>, sends |-> << >>, ends |-> "error",
            chain |-> "view", device |-> None, rateFits |-> FALSE]

\* fragments of one frame, a clock that stands still, runs ahead and goes back
Steady == <<P(1, 1, TRUE, TRUE, 4), P(2, 2, FALSE, TRUE, 1), P(1, 3, FALSE, TRUE, 9), P(1, 3, FALSE, TRUE, 0),
            P(1, 5, FALSE, TRUE, -3), P(2, 6, FALSE, TRUE, 2), P(1, 7, TRUE, TRUE, 15)>>
Jumpy == <<P(1, 1, TRUE, TRUE, 4), P(1, 2, TRUE, TRUE, -9), P(1, 3, FALSE, TRUE, 14), P(1, 4, FALSE, TRUE, 22), P(1, 5, FALSE, TRUE, 1)>>
Burst == <<P(1, 1, TRUE, TRUE, 4), P(1, 2, FALSE, TRUE, 0), P(1, 3, FALSE, TRUE, 0), P(1, 4, FALSE, TRUE, 0), P(1, 5, TRUE, TRUE, 9)>>
\* a clock that is set back too far, with a debt left and without one
SetBack == <<P(1, 1, TRUE, TRUE, 4), P(1, 2, FALSE, TRUE, 0), P(1, 3, TRUE, TRUE, -10), P(1, 3, FALSE, TRUE, 1),
             P(2, 4, FALSE, TRUE, 3), P(1, 5, FALSE, TRUE, 1)>>
SetBackInTime == <<P(1, 1, TRUE, TRUE, 4), P(1, 2, FALSE, TRUE, 4), P(1, 3, TRUE, TRUE, -10), P(1, 4, FALSE, TRUE, 4)>>
\* after two pictures the packets are damaged, the next key frames too
Damaged == <<P(1, 1, TRUE, TRUE, 4), P(1, 2, FALSE, TRUE, 4), P(1, 3, FALSE, FALSE, 4), P(2, 4, FALSE, TRUE, 0),
             P(1, 5, FALSE, FALSE, 4), P(2, 6, FALSE, TRUE, 0), P(1, 7, TRUE, FALSE, 4), P(2, 8, FALSE, TRUE, 0),
             P(1, 9, TRUE, FALSE, 4), P(1, 10, TRUE, FALSE, 4), P(1, 11, TRUE, TRUE, 4), P(1, 12, TRUE, TRUE, 4)>>
\* times that go back, and a picture of another size
Disordered == <<P(1, 5, TRUE, TRUE, 1), P(1, 9, FALSE, TRUE, 1), P(1, 6, FALSE, TRUE, 1), P(1, None, FALSE, TRUE, 1),
                P(1, 7, FALSE, TRUE, 1), P(1, 8, FALSE, TRUE, 1), Changed(P(1, 300, TRUE, TRUE, 1)), P(1, 301, TRUE, TRUE, 1)>>
\* a picture of another size is the last
Resized == <<P(1, 1, TRUE, TRUE, 4), P(1, 2, FALSE, TRUE, 4), Changed(P(1, 3, FALSE, TRUE, 4))>>
Talk == <<P(2, 2, FALSE, TRUE, 1), P(1, 1, TRUE, TRUE, 1), P(2, 3, FALSE, TRUE, 1), P(2, 4, FALSE, TRUE, 1)>>

Rtsp(ways, forced) == [Default EXCEPT !.ways = ways, !.forceTCP = forced, !.sends = Steady]
Ffmpeg(packets, end) == [Default EXCEPT !.demux = "ffmpeg", !.sends = packets, !.ends = end]
Recorded(c, fits) ==
  [Default EXCEPT !.streams[2].codec = c, !.chain = "record", !.sends = Talk, !.rateFits = fits]

Reached == {Rtsp({w}, f) : w \in Way, f \in BOOLEAN}
           \cup {[Rtsp({W(FALSE, FALSE), W(TRUE, FALSE)}, FALSE) EXCEPT !.silent = {W(FALSE, FALSE)}],
                 [Rtsp(Way, FALSE) EXCEPT !.sends = Jumpy, !.tsBase = 90], [Rtsp(Way, TRUE) EXCEPT !.tsBase = 120],
                 [Rtsp(Way, FALSE) EXCEPT !.sends = Burst], [Rtsp(Way, TRUE) EXCEPT !.sends = SetBack],
                 [Rtsp(Way, TRUE) EXCEPT !.sends = SetBackInTime]}
Decoded1 == {[Ffmpeg(packets, end) EXCEPT !.device = d] :
               packets \in {Damaged, Disordered}, end \in {"eof", "error"}, d \in {None, 0, 2}}
Other1 == {Ffmpeg(Resized, "eof"),
           [Ffmpeg(Steady, "eof") EXCEPT !.streams = <<S("video", "mjpeg"), S("audio", "pcmu")>>, !.jpeg = TRUE, !.device = 0],
           [Ffmpeg(Disordered, "error") EXCEPT !.live = FALSE, !.keyframeOnly = TRUE],
           [Ffmpeg(Steady, "eof") EXCEPT !.streams = <<S("audio", "aac"), S("audio", "text")>>],
           [Ffmpeg(Steady, "eof") EXCEPT !.streams = <<S("video", "picture"), S("audio", "aac")>>],
           [Rtsp(Way, FALSE) EXCEPT !.streams = <<S("audio", "aac"), S("audio", "pcmu")>>],
           [Rtsp(Way, FALSE) EXCEPT !.streams[1].codec = "picture"]}
Recorded1 == {Recorded(c, f) : c \in {"pcmu", "pcma", "aac", "adpcm"}, f \in BOOLEAN}
             \cup {[Recorded("pcmu", TRUE) EXCEPT !.demux = "ffmpeg"]}
AllCameras == Reached \cup Decoded1 \cup Other1 \cup Recorded1

T(first, from, to) == [starts |-> TRUE, outputFirst |-> first, in |-> from, out |-> to]
AllTransforms == <<[T(FALSE, {"pcmu"}, {"pcm"}) EXCEPT !.starts = FALSE], T(FALSE, {"pcmu"}, {"float"}),
                   T(TRUE, {"pcm"}, {"aac"})>>
AllDevices == <<{"mp4"}, {"h264"}, {"h264", "mjpeg"}>>
===============================================================================
