----------------------------- MODULE CameraSource -----------------------------
(***************************************************************************)
(* Where a camera's packets come from: the live555 demux                   *)
(* (stream_live555_demux.cpp) and its clock for frames that come without a *)
(* usable time (timestamp_creator.cpp), or the FFmpeg demux                *)
(* (stream_ffmpeg_demux.cpp).  Its reader is another element of the graph: *)
(* see VideoDecoder and AudioTranscoder, and CameraFeed, which joins them. *)
(*                                                                         *)
(* pc is the element that runs; got is what the element it has called has  *)
(* returned.                                                               *)
(***************************************************************************)
EXTENDS Integers, Sequences, SequencesExt, FiniteSetsExt

CONSTANTS
  Cameras,              \* the cameras, how each can be reached and what it sends
  None, Nothing, Error,
  Later,                \* a read that succeeds without a frame
  DefaultIncrement,     \* kDefaultTsIncrement
  MaxTimeRetreat, ResetTimeJump, MaxTimeJump,
  FramesForFps,         \* kFramesRequiredForFps
  Increments,           \* what the fps then measured may say of the time between two frames
  MaxFailures           \* bound: files and devices that fail

Way == [tcp : BOOLEAN, bare : BOOLEAN]   \* the transport; without name and password
Stream == [media : {"video", "audio", "other"},
           codec : {"h264", "mp4", "mjpeg", "picture", "aac", "pcma", "pcmu", "adpcm", "text"}]
\* what the camera sends: the stream, the time it says, the time since the packet before
Sent == [stream : Nat, pts : Int \cup {None}, key : BOOLEAN, good : BOOLEAN, shape : Nat, gap : Int]
Camera == [demux : {"live555", "ffmpeg"}, forceTCP : BOOLEAN, ways : SUBSET Way, silent : SUBSET Way,
           tsBase : Int \cup {None}, live : BOOLEAN, jpeg : BOOLEAN, keyframeOnly : BOOLEAN,
           streams : Seq(Stream), sends : Seq(Sent), ends : {"eof", "error"},
           chain : {"view", "record"},
           device : Nat \cup {None},      \* the decoder's, named by the application; 0 is "none"
           rateFits : BOOLEAN]            \* audio at 44.1 or 48 kHz

\* what is read: the time it is given, and the time the camera said
Packet == [media : {"video", "audio", "other"}, pts : Int, said : Int \cup {None}, key : BOOLEAN, good : BOOLEAN,
           shape : Nat, codec : {"h264", "mp4", "mjpeg", "picture", "aac", "pcma", "pcmu", "adpcm", "text"}]

ASSUME CameraSourceAssumption ==
  /\ Cameras \subseteq Camera
  /\ \A c \in Cameras : \A i \in DOMAIN c.sends : c.sends[i].stream \in DOMAIN c.streams
  /\ {DefaultIncrement, MaxTimeRetreat, ResetTimeJump, MaxTimeJump, FramesForFps, MaxFailures} \subseteq Nat
  /\ DefaultIncrement > 1 /\ Increments \subseteq Nat \ {0} /\ Increments # {}
  /\ \A x \in {None, Nothing, Error, Later} : x \notin Packet /\ x \notin Int
  /\ Nothing # Error /\ Nothing # Later /\ Error # Later

VARIABLES
  camera, pc, got,
  isOpen,               \* clientSession, or format
  url,                  \* descriptor is set
  way,                  \* triedUDP and triedRemovingUP
  attempts,             \* mpjpegAttempts
  sends,                \* what the camera will still send
  firstFrame,           \* read while the camera is opened
  chosen,               \* the streams that are read, their codecs, streamHasTimingInfo
  eof,
  now,                  \* the wall clock
  stamp,                \* TimestampCreator
  firstTime, counted, lastWall,   \* firstFrameTimeMs; frames were processed; lastPts by medium
  untimed,              \* history: the places of the frames that went on without a time
  failures,
  reached,              \* history: the attempts to open the camera
  given, pictures       \* history: what it gave; of that, what can be decoded

gave == <<given, pictures>>
times  == <<now, stamp, firstTime, counted, lastWall, untimed>>
source == <<isOpen, url, way, attempts, sends, firstFrame, chosen, eof, times, reached, gave>>
sourceVars == <<camera, pc, got, source, failures>>

Known(x) == x # None
Invalid == -1        \* INVALID_PTS
Above(e) == IF e = "source" /\ camera.chain = "view" THEN "decode" ELSE "client"
IsPacket(x) == x \notin {Nothing, Error, Later}
IsVideo(p) == p.media = "video"
IsPicture(p) == IsVideo(p) /\ p.good
Return(x) ==
  /\ pc' = Above(pc) /\ got' = x
  /\ given' = IF IsPacket(x) THEN Append(given, x) ELSE given
  /\ pictures' = IF IsPacket(x) /\ IsPicture(x) THEN Append(pictures, x) ELSE pictures
Runs(e) == pc = e /\ got = Nothing
Gets(e) == pc = e /\ IsPacket(got)
GetsNone(e) == pc = e /\ got \in {Error, Later}
Stay == pc' = pc /\ got' = Nothing
Fails == failures < MaxFailures /\ failures' = failures + 1

NoStreams == [video |-> None, audio |-> None, timed |-> FALSE]
NoStamp == [seen |-> 0, time |-> None, received |-> None, assigned |-> None, debt |-> 0]
FirstWay == [tcp |-> camera.forceTCP, bare |-> FALSE]

SourceInit ==
  /\ camera \in Cameras
  /\ pc = "client" /\ got = Nothing
  /\ isOpen = FALSE /\ url = TRUE /\ way = FirstWay /\ attempts = 0
  /\ sends = camera.sends /\ firstFrame = None /\ chosen = NoStreams /\ eof = FALSE
  /\ now = 100 /\ stamp = NoStamp /\ untimed = {}
  /\ firstTime = 0 /\ counted = FALSE /\ lastWall = [m \in {"video", "audio"} |-> None]
  /\ failures = 0 /\ reached = << >> /\ given = << >> /\ pictures = << >>

-----------------------------------------------------------------------------
(***************************************************************************)
(* The clock of a camera whose times mean little: the time of a frame is   *)
(* that of the one before and the usual interval; debt is how far this is  *)
(* ahead of the wall clock, and is paid back half an interval at a time.   *)
(***************************************************************************)
Lesser(a, b) == IF a < b THEN a ELSE b
Greater(a, b) == IF a > b THEN a ELSE b

\* faulty: as much as is owed, see TimesIncrease
WholeDebt(debt, inc) == debt
Adjustment(debt, inc) ==
  IF debt > 0 THEN Lesser(debt, inc \div 2) ELSE Greater(debt, -(inc \div 2))
Adjusted(s, inc) ==
  [s EXCEPT !.debt = @ - Adjustment(s.debt, inc), !.assigned = @ - Adjustment(s.debt, inc)]

\* the first frame; base is the last time the camera itself gave, if any
FirstStamp(time, base) ==
  LET delta == time - base
  IN IF base = None \/ delta \in 0..DefaultIncrement THEN [assigned |-> time, debt |-> 0]
     ELSE IF delta < 0 THEN [assigned |-> base + DefaultIncrement, debt |-> delta]
     ELSE [assigned |-> time, debt |-> delta - DefaultIncrement]

NextIncrement == IF stamp.seen > FramesForFps THEN Increments ELSE {DefaultIncrement}
SameFrame(received) == stamp.seen > 0 /\ received = stamp.received
\* the clock went too far: ahead, or back
TooFarAhead(received, time) == stamp.seen > 0 /\ ~SameFrame(received) /\ time - stamp.time > MaxTimeJump
TooFarBack(received, time)  == stamp.seen > 0 /\ ~SameFrame(received) /\ stamp.time - time >= MaxTimeRetreat

\* _assignTs; a frame whose clock went too far back gets no time, but the debt is still paid from that
Stamped(received, time, inc) ==
  LET delta == time - stamp.time
      New(assigned, debt) == [seen |-> stamp.seen + 1, time |-> time, received |-> received,
                              assigned |-> assigned, debt |-> debt]
  IN IF stamp.seen = 0
       THEN LET f == FirstStamp(time, camera.tsBase) IN Adjusted(New(f.assigned, f.debt), inc)
     ELSE IF SameFrame(received)
       THEN New(stamp.assigned, stamp.debt)
     ELSE IF TooFarBack(received, time)
       THEN Adjusted(New(Invalid, stamp.debt), inc)
     ELSE IF delta > ResetTimeJump
       THEN [New(Greater(time, stamp.assigned + DefaultIncrement), 0) EXCEPT !.seen = 1]
     ELSE Adjusted(New(stamp.assigned + inc, stamp.debt + (IF delta < 0 THEN delta ELSE inc - delta)), inc)

\* assignTs: the session ends
OutOfTime(received, time, inc) ==
  TooFarAhead(received, time) \/ Stamped(received, time, inc).assigned = Invalid

-----------------------------------------------------------------------------
(***************************************************************************)
(* The live555 demux.                                                      *)
(***************************************************************************)
Received(sent, pts) ==
  [media |-> camera.streams[sent.stream].media, pts |-> pts, said |-> sent.pts, key |-> sent.key, good |-> sent.good,
   shape |-> sent.shape, codec |-> camera.streams[sent.stream].codec]

\* ReadFrame of the session
SessionReads ==
  /\ sends # << >> /\ sends' = Tail(sends)
  /\ now' = now + Head(sends).gap
  /\ \E inc \in NextIncrement :
       /\ ~OutOfTime(Head(sends).pts, now', inc)
       /\ stamp' = Stamped(Head(sends).pts, now', inc)
  /\ untimed' = IF TooFarBack(Head(sends).pts, now') THEN untimed \cup {Len(given) + 1} ELSE untimed
  /\ UNCHANGED <<firstTime, counted, lastWall>>
FrameRead == Received(Head(sends), stamp'.assigned)
SessionEnds ==
  /\ UNCHANGED <<firstTime, counted, lastWall, untimed>>
  /\ \/ sends = << >> /\ UNCHANGED <<sends, now, stamp>>
     \/ /\ sends # << >> /\ sends' = << >>
        /\ now' = now + Head(sends).gap
        /\ \E inc \in NextIncrement : OutOfTime(Head(sends).pts, now', inc)
        /\ stamp' = NoStamp

Opening == Runs("source") /\ ~isOpen
Opened(x) == pc' = "opened" /\ got' = x

\* DemuxRTSPClientImpl::Init, and the first frame
AttemptSucceeds ==
  /\ Opening /\ camera.demux = "live555" /\ url
  /\ way \in camera.ways \ camera.silent
  /\ SessionReads
  /\ firstFrame' = FrameRead
  /\ isOpen' = TRUE /\ reached' = Append(reached, way)
  /\ Opened(Later)
  /\ UNCHANGED <<camera, url, way, attempts, chosen, eof, failures, gave>>

\* what is tried after a failure: TCP after UDP, then both without name and password
\* faulty: the transport is not tried again, see CameraIsReached
NextWayOnce(w) == IF ~w.tcp THEN {[w EXCEPT !.tcp = TRUE]} ELSE IF ~w.bare THEN {[w EXCEPT !.bare = TRUE]} ELSE {}
NextWay(w) ==
  IF ~w.tcp THEN {[w EXCEPT !.tcp = TRUE]}
  ELSE IF ~w.bare THEN {[tcp |-> camera.forceTCP, bare |-> TRUE]} ELSE {}

AttemptFails ==
  /\ Opening /\ camera.demux = "live555" /\ url
  /\ way \notin camera.ways \ camera.silent \/ sends = << >>
  /\ reached' = Append(reached, way)
  /\ IF NextWay(way) = {}
       THEN Opened(Error) /\ url' = FALSE /\ UNCHANGED way
       ELSE way' \in NextWay(way) /\ Stay /\ UNCHANGED url
  /\ UNCHANGED <<camera, isOpen, attempts, sends, firstFrame, chosen, eof, times, failures, gave>>

ReadLive555 ==
  /\ Runs("source") /\ isOpen /\ camera.demux = "live555"
  /\ \/ /\ Known(firstFrame)
        /\ Return(firstFrame) /\ firstFrame' = None
        /\ UNCHANGED <<sends, times>>
     \/ /\ ~Known(firstFrame)
        /\ SessionReads /\ Return(FrameRead) /\ UNCHANGED firstFrame
     \/ /\ ~Known(firstFrame)
        /\ SessionEnds /\ Return(Error) /\ UNCHANGED firstFrame
  /\ UNCHANGED <<camera, isOpen, url, way, attempts, chosen, eof, failures, reached>>

-----------------------------------------------------------------------------
(***************************************************************************)
(* The FFmpeg demux.                                                       *)
(***************************************************************************)
Timed == {"h264", "mp4"}
InStreams(media, codecs) ==
  {i \in DOMAIN camera.streams : camera.streams[i].media = media /\ camera.streams[i].codec \in codecs}
AnyVideo == {i \in DOMAIN camera.streams : camera.streams[i].media = "video"}
\* of the video streams the first with a codec that has times, or the last; of the audio streams
\* the last that is understood.  AAC behind the video stream also has times.
ChosenStreams ==
  LET timedVideo == InStreams("video", Timed)
      audio == InStreams("audio", {"aac", "pcma", "pcmu"})
  IN [video |-> IF timedVideo # {} THEN Min(timedVideo) ELSE IF AnyVideo # {} THEN Max(AnyVideo) ELSE None,
      audio |-> IF audio # {} THEN Max(audio) ELSE None,
      timed |-> timedVideo # {} \/ \E i \in InStreams("audio", {"aac"}) : \A v \in AnyVideo : v < i]

OpenFfmpeg ==
  /\ Opening /\ camera.demux = "ffmpeg"
  /\ Known(ChosenStreams.video)
  /\ attempts' = attempts + 1 /\ chosen' = ChosenStreams /\ isOpen' = TRUE
  /\ Opened(Later)
  /\ UNCHANGED <<camera, url, way, sends, firstFrame, eof, times, failures, reached, gave>>

\* the connection, the analysis of the streams or the codec; jpeg is tried twice
TriesAgain == camera.jpeg /\ attempts' < 2
OpenFfmpegFails ==
  /\ Opening /\ camera.demux = "ffmpeg"
  /\ IF Known(ChosenStreams.video) THEN Fails ELSE UNCHANGED failures
  /\ attempts' = attempts + 1
  /\ IF TriesAgain THEN Stay ELSE Opened(Error)
  /\ UNCHANGED <<camera, isOpen, url, way, sends, firstFrame, chosen, eof, times, reached, gave>>

Skipped(sent) ==
  \/ sent.stream \notin {chosen.video, chosen.audio}
  \/ sent.stream = chosen.video /\ camera.keyframeOnly /\ ~sent.key

SkipPacket ==
  /\ Runs("source") /\ isOpen /\ camera.demux = "ffmpeg"
  /\ sends # << >> /\ Skipped(Head(sends))
  /\ sends' = Tail(sends) /\ now' = now + Head(sends).gap
  /\ Stay
  /\ UNCHANGED <<camera, isOpen, url, way, attempts, firstFrame, chosen, eof,
                 stamp, firstTime, counted, lastWall, untimed, failures, reached, gave>>

\* faulty: duplicates are not avoided, see TimesIncrease
WallTimeAsIs(time, last) == time
WallTime(time, last) == IF Known(last) /\ time <= last THEN last + 1 ELSE time

ReadFfmpeg ==
  /\ Runs("source") /\ isOpen /\ camera.demux = "ffmpeg"
  /\ sends # << >> /\ ~Skipped(Head(sends))
  /\ sends' = Tail(sends) /\ now' = now + Head(sends).gap /\ counted' = TRUE
  /\ LET sent    == Head(sends)
         medium  == camera.streams[sent.stream].media
         trusted == (chosen.timed \/ ~camera.live) /\ Known(sent.pts)
     IN IF trusted
          THEN /\ firstTime' = IF counted THEN firstTime ELSE IF camera.live THEN now' ELSE 0
               /\ Return(Received(sent, sent.pts + firstTime')) /\ UNCHANGED lastWall
          ELSE /\ lastWall' = [lastWall EXCEPT ![medium] = WallTime(now', @)]
               /\ Return(Received(sent, lastWall'[medium])) /\ UNCHANGED firstTime
  /\ UNCHANGED <<camera, isOpen, url, way, attempts, firstFrame, chosen, eof, stamp, untimed, failures, reached>>

ReadFfmpegEnds ==
  /\ Runs("source") /\ isOpen /\ camera.demux = "ffmpeg"
  /\ \/ sends = << >> /\ eof' = (camera.ends = "eof") /\ UNCHANGED failures
     \/ Fails /\ eof' = FALSE
  /\ Return(Error)
  /\ UNCHANGED <<camera, isOpen, url, way, attempts, sends, firstFrame, chosen, times, reached>>

\* videoCodecId and audioCodecId; TranslateCodec knows these
Translated == {"h264", "mp4", "mjpeg", "aac", "pcma", "pcmu"}
CodecOf(media) ==
  LET of == IF camera.demux = "ffmpeg"
              THEN {chosen[media]} \ {None}
              ELSE {i \in DOMAIN camera.streams : camera.streams[i].media = media}
  IN IF of = {} \/ (camera.demux = "live555" /\ camera.streams[Min(of)].codec \notin Translated)
       THEN "unknown" ELSE camera.streams[Min(of)].codec

\* live555_stream_close frees the url; ff_stream_close forgets the streams
CloseSource ==
  /\ isOpen' = FALSE /\ firstFrame' = None /\ eof' = FALSE
  /\ IF camera.demux = "live555"
       THEN url' = FALSE /\ UNCHANGED chosen
       ELSE chosen' = NoStreams /\ UNCHANGED url
  /\ UNCHANGED <<way, attempts, sends, times, reached, gave>>

SourceNext ==
  \/ AttemptSucceeds \/ AttemptFails \/ ReadLive555
  \/ OpenFfmpeg \/ OpenFfmpegFails \/ SkipPacket \/ ReadFfmpeg \/ ReadFfmpegEnds
=============================================================================
