----------------------------- MODULE VideoDecoder -----------------------------
(***************************************************************************)
(* The video decoder over a camera (stream_ffmpeg_decoder.cpp, mediaVideo; *)
(* its seeking is in ClipExport): the choice of a device, the first frame  *)
(* that is decoded while the graph is opened, the packets held by the      *)
(* codec, and the four ways in which it gives up.  The codec itself        *)
(* (libavcodec) is external: it holds CodecDelay packets, and a damaged    *)
(* one gives no frame.                                                     *)
(***************************************************************************)
EXTENDS CameraSource

CONSTANTS
  Devices,              \* g_hwDevices: the codecs each decodes
  CodecDelay,
  MaxFramesToSkip,      \* kMaxFramesToSkip
  MaxPacketsWithNoFrames \* kMaxPacketsWithNoFrames

\* a device named by the application that does not decode the camera's codec is tried for ever
ASSUME VideoDecoderAssumption ==
  /\ Devices \in Seq(SUBSET {"h264", "mp4", "mjpeg"})
  /\ {CodecDelay, MaxFramesToSkip, MaxPacketsWithNoFrames} \subseteq Nat
  /\ \A c \in Cameras : c.device \in DOMAIN Devices =>
       \A i \in DOMAIN c.streams : c.streams[i].media = "video" => c.streams[i].codec \in Devices[c.device]

VARIABLES
  decoder,              \* "closed", "opening", "open" or "passthrough"
  codec,                \* packets held
  draining,             \* eof
  device, devicesLeft, hardwareError,
  heldFrame,            \* firstFrame
  lastOutput, framesProcessed, framesSkipped, shape,
  packetsProcessed, noFrameCount, prevSubmitted, sinceKeyframe, keyInterval,
  errorOccurred,
  unanswered            \* history: the packets decoded since the last frame

devicesChosen == <<device, devicesLeft, hardwareError>>
output == <<lastOutput, framesProcessed, framesSkipped, shape>>
counts == <<packetsProcessed, noFrameCount, prevSubmitted, sinceKeyframe, keyInterval, unanswered>>
decoderVars == <<decoder, codec, draining, devicesChosen, heldFrame, output, counts, errorOccurred>>

DecoderInit ==
  /\ decoder = "closed" /\ codec = << >> /\ draining = FALSE
  /\ device = None /\ devicesLeft = [i \in DOMAIN Devices |-> i] /\ hardwareError = FALSE
  /\ heldFrame = None
  /\ lastOutput = 0 /\ framesProcessed = 0 /\ framesSkipped = 0 /\ shape = None
  /\ packetsProcessed = 0 /\ noFrameCount = 0 /\ prevSubmitted = TRUE
  /\ sinceKeyframe = 0 /\ keyInterval = 0 /\ unanswered = 0
  /\ errorOccurred = FALSE

Answer(x) == pc' = "client" /\ got' = x

(***************************************************************************)
(* _ffdec_prepare_video_decoder.  A device named by the application is     *)
(* used until it fails; otherwise the next of the list that knows the      *)
(* codec, and after the last one no device.                                *)
(***************************************************************************)
Prepared(failed) ==
  LET usable == {i \in DOMAIN devicesLeft : CodecOf("video") \in Devices[devicesLeft[i]]}
  IN IF camera.device # None
       THEN /\ hardwareError' = failed /\ UNCHANGED devicesLeft
            /\ device' = IF camera.device \in DOMAIN Devices /\ ~failed THEN camera.device ELSE None
     ELSE IF usable = {}
       THEN /\ hardwareError' = (failed /\ devicesLeft = << >>)
            /\ device' = None /\ devicesLeft' = << >>
     ELSE /\ hardwareError' = FALSE
          /\ device' = devicesLeft[Min(usable)]
          /\ devicesLeft' = SubSeq(devicesLeft, Min(usable) + 1, Len(devicesLeft))

\* ffdec_stream_close
CloseDecoder ==
  /\ codec' = << >> /\ heldFrame' = None /\ decoder' = "closed"
  /\ CloseSource
\* a codec that no decoder knows has already stopped the demux
DecoderOpens ==
  /\ pc = "opened" /\ got = Later /\ camera.chain = "view"
  /\ \/ /\ CodecOf("video") = "unknown"
        /\ decoder' = "passthrough" /\ Answer(Later)
        /\ UNCHANGED <<source, codec, heldFrame, devicesChosen, failures>>
     \/ /\ CodecOf("video") # "unknown"
        /\ Prepared(hardwareError)
        /\ decoder' = "opening" /\ pc' = "decode" /\ got' = Nothing
        /\ UNCHANGED <<source, codec, heldFrame, failures>>
     \/ /\ CodecOf("video") # "unknown" /\ Fails    \* avcodec_open2
        /\ Prepared(hardwareError)
        /\ CloseDecoder /\ Answer(Error)
  /\ UNCHANGED <<camera, draining, output, counts, errorOccurred>>

DecoderSourceFails ==
  /\ pc = "opened" /\ got = Error /\ camera.chain = "view"
  /\ CloseDecoder /\ Answer(Error)
  /\ UNCHANGED <<camera, failures, draining, devicesChosen, output, counts, errorOccurred>>

-----------------------------------------------------------------------------
(***************************************************************************)
(* ffdec_stream_read_frame: what a read comes to.  While the decoder is    *)
(* opened, all but the first video frame is dropped.                       *)
(***************************************************************************)
DecoderGives(frame) ==
  IF decoder = "opening"
    THEN IF frame.media = "video"
           THEN heldFrame' = frame /\ decoder' = "open" /\ Answer(Later) /\ UNCHANGED source
           ELSE Stay /\ UNCHANGED <<source, heldFrame, decoder>>
    ELSE Answer(frame) /\ UNCHANGED <<source, heldFrame, decoder>>
DecoderEnds ==
  /\ errorOccurred' = (errorOccurred \/ ~draining')
  /\ Answer(Error)
  /\ IF decoder = "opening"
       THEN decoder' = "closed" /\ heldFrame' = None /\ CloseSource
       ELSE UNCHANGED <<source, heldFrame, decoder>>
CodecHolds(packets) == codec' = IF decoder' = "closed" THEN << >> ELSE packets

\* after an error nothing is read, and the call succeeds
DecoderRefuses ==
  /\ Runs("decode") /\ errorOccurred
  /\ Answer(Later)
  /\ UNCHANGED <<camera, failures, source, decoderVars>>

ServeHeldFrame ==
  /\ Runs("decode") /\ ~errorOccurred /\ Known(heldFrame)
  /\ Answer(heldFrame) /\ heldFrame' = None
  /\ UNCHANGED <<camera, failures, source, decoder, codec, draining, devicesChosen, output, counts, errorOccurred>>

Receives == Runs("decode") /\ ~errorOccurred /\ ~Known(heldFrame) /\ decoder # "passthrough"
Ready == codec # << >> /\ (draining \/ Len(codec) > CodecDelay)
\* faulty: the time is not looked at, see PicturesAreKept
NeverStale(frame) == FALSE
Stale(frame) == framesProcessed > 0 /\ lastOutput > frame.pts

ReceiveFrame ==
  /\ Receives /\ Ready /\ ~Stale(Head(codec))
  /\ lastOutput' = Head(codec).pts /\ framesProcessed' = framesProcessed + 1
  /\ shape' = Head(codec).shape
  /\ IF shape \in {None, Head(codec).shape}
       THEN /\ DecoderGives(Head(codec))
            /\ noFrameCount' = 0 /\ unanswered' = 0 /\ UNCHANGED <<draining, errorOccurred>>
       ELSE /\ UNCHANGED <<draining, noFrameCount, unanswered>> /\ DecoderEnds
  /\ CodecHolds(Tail(codec))
  /\ UNCHANGED <<camera, failures, devicesChosen, framesSkipped,
                 packetsProcessed, prevSubmitted, sinceKeyframe, keyInterval>>

\* the next packet is wanted; the one before was decoded, and gave nothing
\* faulty: a packet of another medium ends the count, see StallIsNoticed
AskSourceAnew ==
  /\ pc' = "source" /\ got' = Nothing
  /\ noFrameCount' = IF prevSubmitted THEN noFrameCount + 1 ELSE 0
  /\ UNCHANGED <<packetsProcessed, prevSubmitted, sinceKeyframe, keyInterval, unanswered>>
AskSource ==
  /\ pc' = "source" /\ got' = Nothing
  /\ noFrameCount' = noFrameCount + (IF prevSubmitted THEN 1 ELSE 0)
  /\ UNCHANGED <<packetsProcessed, prevSubmitted, sinceKeyframe, keyInterval, unanswered>>

SkipStaleFrame ==
  /\ Receives /\ Ready /\ Stale(Head(codec))
  /\ framesSkipped' = framesSkipped + 1
  /\ UNCHANGED draining
  /\ IF framesSkipped' > MaxFramesToSkip THEN DecoderEnds /\ UNCHANGED counts
     ELSE /\ IF draining THEN Stay /\ UNCHANGED counts ELSE AskSource
          /\ UNCHANGED <<source, heldFrame, decoder, errorOccurred>>
  /\ CodecHolds(Tail(codec))
  /\ UNCHANGED <<camera, failures, devicesChosen, lastOutput, framesProcessed, shape>>

ReceiveNothing ==
  /\ Receives /\ ~Ready
  /\ UNCHANGED draining
  /\ IF draining THEN DecoderEnds /\ UNCHANGED counts
     ELSE AskSource /\ UNCHANGED <<source, heldFrame, decoder, errorOccurred>>
  /\ CodecHolds(codec)
  /\ UNCHANGED <<camera, failures, devicesChosen, output>>

ReadThrough ==
  /\ Runs("decode") /\ ~errorOccurred /\ ~Known(heldFrame) /\ decoder = "passthrough" /\ ~draining
  /\ AskSource
  /\ UNCHANGED <<camera, failures, source, decoder, codec, draining, devicesChosen, heldFrame, output, errorOccurred>>

-----------------------------------------------------------------------------
(***************************************************************************)
(* _ffdec_submit_packet and _ffdec_on_read_error.                          *)
(***************************************************************************)
Decoded(packet) == packet.media = "video" /\ decoder # "passthrough"

PassPacket ==
  /\ Gets("decode") /\ ~Decoded(got)
  /\ prevSubmitted' = FALSE
  /\ DecoderGives(got)
  /\ UNCHANGED <<camera, failures, codec, draining, devicesChosen, output, errorOccurred,
                 packetsProcessed, noFrameCount, sinceKeyframe, keyInterval, unanswered>>

Counted(packet) ==
  /\ prevSubmitted' = TRUE
  /\ sinceKeyframe' = IF packet.key THEN 0 ELSE sinceKeyframe + 1
  /\ keyInterval' = IF packet.key THEN sinceKeyframe ELSE keyInterval

\* a stall is only noticed at a key frame
Stalled(packet, interval) ==
  packet.key /\ noFrameCount > Greater(MaxPacketsWithNoFrames, 2 * interval) /\ framesProcessed > 0

SubmitPacket ==
  /\ Gets("decode") /\ Decoded(got)
  /\ Counted(got)
  /\ packetsProcessed' = packetsProcessed + 1 /\ unanswered' = unanswered + 1
  /\ UNCHANGED draining
  /\ IF Stalled(got, keyInterval')
       THEN DecoderEnds
       ELSE Stay /\ UNCHANGED <<source, heldFrame, decoder, errorOccurred>>
  /\ CodecHolds(IF got.good THEN Append(codec, got) ELSE codec)
  /\ UNCHANGED <<camera, failures, devicesChosen, output, noFrameCount>>

\* the device fails with its first packet: another is taken, for the same packet
\* faulty: the packet is forgotten, see PicturesAreKept
ForgetPacket == Stay
SubmitAgain == pc' = pc /\ got' = got
ChangeDevice ==
  /\ Gets("decode") /\ Decoded(got)
  /\ Known(device) /\ packetsProcessed = 0 /\ Fails
  /\ Counted(got)
  /\ Prepared(TRUE)
  /\ SubmitAgain
  /\ UNCHANGED <<camera, source, decoder, codec, draining, heldFrame, output, errorOccurred,
                 packetsProcessed, noFrameCount, unanswered>>

\* the packet is refused, or the next device cannot be opened
SubmitFails ==
  /\ Gets("decode") /\ Decoded(got) /\ Fails
  /\ Counted(got)
  /\ IF Known(device) /\ packetsProcessed = 0 THEN Prepared(TRUE) ELSE UNCHANGED devicesChosen
  /\ UNCHANGED draining
  /\ DecoderEnds
  /\ CodecHolds(codec)
  /\ UNCHANGED <<camera, output, packetsProcessed, noFrameCount, unanswered>>

SourceReadFails ==
  /\ GetsNone("decode")
  /\ draining' = eof
  /\ IF eof /\ decoder # "passthrough"
       THEN Stay /\ UNCHANGED <<source, heldFrame, decoder, errorOccurred>>
       ELSE DecoderEnds
  /\ CodecHolds(codec)
  /\ UNCHANGED <<camera, failures, devicesChosen, output, counts>>

DecoderNext ==
  \/ DecoderOpens \/ DecoderSourceFails
  \/ DecoderRefuses \/ ServeHeldFrame \/ ReceiveFrame \/ SkipStaleFrame \/ ReceiveNothing \/ ReadThrough
  \/ PassPacket \/ SubmitPacket \/ ChangeDevice \/ SubmitFails \/ SourceReadFails
=============================================================================
