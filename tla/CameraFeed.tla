------------------------------ MODULE CameraFeed ------------------------------
(***************************************************************************)
(* A camera as it is read: by a viewer's thread, through the video         *)
(* decoder, or by the recorder's, through a splitter and the audio         *)
(* encoder of its subgraph.  All of it is one thread; what is hard is the  *)
(* state it keeps from call to call: the ways to connect that were tried,  *)
(* three clocks, two codecs that hold packets back, and errors that are    *)
(* told in three different ways.                                           *)
(***************************************************************************)
EXTENDS VideoDecoder, AudioTranscoder

VARIABLES
  client,               \* "new", "opening", "reading", "recording" (subgraph_read), "ended" or "closed"
  shown, sounds         \* history: the pictures a viewer was given; the sound that was recorded

made == <<shown, sounds>>
vars == <<sourceVars, decoderVars, transcoderVars, client, made>>
elements == <<decoderVars, transcoderVars>>

Init ==
  /\ SourceInit /\ DecoderInit /\ TranscoderInit
  /\ client = "new" /\ shown = << >> /\ sounds = << >>

Viewing == camera.chain = "view"
AsksFor(e) == pc' = e /\ got' = Nothing

OpenFeed ==
  /\ client = "new" /\ client' = "opening"
  /\ AsksFor("source")
  /\ UNCHANGED <<camera, source, failures, elements, made>>

FeedOpened ==
  /\ client = "opening" /\ pc = "client"
  /\ IF got = Error THEN client' = "closed" ELSE client' = "reading"
  /\ pc' = pc /\ got' = Nothing
  /\ UNCHANGED <<camera, source, failures, elements, made>>

Read ==
  /\ client = "reading" /\ Runs("client")
  /\ AsksFor(IF Viewing THEN "decode" ELSE "source")
  /\ UNCHANGED <<camera, source, failures, elements, client, made>>

\* thread_connector: the thread ends with an error and with a read that gives nothing
View ==
  /\ client = "reading" /\ Viewing /\ pc = "client" /\ got # Nothing
  /\ client' = IF IsPacket(got) THEN client ELSE "ended"
  /\ shown' = IF IsPacket(got) /\ IsVideo(got) THEN Append(shown, got) ELSE shown
  /\ Stay
  /\ UNCHANGED <<camera, source, failures, elements, sounds>>

\* splitter_stream_read_frame; an error of the source is not told
Split ==
  /\ client = "reading" /\ ~Viewing /\ pc = "client" /\ got # Nothing
  /\ queue' = IF IsPacket(got) THEN Append(queue, got) ELSE queue
  /\ client' = IF IsPacket(got) THEN "recording" ELSE "ended"
  /\ AsksFor("encode")
  /\ UNCHANGED <<camera, source, failures, decoderVars, stage, flushing, made>>

\* _splitter_run_subgraph: until it gives nothing more
Working == \A e \in {"encode", "expand"} : stage[e].mode # "failed" \/ stage[e].dst = "unknown"
Record ==
  /\ client \in {"recording", "ended"} /\ ~Viewing /\ pc = "client" /\ IsPacket(got)
  /\ sounds' = IF got.media # "audio" THEN sounds
               ELSE Append(sounds, [pts |-> got.pts, codec |-> got.codec, announced |-> AnnouncedBy("encode"), works |-> Working])
  /\ AsksFor("encode")
  /\ UNCHANGED <<camera, source, failures, elements, client, shown>>
RecordedAll ==
  /\ client = "recording" /\ pc = "client" /\ got \in {Error, Later}
  /\ client' = "reading" /\ Stay
  /\ UNCHANGED <<camera, source, failures, elements, made>>

\* splitter_stream_close: what is queued is recorded; then the graph is closed
Flush ==
  /\ client = "ended" /\ ~Viewing /\ ~flushing /\ pc = "client" /\ got \in {Error, Later}
  /\ flushing' = TRUE /\ AsksFor("encode")
  /\ UNCHANGED <<camera, source, failures, decoderVars, stage, queue, client, made>>
CloseFeed ==
  /\ client = "ended" /\ pc = "client" /\ ~IsPacket(got) /\ (Viewing \/ (flushing /\ got # Nothing))
  /\ client' = "closed" /\ Stay
  /\ IF Viewing
       THEN CloseDecoder /\ UNCHANGED <<draining, devicesChosen, output, counts, errorOccurred, transcoderVars>>
       ELSE CloseSource /\ flushing' = FALSE /\ UNCHANGED <<decoderVars, stage, queue>>
  /\ UNCHANGED <<camera, failures, made>>

ClientNext == OpenFeed \/ FeedOpened \/ Read \/ View \/ Split \/ Record \/ RecordedAll \/ Flush \/ CloseFeed
Closed == client = "closed" /\ UNCHANGED <<vars>>

Next ==
  \/ ClientNext
  \/ SourceNext /\ UNCHANGED <<elements, client, made>>
  \/ DecoderNext /\ UNCHANGED <<transcoderVars, client, made>>
  \/ TranscoderNext /\ UNCHANGED <<decoderVars, client, made>>
  \/ Closed

\* the thread that reads goes on, and what it calls returns
Spec == Init /\ [][Next]_vars /\ WF_vars(Next)

-----------------------------------------------------------------------------
(***************************************************************************)
(* A camera that can be reached is reached, and its reading comes to an    *)
(* end when it does: every way of connecting is tried that was promised    *)
(* (TCP after UDP, then both without name and password), none twice, and   *)
(* the feed only fails to open when there is no way left or one of the     *)
(* elements failed.  One flag survives each attempt; a wrong one ends the  *)
(* search early or never.                                                  *)
(***************************************************************************)
Reachable == {w \in camera.ways \ camera.silent : camera.forceTCP => w.tcp}
CameraIsReached ==
  <>(/\ client = "closed"
     /\ \A i, j \in DOMAIN reached : i # j => reached[i] # reached[j]
     /\ (camera.demux = "live555" /\ Reachable # {} /\ failures = 0) => reached[Len(reached)] \in Reachable)

(***************************************************************************)
(* The times of a medium increase for every camera that is not trusted     *)
(* with them: the live555 session's, whose clock is made up frame by frame *)
(* and corrected by half an interval at a time, and those the FFmpeg demux *)
(* takes from the wall clock, however the camera's times and the clock go. *)
(* Only fragments of one frame share a time.  The exception is a frame     *)
(* before which the clock was set back too far: with a debt left it goes   *)
(* on without a time (see SetBackEndsSession), and the times start anew    *)
(* with it, near zero.                                                     *)
(***************************************************************************)
MadeUp == camera.demux = "live555" \/ (camera.live /\ ~ChosenStreams.timed)
Fragments(p, q) == camera.demux = "live555" /\ p.said = q.said
InTime(i, j) == \A k \in untimed : ~(i < k /\ k <= j)
TimesIncrease ==
  MadeUp => \A i, j \in DOMAIN given :
              (i < j /\ given[i].media = given[j].media /\ InTime(i, j)) =>
                 given[i].pts < given[j].pts \/ (Fragments(given[i], given[j]) /\ given[i].pts = given[j].pts)

(***************************************************************************)
(* A session whose clock is set back too far ends, and the camera is       *)
(* connected anew: "NTP may set the time back, but if its too much, it's   *)
(* better to disconnect and start over" (kMaxTimeRetreat in                *)
(* timestamp_creator.cpp).  It does not hold: see TooFarBack.              *)
(***************************************************************************)
SetBackEndsSession == untimed = {}

(***************************************************************************)
(* No picture is lost on its way through the decoder, or given out of      *)
(* order: what was shown, is held from the opening or is still in the      *)
(* codec is what the camera gave, less the damaged ones and those whose    *)
(* time had passed, until the camera has ended or the codec has failed.    *)
(* That is to hold through the change from a device that fails with its    *)
(* first packet to the next, and to none.                                  *)
(***************************************************************************)
InHand(e) == IF pc = e /\ IsPacket(got) /\ IsPicture(got) THEN <<got>> ELSE << >>
FromCodec == (shown \o InHand("client")) \o (IF Known(heldFrame) THEN <<heldFrame>> ELSE << >>)
KnownPictures == (FromCodec \o codec) \o InHand("decode")
PicturesAreKept ==
  (Viewing /\ decoder = "open" /\ ~errorOccurred /\ client \in {"opening", "reading"} /\ got # Error) =>
    /\ Len(KnownPictures) + framesSkipped = Len(pictures)
    /\ framesSkipped = 0 => KnownPictures = pictures
    /\ \A i, j \in DOMAIN shown : i < j => shown[i].pts <= shown[j].pts

(***************************************************************************)
(* A decoder that takes packets and gives no pictures does not do so for   *)
(* long: by the key frame after the limit it has failed, and the camera is *)
(* connected anew.  Sound between the packets is no sign of life.          *)
(***************************************************************************)
StallIsNoticed ==
  (~errorOccurred /\ framesProcessed > 0) =>
    unanswered <= Greater(MaxPacketsWithNoFrames, 2 * keyInterval) + sinceKeyframe + 1

(***************************************************************************)
(* The sound that is recorded is of the codec the encoder names to the     *)
(* file, and its times increase, or no codec is named and the file has no  *)
(* sound: whichever of the elements could not be had, as long as none that *)
(* was had fails later.                                                    *)
(***************************************************************************)
AudioIsAsAnnounced ==
  ~Viewing =>
    /\ \A i \in DOMAIN sounds : sounds[i].works => sounds[i].announced \in {sounds[i].codec, "unknown"}
    /\ \A i, j \in DOMAIN sounds :
         (i < j /\ sounds[j].works /\ stage.encode.src = "linear" /\ sounds[i].announced = "aac")
           => sounds[i].pts < sounds[j].pts
=============================================================================
