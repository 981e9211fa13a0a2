---------------------------- MODULE AudioTranscoder ----------------------------
(***************************************************************************)
(* The audio of a recording on Windows: the encoder of                     *)
(* stream_mediafoundation_decoder.cpp, which, when it is opened, puts a    *)
(* decoder of the same kind and a resampler (stream_audio_resample.cpp)    *)
(* between itself and the splitter if the camera's codec and rate call for *)
(* them.  A failure to open leaves the recording without audio, and not    *)
(* without video.  The transforms of the operating system are external.    *)
(***************************************************************************)
EXTENDS CameraSource

CONSTANTS
  Transforms,           \* what MFTEnumEx lists, in its order
  TransformDelay, MaxPortions   \* packets a transform holds; what one packet at most becomes

Subtype == {"pcm", "float", "aac", "pcmu", "pcma"}
Transform == [starts : BOOLEAN, outputFirst : BOOLEAN, in : SUBSET Subtype, out : SUBSET Subtype]
ASSUME AudioTranscoderAssumption ==
  /\ Transforms \in Seq(Transform)
  /\ TransformDelay \in Nat /\ MaxPortions \in Nat \ {0}

VARIABLES
  stage,                \* the encoder, and what it has put below itself
  queue, flushing       \* the splitter's source_frames and flushing_subgraph

Coders == {"encode", "expand"}
Elements == <<"encode", "resample", "expand", "queue">>
Places == [encode |-> 1, resample |-> 2, expand |-> 3, queue |-> 4]
NoStage == [on |-> FALSE, mode |-> "pass", src |-> "unknown", dst |-> "unknown", held |-> << >>, last |-> None]
transcoderVars == <<stage, queue, flushing>>

TranscoderInit == stage = [e \in {"encode", "resample", "expand"} |-> NoStage] /\ queue = << >> /\ flushing = FALSE

On(e) == e = "queue" \/ stage[e].on
Below(e) == Elements[Min({i \in 1..4 : i > Places[e] /\ On(Elements[i])})]
Caller(e) ==
  LET above == {i \in 1..4 : i < Places[e] /\ On(Elements[i])}
  IN IF above = {} THEN "client" ELSE Elements[Max(above)]
Give(e, x) == pc' = Caller(e) /\ got' = x

\* mfdec_stream_get_param, audioCodecId; a resampler passes the question on
AnnouncedBy(e) ==
  LET expanded == IF ~stage.expand.on \/ stage.expand.mode = "pass" THEN CodecOf("audio") ELSE stage.expand.dst
  IN IF e = "encode" /\ stage.encode.mode # "pass" THEN stage.encode.dst ELSE expanded

-----------------------------------------------------------------------------
(***************************************************************************)
(* The transforms are tried in turn.  PCM that cannot be had is taken as   *)
(* float, and once this was tried so it stays for the transforms that      *)
(* follow.                                                                 *)
(***************************************************************************)
SubtypeOf(codec) == CASE codec = "linear" -> {"pcm"} [] codec \in {"aac", "pcmu", "pcma"} -> {codec} [] OTHER -> {}
Listed(src, dst) ==
  IF src = "linear" THEN SelectSeq(Transforms, LAMBDA t : SubtypeOf(dst) \subseteq t.out)
                    ELSE SelectSeq(Transforms, LAMBDA t : SubtypeOf(src) \subseteq t.in)
OutputSubtype(t, wanted) == IF wanted \notin t.out /\ wanted = "pcm" THEN "float" ELSE wanted
TryTransform(src, t, wanted) ==
  LET input == SubtypeOf(src) \subseteq t.in
  IN IF ~t.starts \/ (~t.outputFirst /\ ~input) THEN [found |-> FALSE, wanted |-> wanted]
     ELSE [found  |-> input /\ OutputSubtype(t, wanted) \in t.out, wanted |-> OutputSubtype(t, wanted)]
HasTransform(src, dst) ==
  /\ SubtypeOf(src) # {} /\ SubtypeOf(dst) # {}
  /\ FoldLeft(LAMBDA acc, t : IF acc.found THEN acc ELSE TryTransform(src, t, acc.wanted),
              [found |-> FALSE, wanted |-> IF dst = "linear" THEN "pcm" ELSE dst], Listed(src, dst)).found

\* mfdec_stream_open_in; resample_filter_open_in
Stage(mode, src, dst) == [on |-> TRUE, mode |-> mode, src |-> src, dst |-> IF mode = "work" THEN dst ELSE "unknown",
                          held |-> << >>, last |-> None]
Modes(works) == IF works THEN {"work", "failed"} ELSE {"failed"}
\* faulty: the decoder's sample format is not asked for, see AudioIsAsAnnounced
EncodeAnyway(expanded, resampled) ==
  IF resampled = "failed" THEN {"failed"} ELSE Modes(HasTransform("linear", "aac"))
EncodeModes(expanded, resampled) ==
  IF resampled = "failed" THEN {"failed"}
  ELSE IF expanded = "failed" THEN {"pass"}
  ELSE Modes(HasTransform("linear", "aac"))
ResampleModes(expanded) ==
  IF camera.rateFits THEN {"off"} ELSE IF expanded = "failed" THEN {"pass"} ELSE Modes(TRUE)
NeedsNoTranscoder == CodecOf("audio") \in {"unknown", "aac"}

OpenTranscoder ==
  /\ pc = "opened" /\ got = Later /\ camera.chain = "record"
  /\ \/ /\ NeedsNoTranscoder
        /\ stage' = [stage EXCEPT !.encode = Stage("pass", CodecOf("audio"), "aac")]
        /\ UNCHANGED failures
     \/ /\ ~NeedsNoTranscoder /\ Fails     \* the rate is not known, or nothing can be inserted
        /\ stage' = [stage EXCEPT !.encode = Stage("failed", CodecOf("audio"), "aac")]
     \/ /\ ~NeedsNoTranscoder
        /\ \E expanded \in Modes(HasTransform(CodecOf("audio"), "linear")) :
           \E resampled \in ResampleModes(expanded) :
           \E encoded \in EncodeModes(expanded, resampled) :
             /\ stage' = [encode   |-> Stage(encoded, "linear", "aac"),
                          resample |-> IF resampled = "off" THEN NoStage ELSE Stage(resampled, "linear", "linear"),
                          expand   |-> Stage(expanded, CodecOf("audio"), "linear")]
             /\ IF \/ expanded = "failed" /\ HasTransform(CodecOf("audio"), "linear")
                   \/ resampled = "failed"
                   \/ encoded = "failed" /\ resampled # "failed" /\ HasTransform("linear", "aac")
                  THEN Fails ELSE UNCHANGED failures
  /\ pc' = "client" /\ got' = Later
  /\ UNCHANGED <<camera, source, queue, flushing>>

TranscoderSourceFails ==
  /\ pc = "opened" /\ got = Error /\ camera.chain = "record"
  /\ pc' = "client" /\ got' = Error
  /\ CloseSource
  /\ UNCHANGED <<camera, failures, transcoderVars>>

-----------------------------------------------------------------------------
(***************************************************************************)
(* mfdec_stream_read_frame.  After ProcessInput the output is asked for at *)
(* once; what is then still ready is the next read's.                      *)
(***************************************************************************)
Works(e) == stage[e].mode = "work"
Pending(e) == e \in Coders /\ Works(e) /\ Len(stage[e].held) > TransformDelay
Idle == UNCHANGED <<camera, failures, source, queue, flushing>>

CallBelow(e) ==
  /\ Runs(e) /\ ~Pending(e)
  /\ pc' = Below(e) /\ got' = Nothing
  /\ Idle /\ UNCHANGED stage

\* faulty: the transform's time is taken as it is, see AudioIsAsAnnounced
OutputTimeAsIs(e, time) == time
OutputTime(e, time) ==
  IF Known(stage[e].last) /\ time <= stage[e].last THEN stage[e].last + 1 ELSE time
Output(e, held) ==
  LET frame == [Head(held) EXCEPT !.pts = OutputTime(e, @)]
  IN /\ stage' = [stage EXCEPT ![e].held = Tail(held), ![e].last = frame.pts]
     /\ Give(e, frame)

\* what a transform is given that is not of its codec becomes noise
Transformed(e, packet) ==
  [packet EXCEPT !.codec = IF packet.codec = stage[e].src THEN stage[e].dst ELSE "noise"]

TransformPending(e) == Runs(e) /\ Pending(e) /\ Output(e, stage[e].held) /\ Idle

TransformPacket(e) ==
  /\ Gets(e) /\ e \in Coders /\ Works(e) /\ got.media = "audio"
  /\ \E n \in 1..MaxPortions :
       LET held == stage[e].held \o [i \in 1..n |-> Transformed(e, got)]
       IN IF Len(held) > TransformDelay
            THEN Output(e, held)
            ELSE stage' = [stage EXCEPT ![e].held = held] /\ Stay
  /\ Idle

\* once a packet was read, a failure of the transform is a success without a frame
TransformLosesPacket(e) ==
  /\ Gets(e) /\ e \in Coders /\ Works(e) /\ got.media = "audio" /\ Fails
  /\ stage' \in {stage, [stage EXCEPT ![e].held = Append(@, Transformed(e, got))]}
  /\ Give(e, Later)
  /\ UNCHANGED <<camera, source, queue, flushing>>

\* without one it is an error, and the last this element makes of it
TransformFails(e) ==
  /\ Runs(e) /\ Pending(e) /\ Fails
  /\ stage' = [stage EXCEPT ![e].mode = "failed"]
  /\ Give(e, Error)
  /\ UNCHANGED <<camera, source, queue, flushing>>

\* resample_filter_read_frame
Resample ==
  /\ Gets("resample") /\ Works("resample") /\ got.media = "audio"
  /\ \/ Give("resample", Transformed("resample", got)) /\ UNCHANGED failures
     \/ Fails /\ Give("resample", Error)
  /\ UNCHANGED <<camera, source, transcoderVars>>

PassOther(e) ==
  /\ Gets(e) /\ (~Works(e) \/ got.media # "audio")
  /\ Give(e, got)
  /\ Idle /\ UNCHANGED stage
PassNone(e) ==
  /\ GetsNone(e) /\ Give(e, got)
  /\ stage' = IF got = Error /\ e \in Coders /\ Works(e) THEN [stage EXCEPT ![e].mode = "failed"] ELSE stage
  /\ Idle

\* the splitter, read from its own subgraph
ReadQueue ==
  /\ Runs("queue")
  /\ IF queue # << >> THEN queue' = Tail(queue) /\ Give("queue", Head(queue))
                      ELSE Give("queue", IF flushing THEN Error ELSE Later) /\ UNCHANGED queue
  /\ UNCHANGED <<camera, failures, source, stage, flushing>>

TranscoderNext ==
  \/ OpenTranscoder \/ TranscoderSourceFails \/ Resample \/ ReadQueue
  \/ \E e \in {"encode", "resample", "expand"} :
       \/ CallBelow(e) \/ TransformPending(e) \/ TransformPacket(e) \/ TransformLosesPacket(e) \/ TransformFails(e)
       \/ PassOther(e) \/ PassNone(e)
=============================================================================
