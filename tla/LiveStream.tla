----------------------------- MODULE LiveStream -----------------------------
(***************************************************************************)
(* Live streaming of one HLS profile (src/videolib/videolib_hls.cpp) on a  *)
(* stream with an edge thread.  The thread of the connector reads through  *)
(* the splitter "hls"; its subgraph is                                     *)
(*                                                                         *)
(*     hls -> fps limiter -> jitter buffer -> splitter "rec" -> (recorder) *)
(*                                                                         *)
(* and the recorder is the subgraph of rec while streaming is enabled.     *)
(* Callers prepare, enable and disable streaming under graphMutex.  They   *)
(* reach the graph in two ways: through the connector, which takes         *)
(* streamLock for writing, and directly at the splitter hls, past it.      *)
(* The profile has an encoder, hence a limiter (needsEncoder).             *)
(*                                                                         *)
(* The jitter buffer is reduced to its queue, its history and the pause    *)
(* flag (JitterBuffer has the rest); a frame's number is its timestamp.    *)
(***************************************************************************)
EXTENDS Integers, Sequences, FiniteSets

CONSTANTS
  Callers,       \* threads of the application
  Producer,      \* the connector's thread
  NoThread,      \* "nobody has the lock"
  BufferTime,    \* bufferDuration of the jitter buffer
  PausedTime,    \* its bufferDurationWhenPaused
  MaxFrames,     \* bound: frames of the source at the profile's rate
  MaxRecordings  \* bound: recordings that are started

ASSUME ThreadsAssumption ==
  /\ NoThread \notin Callers \cup {Producer} /\ Producer \notin Callers
ASSUME TimesAssumption ==
  /\ BufferTime \in Nat /\ PausedTime \in Nat
  /\ MaxFrames \in Nat /\ MaxRecordings \in Nat

VARIABLES
  rdHeld, wrHolder,             \* streamLock: the producer reads, a caller writes
  graphMutex,                   \* data->graphMutex
  inserted,                     \* the splitter hls is in the graph
  hlsSub, hlsFrames, hlsMutex,  \* splitter hls
  recSub, recFrames, recMutex,  \* splitter rec; recSub is the number of a recording
  paused, queue, past,          \* jitter buffer
  fps,                          \* rate of the limiter
  ppc,                          \* where the producer is
  src,                          \* number of the last frame of the source
  hand,                         \* the frame hls has read
  served,                       \* the frame rec has read, 0 if there is none
  cpc,                          \* where each caller is
  wantPaused,                   \* parameter paused of each caller's call
  recordings,                   \* history: the frames each recorder was given
  since,                        \* history: the newest frame when a recording began
  given,                        \* history: what left the jitter buffer since then
  rejected,                     \* history: frames the limiter rejected
  prepared                      \* history: paused, and no recording begun since

NoSubgraph == 0
Subgraph   == 1

Hls == INSTANCE Splitter WITH subgraph <- hlsSub, source_frames <- hlsFrames,
                              subgraphMutex <- hlsMutex
Rec == INSTANCE Splitter WITH subgraph <- recSub, source_frames <- recFrames,
                              subgraphMutex <- recMutex

streamLock == <<rdHeld, wrHolder>>
hls     == <<hlsSub, hlsFrames, hlsMutex>>
rec     == <<recSub, recFrames, recMutex>>
jitbuf  == <<paused, queue, past>>
reader  == <<ppc, src, hand, served>>
calls   == <<graphMutex, cpc, wantPaused>>
records == <<recordings, since, given>>
history == <<records, rejected, prepared>>
vars == <<streamLock, inserted, hls, rec, jitbuf, fps, reader, calls, history>>

Excess == 0   \* a frame beyond the profile's rate, which the limiter always rejects

Init ==
  /\ rdHeld = FALSE /\ wrHolder = NoThread /\ graphMutex = NoThread
  /\ inserted = FALSE /\ Hls!Init /\ Rec!Init
  /\ paused = FALSE /\ queue = << >> /\ past = << >> /\ fps = "profile"
  /\ ppc = "idle" /\ src = 0 /\ hand = Excess /\ served = 0
  /\ cpc = [c \in Callers |-> "idle"] /\ wantPaused = [c \in Callers |-> FALSE]
  /\ recordings = << >> /\ since = << >> /\ given = << >>
  /\ rejected = {} /\ prepared = FALSE

ProducerGoes(from, to) == ppc = from /\ ppc' = to
CallerGoes(c, from, to) == cpc[c] = from /\ cpc' = [cpc EXCEPT ![c] = to]

-----------------------------------------------------------------------------
(***************************************************************************)
(* The connector's thread: one read of the graph under streamLock.         *)
(***************************************************************************)

\* _tc_thread_func enters the graph, through the splitter if it is inserted
EnterGraph ==
  /\ wrHolder = NoThread
  /\ rdHeld' = TRUE
  /\ ProducerGoes("idle", IF inserted THEN "source" ELSE "leave")
  /\ UNCHANGED <<wrHolder, inserted, hls, rec, jitbuf, fps, src, hand, served, calls,
                 history>>

\* read_frame of hls keeps the frame if there is a subgraph; no mutex
KeepsFrame == Hls!Attached

SourceFrame ==
  /\ ProducerGoes("source", IF KeepsFrame THEN "push" ELSE "check")
  /\ \/ hand' = Excess /\ UNCHANGED src
     \/ src < MaxFrames /\ src' = src + 1 /\ hand' = (IF KeepsFrame THEN src' ELSE Excess)
  /\ UNCHANGED <<streamLock, inserted, hls, rec, jitbuf, fps, served, calls, history>>

HlsPush ==
  /\ ProducerGoes("push", "check")
  /\ Hls!Push(hand) /\ hand' = Excess
  /\ UNCHANGED <<streamLock, inserted, hlsSub, hlsMutex, rec, jitbuf, fps, src, served,
                 calls, history>>

\* _splitter_run_subgraph looks at subgraph, then takes the mutex
HlsCheck ==
  /\ ProducerGoes("check", IF Hls!Attached THEN "lock" ELSE "leave")
  /\ UNCHANGED <<streamLock, inserted, hls, rec, jitbuf, fps, src, hand, served, calls,
                 history>>

HlsLock ==
  /\ ProducerGoes("lock", "jitbuf")
  /\ Hls!Enter(Producer)
  /\ UNCHANGED <<streamLock, inserted, hlsSub, hlsFrames, rec, jitbuf, fps, src, hand,
                 served, calls, history>>

Newest == queue[Len(queue)]

\* _jitbuf_reduce drops the first k frames, the ones too old for the newest
Reductions(q) ==
  {k \in 0 .. Len(q) : /\ \A i \in 1 .. k : Newest - q[i] > PausedTime
                       /\ k < Len(q) => Newest - q[k + 1] <= PausedTime}

Drop(q, k) == SubSeq(q, k + 1, Len(q))

Due == ~paused /\ queue # << >> /\ Newest - Head(queue) > BufferTime

Restored == past \o queue

\* _jitbuf_get: nothing is returned while paused, or while the queue is too short
JitterHoldsBack ==
  /\ ProducerGoes("jitbuf", "limiter")
  /\ ~Due
  /\ IF paused /\ queue # << >>
     THEN past' = << >> /\ \E k \in Reductions(Restored) : queue' = Drop(Restored, k)
     ELSE UNCHANGED <<queue, past>>
  /\ UNCHANGED <<streamLock, inserted, hls, rec, paused, fps, src, hand, served, calls,
                 history>>

\* ... or its head, which may be kept in the history
JitterReturns ==
  /\ ProducerGoes("jitbuf", "rectest")
  /\ Due
  /\ served' = Head(queue)
  /\ queue' = Tail(queue)
  /\ \/ LET q == Append(past, Head(queue))
        IN  \E k \in Reductions(q) : past' = Drop(q, k)
     \/ past # << >> /\ UNCHANGED past
  /\ given' = IF Rec!Attached THEN Append(given, served') ELSE given
  /\ UNCHANGED <<streamLock, inserted, hls, rec, paused, fps, src, hand, calls, recordings,
                 since, rejected, prepared>>

\* The limiter reads hls, which is running its subgraph, and passes a frame on
LimiterAccepts ==
  /\ ProducerGoes("limiter", "jitbuf")
  /\ Hls!Pop /\ Head(hlsFrames) # Excess
  /\ queue' = Append(queue, Head(hlsFrames))
  /\ UNCHANGED <<streamLock, inserted, hlsSub, hlsMutex, rec, paused, past, fps, src, hand,
                 served, calls, history>>

\* ... or rejects it and reads the next one
LimiterRejects ==
  /\ ProducerGoes("limiter", "limiter")
  /\ Hls!Pop /\ (Head(hlsFrames) = Excess \/ fps = "jumpstart")
  /\ rejected' = rejected \cup ({Head(hlsFrames)} \ {Excess})
  /\ UNCHANGED <<streamLock, inserted, hlsSub, hlsMutex, rec, jitbuf, fps, src, hand,
                 served, calls, records, prepared>>

NoMoreFrames ==
  /\ ProducerGoes("limiter", "reccheck")
  /\ Hls!Drained
  /\ UNCHANGED <<streamLock, inserted, hls, rec, jitbuf, fps, src, hand, served, calls,
                 history>>

\* read_frame of rec: no mutex of its own
RecTest ==
  /\ ProducerGoes("rectest", IF Rec!Attached THEN "recpush" ELSE "reccheck")
  /\ UNCHANGED <<streamLock, inserted, hls, rec, jitbuf, fps, src, hand, served, calls,
                 history>>

RecPush ==
  /\ ProducerGoes("recpush", "reccheck")
  /\ Rec!Push(served)
  /\ UNCHANGED <<streamLock, inserted, hls, recSub, recMutex, jitbuf, fps, src, hand,
                 served, calls, history>>

\* read_frame of rec returns; hls goes on until it got no frame, then leaves its mutex
HlsGoesOn ==
  /\ served' = 0
  /\ IF served # 0 THEN ppc' = "jitbuf" /\ UNCHANGED hlsMutex
                   ELSE ppc' = "leave" /\ Hls!Exit

RecCheckDetached ==
  /\ ppc = "reccheck" /\ ~Rec!Attached
  /\ HlsGoesOn
  /\ UNCHANGED <<streamLock, inserted, hlsSub, hlsFrames, rec, jitbuf, fps, src, hand,
                 calls, history>>

RecCheckAttached ==
  /\ ProducerGoes("reccheck", "reclock") /\ Rec!Attached
  /\ UNCHANGED <<streamLock, inserted, hls, rec, jitbuf, fps, src, hand, served, calls,
                 history>>

RecLock ==
  /\ ProducerGoes("reclock", "record")
  /\ Rec!Enter(Producer)
  /\ UNCHANGED <<streamLock, inserted, hls, recSub, recFrames, jitbuf, fps, src, hand,
                 served, calls, history>>

\* The recorder reads rec, which is running it, until there is no frame
Record ==
  /\ ProducerGoes("record", "record")
  /\ Rec!Attached /\ Rec!Pop
  /\ recordings' = [recordings EXCEPT ![recSub] = Append(@, Head(recFrames))]
  /\ UNCHANGED <<streamLock, inserted, hls, recSub, recMutex, jitbuf, fps, src, hand,
                 served, calls, since, given, rejected, prepared>>

RecordDone ==
  /\ ppc = "record" /\ Rec!Drained
  /\ Rec!Exit
  /\ HlsGoesOn
  /\ UNCHANGED <<streamLock, inserted, hlsSub, hlsFrames, recSub, recFrames, jitbuf, fps,
                 src, hand, calls, history>>

\* The connector gets the frame and releases streamLock
LeaveGraph ==
  /\ ProducerGoes("leave", "idle")
  /\ rdHeld' = FALSE
  /\ UNCHANGED <<wrHolder, inserted, hls, rec, jitbuf, fps, src, hand, served, calls,
                 history>>

-----------------------------------------------------------------------------
(***************************************************************************)
(* The callers.  A call holds graphMutex from its first step to its last.  *)
(***************************************************************************)

\* A call asks for graphMutex
Begin(c) ==
  /\ CallerGoes(c, "idle", "wait")
  /\ UNCHANGED <<streamLock, graphMutex, wantPaused, inserted, hls, rec, jitbuf, fps,
                 reader, history>>

GraphIsFree == graphMutex = NoThread

GraphLock(c) == GraphIsFree /\ graphMutex' = c

\* enable_live_stream (not paused) and prepare_live_stream (paused)
Enable(c) ==
  /\ GraphLock(c)
  /\ CallerGoes(c, "wait", "find")
  /\ \E p \in BOOLEAN : wantPaused' = [wantPaused EXCEPT ![c] = p]
  /\ UNCHANGED <<streamLock, inserted, hls, rec, jitbuf, fps, reader, history>>

Disable(c) ==
  /\ GraphLock(c)
  /\ CallerGoes(c, "wait", "detach")
  /\ UNCHANGED <<streamLock, wantPaused, inserted, hls, rec, jitbuf, fps, reader, history>>

\* get_new_frame, which waits for a frame with graphMutex held
ReadFrame(c) ==
  /\ GraphLock(c)
  /\ CallerGoes(c, "wait", "reading")
  /\ UNCHANGED <<streamLock, wantPaused, inserted, hls, rec, jitbuf, fps, reader, history>>

\* A call that goes through the connector: tc_insert_element, tc_stream_set_param
ThroughConnector == {"insert", "attach", "detach", "pause", "slow"}

StreamLock(c) ==
  /\ cpc[c] \in ThroughConnector
  /\ wrHolder = NoThread /\ ~rdHeld
  /\ wrHolder' = c
  /\ UNCHANGED <<rdHeld, inserted, hls, rec, jitbuf, fps, reader, calls, history>>

StreamUnlock(c) == wrHolder = c /\ wrHolder' = NoThread

\* tc_find_element has streamLock for reading
Find(c) ==
  /\ wrHolder = NoThread
  /\ CallerGoes(c, "find", IF inserted THEN "setfps" ELSE "insert")
  /\ UNCHANGED <<streamLock, graphMutex, wantPaused, inserted, hls, rec, jitbuf, fps,
                 reader, history>>

RateOf(p) == IF p THEN "jumpstart" ELSE "profile"

\* The subgraph is built, and the splitter inserted without it
Insert(c) ==
  /\ CallerGoes(c, "insert", "attach")
  /\ StreamUnlock(c)
  /\ inserted' = TRUE
  /\ paused' = wantPaused[c] /\ fps' = RateOf(wantPaused[c])
  /\ UNCHANGED <<rdHeld, graphMutex, wantPaused, hls, rec, queue, past, reader, history>>

Attach(c) ==
  /\ StreamUnlock(c)
  /\ Hls!Free
  /\ \/ CallerGoes(c, "attach", "query") /\ Hls!Attach(Subgraph) /\ prepared' = paused
     \/ CallerGoes(c, "attach", "exit") /\ Hls!AttachFails /\ UNCHANGED prepared
  /\ UNCHANGED <<rdHeld, graphMutex, wantPaused, inserted, hlsMutex, rec, jitbuf, fps,
                 reader, records, rejected>>

\* The splitter is there already: set_param directly at it, under its mutex
SetFps(c) ==
  /\ Hls!Free
  /\ CallerGoes(c, "setfps", IF Hls!Attached THEN "query" ELSE "exit")
  /\ fps' = IF Hls!Attached THEN RateOf(wantPaused[c]) ELSE fps
  /\ UNCHANGED <<streamLock, graphMutex, wantPaused, inserted, hls, rec, jitbuf, reader,
                 history>>

NeedsRecorder(c) == ~Rec!Attached /\ ~wantPaused[c]

\* faulty: the jitter buffer is resumed before there is a recorder
QueryResumes(c) ==
  /\ Hls!Free
  /\ CallerGoes(c, "query", IF NeedsRecorder(c) THEN "record" ELSE "exit")
  /\ paused' = wantPaused[c]
  /\ UNCHANGED <<streamLock, graphMutex, wantPaused, inserted, hls, rec, queue, past, fps,
                 reader, history>>

\* "Recorder subgraph already exists", "Keeping HLS stream in paused state"
Query(c) ==
  /\ Hls!Free
  /\ CallerGoes(c, "query", IF NeedsRecorder(c) THEN "record" ELSE "exit")
  /\ UNCHANGED <<streamLock, graphMutex, wantPaused, inserted, hls, rec, jitbuf, fps,
                 reader, history>>

\* faulty: rec is reached past the mutex of hls
PastHls == Rec!Free

\* a set_param that hls passes on to rec, with both mutexes held
ThroughHls == Hls!Free /\ Rec!Free

OpenFails == Rec!AttachFails

StartRecording(c) ==
  /\ ThroughHls
  /\ \/ /\ CallerGoes(c, "record", "resume")
        /\ Len(recordings) < MaxRecordings
        /\ Rec!Attach(Len(recordings) + 1)
        /\ recordings' = Append(recordings, << >>)
        /\ since' = Append(since, src)
        /\ given' = << >> /\ prepared' = FALSE
     \/ /\ CallerGoes(c, "record", "exit")
        /\ OpenFails
        /\ UNCHANGED <<records, prepared>>
  /\ UNCHANGED <<streamLock, graphMutex, wantPaused, inserted, hls, recMutex, jitbuf, fps,
                 reader, rejected>>

Resume(c) ==
  /\ Hls!Free
  /\ CallerGoes(c, "resume", "exit")
  /\ paused' = FALSE
  /\ UNCHANGED <<streamLock, graphMutex, wantPaused, inserted, hls, rec, queue, past, fps,
                 reader, history>>

Detaches ==
  /\ IF Hls!Attached
     THEN Rec!Detach /\ given' = << >>
     ELSE UNCHANGED <<recSub, recFrames, given>>
  /\ UNCHANGED <<rdHeld, graphMutex, wantPaused, inserted, hls, recMutex, jitbuf, fps,
                 reader, recordings, since, rejected, prepared>>

\* faulty: the recorder is detached at rec itself, past the connector
DetachAtRec(c) ==
  /\ CallerGoes(c, "detach", "pause")
  /\ wrHolder' = IF wrHolder = c THEN NoThread ELSE wrHolder
  /\ Rec!Free
  /\ Detaches

\* disable_live_stream: three set_param through the connector and both splitters
DetachRecorder(c) ==
  /\ CallerGoes(c, "detach", "pause")
  /\ StreamUnlock(c)
  /\ ThroughHls
  /\ Detaches

Pause(c) ==
  /\ CallerGoes(c, "pause", "slow")
  /\ StreamUnlock(c)
  /\ Hls!Free
  /\ IF Hls!Attached THEN paused' = TRUE /\ prepared' = TRUE
                     ELSE UNCHANGED <<paused, prepared>>
  /\ UNCHANGED <<rdHeld, graphMutex, wantPaused, inserted, hls, rec, queue, past, fps,
                 reader, records, rejected>>

SlowDown(c) ==
  /\ CallerGoes(c, "slow", "exit")
  /\ StreamUnlock(c)
  /\ Hls!Free
  /\ fps' = IF Hls!Attached THEN "jumpstart" ELSE fps
  /\ UNCHANGED <<rdHeld, graphMutex, wantPaused, inserted, hls, rec, jitbuf, reader,
                 history>>

\* The connector returns a frame, an error or a timeout
ReadReturns(c) ==
  /\ CallerGoes(c, "reading", "exit")
  /\ UNCHANGED <<streamLock, graphMutex, wantPaused, inserted, hls, rec, jitbuf, fps,
                 reader, history>>

ExitCall(c) ==
  /\ CallerGoes(c, "exit", "idle")
  /\ graphMutex' = NoThread
  /\ wantPaused' = [wantPaused EXCEPT ![c] = FALSE]
  /\ UNCHANGED <<streamLock, inserted, hls, rec, jitbuf, fps, reader, history>>

-----------------------------------------------------------------------------
ProducerSteps ==
  \/ SourceFrame \/ HlsPush \/ HlsCheck
  \/ JitterHoldsBack \/ JitterReturns \/ LimiterAccepts \/ LimiterRejects \/ NoMoreFrames
  \/ RecTest \/ RecPush \/ RecCheckDetached \/ RecCheckAttached \/ Record \/ RecordDone
  \/ LeaveGraph
ProducerLocks == EnterGraph \/ HlsLock \/ RecLock

CallerSteps(c) ==
  Insert(c) \/ Attach(c) \/ ReadReturns(c) \/ ExitCall(c)
\* steps that wait for a lock the producer or another caller has
CallerLocks(c) ==
  \/ Enable(c) \/ Disable(c) \/ ReadFrame(c) \/ StreamLock(c) \/ Find(c)
  \/ SetFps(c) \/ Query(c) \/ StartRecording(c) \/ Resume(c)
  \/ DetachRecorder(c) \/ Pause(c) \/ SlowDown(c)

Next ==
  \/ ProducerSteps \/ ProducerLocks
  \/ \E c \in Callers : Begin(c) \/ CallerLocks(c) \/ CallerSteps(c)

Spec == Init /\ [][Next]_vars

-----------------------------------------------------------------------------
(***************************************************************************)
(* Properties                                                              *)
(***************************************************************************)
ProducerPCs == {"idle", "source", "push", "check", "lock", "jitbuf", "limiter", "rectest",
                "recpush", "reccheck", "reclock", "record", "leave"}
CallerPCs == {"idle", "wait", "find", "setfps", "query", "record",
              "resume", "reading", "exit"} \cup ThroughConnector

TypeOK ==
  /\ rdHeld \in BOOLEAN /\ wrHolder \in Callers \cup {NoThread}
  /\ graphMutex \in Callers \cup {NoThread}
  /\ hlsMutex \in {Producer, NoThread} /\ recMutex \in {Producer, NoThread}
  /\ inserted \in BOOLEAN /\ paused \in BOOLEAN /\ prepared \in BOOLEAN
  /\ hlsSub \in {NoSubgraph, Subgraph} /\ recSub \in 0 .. Len(recordings)
  /\ hlsFrames \in Seq(Nat) /\ recFrames \in Seq(Nat)
  /\ queue \in Seq(Nat) /\ past \in Seq(Nat) /\ given \in Seq(Nat)
  /\ fps \in {"profile", "jumpstart"}
  /\ ppc \in ProducerPCs
  /\ src \in Nat /\ hand \in Nat /\ served \in Nat
  /\ cpc \in [Callers -> CallerPCs] /\ wantPaused \in [Callers -> BOOLEAN]
  /\ recordings \in Seq(Seq(Nat)) /\ since \in Seq(Nat) /\ Len(since) = Len(recordings)
  /\ rejected \subseteq Nat

\* A subgraph that the producer has seen attached, with or without the mutex, stays
\* attached until the producer has finished with it: subgraph_api is never called through
\* NULL (stream_splitter.cpp:308 and 319).
SubgraphInUse ==
  /\ ppc \notin {"idle", "source", "check", "leave"} => Hls!Attached
  /\ ppc \in {"recpush", "reclock", "record"} => Rec!Attached

\* source_frames holds frames for the attached subgraph only: a recorder never begins with
\* frames that were kept for the one before it (stream_splitter.cpp:364 and 204).
NoStaleFrames ==
  /\ ~Hls!Attached => hlsFrames = << >>
  /\ ~Rec!Attached => recFrames = << >>

OnItsWay == IF ppc \in {"rectest", "recpush"} THEN <<served>> ELSE << >>

\* What the jitter buffer returned since a recorder was attached reaches this recorder,
\* in that order and once, and nothing else does, although enable attaches it past
\* streamLock, while the producer may be inside the graph (videolib_hls.cpp:471).
EveryFrameRecorded ==
  Rec!Attached => given = recordings[recSub] \o recFrames \o OnItsWay

\* Recordings begin in the past and go on without a gap: only the limiter, or the thinned
\* history at the beginning, may leave a frame out (stream_jitter_buffer.cpp:274).
RecordingsContiguous ==
  \A r \in 1 .. Len(recordings) : \A i \in 2 .. Len(recordings[r]) :
    LET a == recordings[r][i - 1]
        b == recordings[r][i]
    IN a < b /\ (b > since[r] => a + 1 .. b - 1 \subseteq rejected)

\* Every recording gets what the jitter buffer returns, from the past it kept and without a gap.
RecordingsExact == EveryFrameRecorded /\ RecordingsContiguous

\* From the moment a stream is prepared or disabled until a recorder is attached, the
\* jitter buffer stays paused: no frame a later recording should begin with leaves it
\* unrecorded (videolib_hls.cpp:471-472 and 521-524).
PrerollKept == prepared => paused

\* When disable_live_stream is through with detaching and pausing, both are in effect and
\* stay so until it returns, whatever other callers do (videolib_hls.cpp:516-528).
DisableTakesEffect ==
  \A c \in Callers : cpc[c] = "slow" /\ Hls!Attached => ~Rec!Attached /\ paused

\* The two calls of disable, and the two of enable, are made as one: no other caller and no
\* frame gets in between so that a stream is left running or a recording without its past.
PauseFollowsRecorder == PrerollKept /\ DisableTakesEffect
=============================================================================
