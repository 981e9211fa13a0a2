---------------------------- MODULE JitterBuffer ----------------------------
(***************************************************************************)
(* The jitter buffer (src/videolib/stream_jitter_buffer.cpp): it sorts the *)
(* frames of its source by timestamp, holds them back for bufferTime, and  *)
(* while paused keeps the last PausedTime of them, so that a recording     *)
(* that starts later begins in the past.  After a pause it fills the gaps  *)
(* of a slow history with clones of the next video frame.                  *)
(*                                                                         *)
(* All calls are made by one thread at a time: parameters are set under    *)
(* the lock of the splitter or of the thread connector above.  The loop of *)
(* read_frame is unrolled into the steps "get" and "source".               *)
(***************************************************************************)
EXTENDS Integers, Sequences

CONSTANTS
  BufferTime,  \* bufferDuration
  PausedTime,  \* bufferDurationWhenPaused
  Jumpstart,   \* jumpstartWithPastFrames
  JumpGap,     \* 1000/jumpstartFps
  TargetGap,   \* 1000/targetFps, 0 if no target was set
  Second,      \* 1000, in the units of the timestamps
  Delays,      \* what upstream answers to encoderDelay; negative: not known yet
  NoParam,     \* there is no encoder upstream to answer
  Disorder,    \* bound: how far a frame may be behind the newest one
  MaxPts,      \* bound: largest timestamp
  MaxFrames    \* bound: frames the source delivers

ASSUME TimesAssumption ==
  /\ BufferTime \in Nat /\ PausedTime \in Nat /\ JumpGap \in Nat /\ TargetGap \in Nat
  /\ Second \in Nat \ {0} /\ Jumpstart \in BOOLEAN
  /\ MaxPts \in Nat /\ MaxFrames \in Nat

\* nothing says that the time the buffer waits covers the disorder, see late
ASSUME DelaysAssumption ==
  Disorder \in Nat /\ NoParam \notin Int /\ Delays \subseteq Int \cup {NoParam}

VARIABLES
  bufferTime, determinedEncoderDelay, paused,
  frameQueue, pastFrameQueue,
  lastVideoPastFramePts, lastVideoServedFramePts, prebufferEndPts,
  pc,       \* "idle" between calls, "get" or "source" in read_frame
  result,   \* what the last read_frame returned: "frame" or "none"
  framesRead,
  newest,   \* history: the largest timestamp read
  waiting,  \* history: frames read and not returned yet
  last,     \* history: timestamp of the last video/audio frame returned since
            \* past frames were put back, Never before the first
  waited,   \* history: bufferTime when the first frame was returned, Never before it
  late      \* history: a frame was read that is behind the newest by more than that

config  == <<bufferTime, determinedEncoderDelay>>
served  == <<pastFrameQueue, lastVideoPastFramePts, lastVideoServedFramePts, prebufferEndPts>>
input   == <<framesRead, newest>>
history == <<waiting, last, waited, late>>
vars    == <<config, paused, frameQueue, served, pc, result, input, history>>

Never == -1
Frame == [n : Nat, pts : Nat, video : BOOLEAN]

Oldest == Head(frameQueue)
Newest == frameQueue[Len(frameQueue)]
Span   == IF frameQueue = <<>> THEN 0 ELSE Newest.pts - Oldest.pts

\* the places after which _jitbuf_append may put timestamp p: exactly one
InsertPlaces(q, p) ==
  {k \in 0..Len(q) : /\ k > 0 => q[k].pts <= p
                     /\ \A i \in (k + 1)..Len(q) : q[i].pts > p}

\* faulty: a frame always goes to the end
InsertLast(q, k, f) == q \o <<f>>

InsertAfter(q, k, f) == SubSeq(q, 1, k) \o <<f>> \o SubSeq(q, k + 1, Len(q))

\* faulty: never drops a frame
NoReduction(q, tail) == {0}

\* how many frames _jitbuf_reduce drops from the front of q: exactly one number
Reductions(q, tail) ==
  {k \in 0..Len(q) : /\ \A i \in 1..k : tail - q[i].pts > PausedTime
                     /\ k < Len(q) => tail - q[k + 1].pts <= PausedTime}

Drop(q, k) == SubSeq(q, k + 1, Len(q))

Init ==
  /\ bufferTime = BufferTime /\ determinedEncoderDelay = FALSE
  /\ paused \in BOOLEAN
  /\ frameQueue = <<>> /\ pastFrameQueue = <<>>
  /\ lastVideoPastFramePts = 0 /\ lastVideoServedFramePts = 0 /\ prebufferEndPts = 0
  /\ pc = "idle" /\ result = "none" /\ framesRead = 0
  /\ newest = 0 /\ waiting = {} /\ last = [v \in BOOLEAN |-> Never]
  /\ waited = Never /\ late = FALSE

(***************************************************************************)
(* Parameters                                                              *)
(***************************************************************************)

SetPaused ==
  /\ pc = "idle"
  /\ paused' = ~paused
  /\ UNCHANGED <<config, frameQueue, served, pc, result, input, history>>

SetReset ==
  /\ pc = "idle"
  /\ determinedEncoderDelay' = FALSE
  /\ UNCHANGED <<bufferTime, paused, frameQueue, served, pc, result, input, history>>

(***************************************************************************)
(* _jitbuf_get                                                             *)
(***************************************************************************)

ReadFrame ==
  /\ pc = "idle"
  /\ pc' = "get"
  /\ UNCHANGED <<config, paused, frameQueue, served, result, input, history>>

Ready == pc = "get" /\ determinedEncoderDelay /\ frameQueue # <<>>

GetNotReady ==
  /\ pc = "get" /\ ~(determinedEncoderDelay /\ frameQueue # <<>>)
  /\ pc' = "source"
  /\ UNCHANGED <<config, paused, frameQueue, served, result, input, history>>

\* the queue after the splice
Restored == pastFrameQueue \o frameQueue

ClearHistory ==
  IF pastFrameQueue = <<>>
  THEN UNCHANGED <<served, last>>
  ELSE /\ pastFrameQueue' = <<>>
       /\ lastVideoPastFramePts' = 0
       /\ lastVideoServedFramePts' = 0
       /\ last' = [v \in BOOLEAN |-> Never]
       /\ UNCHANGED prebufferEndPts

\* paused: put the history back in front of the queue and drop what is too old
GetPaused ==
  /\ Ready /\ paused
  /\ \E k \in Reductions(Restored, Newest.pts) : frameQueue' = Drop(Restored, k)
  /\ ClearHistory
  /\ pc' = "source"
  /\ UNCHANGED <<config, paused, result, input, waiting, waited, late>>

StartingUp == lastVideoServedFramePts = 0

\* the part of _jitbuf_get every unpaused call runs
NotePrebufferEnd == prebufferEndPts' = IF StartingUp THEN Newest.pts ELSE prebufferEndPts

GetTooSoon ==
  /\ Ready /\ ~paused
  /\ Span <= bufferTime
  /\ NotePrebufferEnd
  /\ pc' = "source"
  /\ UNCHANGED <<config, paused, frameQueue, pastFrameQueue, lastVideoPastFramePts,
                 lastVideoServedFramePts, result, input, history>>

Due == Ready /\ ~paused /\ Span > bufferTime

\* _jitbuf_generate_frame clones the head with an earlier timestamp
NeedsFiller ==
  /\ Oldest.video
  /\ ~StartingUp
  /\ Oldest.pts < prebufferEndPts
  /\ TargetGap # 0
  /\ Oldest.pts - lastVideoServedFramePts > TargetGap

Return == pc' = "idle" /\ result' = "frame"

\* faulty: forgets that the clone was served
GetFillerAgain ==
  /\ Due /\ NeedsFiller
  /\ last' = [last EXCEPT ![TRUE] = lastVideoServedFramePts + TargetGap]
  /\ Return
  /\ UNCHANGED <<config, paused, frameQueue, served, input, waiting, waited, late>>

GetFiller ==
  /\ Due /\ NeedsFiller
  /\ lastVideoServedFramePts' = lastVideoServedFramePts + TargetGap
  /\ last' = [last EXCEPT ![TRUE] = lastVideoServedFramePts']
  /\ Return
  /\ UNCHANGED <<config, paused, frameQueue, pastFrameQueue, lastVideoPastFramePts,
                 prebufferEndPts, input, waiting, waited, late>>

\* _jitbuf_save_frame_for_jumpstart keeps f
ShouldSave(f) ==
  \/ pastFrameQueue = <<>>
  \/ ~f.video
  \/ lastVideoPastFramePts = 0
  \/ f.pts \div Second # lastVideoPastFramePts \div Second
  \/ f.pts - lastVideoPastFramePts > JumpGap

SaveForJumpstart(f) ==
  IF Jumpstart /\ ShouldSave(f)
  THEN /\ LET q == Append(pastFrameQueue, f)
          IN  \E k \in Reductions(q, Newest.pts) : pastFrameQueue' = Drop(q, k)
       /\ lastVideoPastFramePts' = IF f.video THEN f.pts ELSE lastVideoPastFramePts
  ELSE UNCHANGED <<pastFrameQueue, lastVideoPastFramePts>>

GetFrame ==
  /\ Due /\ ~NeedsFiller
  /\ frameQueue' = Tail(frameQueue)
  /\ SaveForJumpstart(Oldest)
  /\ lastVideoServedFramePts' = IF Oldest.video THEN Oldest.pts ELSE lastVideoServedFramePts
  /\ NotePrebufferEnd
  /\ last' = [last EXCEPT ![Oldest.video] = Oldest.pts]
  /\ waiting' = waiting \ {Oldest}
  /\ waited' = IF waited = Never THEN bufferTime ELSE waited
  /\ Return
  /\ UNCHANGED <<config, paused, input, late>>

(***************************************************************************)
(* The rest of the loop: the source, the encoder's delay, _jitbuf_append   *)
(***************************************************************************)

SourceEmpty ==
  /\ pc = "source"
  /\ pc' = "idle" /\ result' = "none"
  /\ UNCHANGED <<config, paused, frameQueue, served, input, history>>

\* the encoderDelay query, answered with d
DetermineDelay(d) ==
  /\ determinedEncoderDelay' = (determinedEncoderDelay \/ d = NoParam \/ d >= 0)
  /\ bufferTime' = IF ~determinedEncoderDelay /\ d # NoParam /\ d > bufferTime
                   THEN d ELSE bufferTime

SourceFrame ==
  /\ pc = "source"
  /\ framesRead < MaxFrames
  /\ \E p \in 0..MaxPts, v \in BOOLEAN :
       LET f == [n |-> framesRead + 1, pts |-> p, video |-> v]
       IN  /\ p >= newest - Disorder
           /\ \E d \in Delays : DetermineDelay(d)
           /\ \E k \in InsertPlaces(frameQueue, p) : frameQueue' = InsertAfter(frameQueue, k, f)
           /\ waiting' = waiting \cup {f}
           /\ newest' = IF p > newest THEN p ELSE newest
           /\ late' = (late \/ (waited # Never /\ p < newest - waited))
  /\ framesRead' = framesRead + 1
  /\ pc' = "get"
  /\ UNCHANGED <<paused, served, result, last, waited>>

InCall == GetNotReady \/ GetPaused \/ GetTooSoon \/ GetFiller \/ GetFrame
            \/ SourceEmpty \/ SourceFrame

Next == ReadFrame \/ InCall \/ SetPaused \/ SetReset

Spec == Init /\ [][Next]_vars

(* The subgraph is read again and again by the splitter above it, which    *)
(* runs on the thread that reads the stream.                               *)
FairSpec == Spec /\ WF_vars(ReadFrame \/ InCall)

(***************************************************************************)
(* Properties                                                              *)
(***************************************************************************)

TypeOK ==
  /\ bufferTime \in Nat /\ determinedEncoderDelay \in BOOLEAN /\ paused \in BOOLEAN
  /\ frameQueue \in Seq(Frame) /\ pastFrameQueue \in Seq(Frame)
  /\ lastVideoPastFramePts \in Nat /\ lastVideoServedFramePts \in Nat
  /\ prebufferEndPts \in Nat
  /\ pc \in {"idle", "get", "source"} /\ result \in {"frame", "none"}
  /\ framesRead \in Nat /\ newest \in Nat
  /\ waiting \subseteq Frame /\ last \in [BOOLEAN -> Nat \cup {Never}]
  /\ waited \in Nat \cup {Never} /\ late \in BOOLEAN

InOrder(q) == \A i, j \in 1..Len(q) : i < j => q[i].pts <= q[j].pts

(* The history followed by the queue is sorted, so putting the history     *)
(* back in front (the splice in _jitbuf_get) needs no second sort, until a *)
(* frame comes too late.                                                   *)
QueuesSorted == late \/ InOrder(pastFrameQueue \o frameQueue)

(* A frame that was read and not returned is still queued, unless a pause  *)
(* found it older than PausedTime: pausing, resuming and a change of the   *)
(* delay lose nothing else.                                                *)
Kept ==
  \A f \in waiting : \/ \E i \in 1..Len(frameQueue) : frameQueue[i] = f
                     \/ newest - f.pts > PausedTime

(* The video frames, and the audio frames, are returned by increasing      *)
(* timestamp, clones included, until a pause puts the history back, and    *)
(* until a frame comes that is further behind than the buffer waited when  *)
(* it began: an encoder's delay that grows later comes too late for that.  *)
MediaOrdered ==
  [][late \/ \A v \in BOOLEAN : last'[v] >= last[v] \/ last'[v] = Never]_vars

(* When a read comes back empty, no more is held than the mode asks for:   *)
(* nothing that is due while running, and at most PausedTime while paused, *)
(* however long the pause.                                                 *)
HeldWithinWindow ==
  [][pc = "source" /\ pc' = "idle" /\ determinedEncoderDelay =>
       Span <= IF paused THEN PausedTime ELSE bufferTime]_vars

(* The clones that fill a gap come to an end: the loop of the splitter     *)
(* (_splitter_run_subgraph), which reads until it gets nothing, ends.      *)
FillersEnd == []<>(pc = "idle" /\ result = "none")

(* However long the pause, the buffer keeps what the mode asks for and no  *)
(* more: no frame of the window is lost and none outside it is held.       *)
WindowKept == []Kept /\ HeldWithinWindow
=============================================================================
