------------------------- MODULE LiveStreamProofs --------------------------
(***************************************************************************)
(* Proofs about LiveStream, for any number of callers, buffer times,       *)
(* frames and recordings: which locks are held where, and what follows     *)
(* for the two splitters, for what a recording gets and for the pauses.    *)
(***************************************************************************)
EXTENDS LiveStream, SequenceTheorems, TLAPS

ThreadsDiffer == NoThread \notin Callers /\ NoThread # Producer /\ Producer \notin Callers

LEMMA ThreadsDifferHolds == ThreadsDiffer
BY ThreadsAssumption DEF ThreadsDiffer

(***************************************************************************)
(* Where the locks are held                                                *)
(***************************************************************************)

InHls == {"jitbuf", "limiter", "rectest", "recpush", "reccheck", "reclock", "record"}

\* The producer reads streamLock inside the graph and has the mutex of a splitter while
\* it runs the splitter's subgraph; a call has graphMutex until it returns.
Locks ==
  /\ rdHeld <=> ppc # "idle"
  /\ rdHeld => wrHolder = NoThread
  /\ hlsMutex = IF ppc \in InHls THEN Producer ELSE NoThread
  /\ recMutex = IF ppc = "record" THEN Producer ELSE NoThread

OneCall == \A c \in Callers : cpc[c] \notin {"idle", "wait"} => graphMutex = c

LEMMA LocksStep ==
  ASSUME Locks, Next
  PROVE  Locks'
<1> USE ThreadsDifferHolds DEF ThreadsDiffer, Locks, InHls, ProducerGoes
<1>1. ASSUME ProducerLocks PROVE Locks'
  <2>1. CASE EnterGraph
    BY <2>1 DEF EnterGraph, hls, rec
  <2>2. CASE HlsLock
    BY <2>2 DEF HlsLock, Hls!Enter, streamLock, rec
  <2>3. CASE RecLock
    BY <2>3 DEF RecLock, Rec!Enter, streamLock, hls
  <2> QED
    BY <1>1, <2>1, <2>2, <2>3 DEF ProducerLocks
<1>2. ASSUME SourceFrame PROVE Locks'
  BY <1>2 DEF SourceFrame, streamLock, hls, rec
<1>3. ASSUME HlsPush \/ HlsCheck PROVE Locks'
  BY <1>3 DEF HlsPush, HlsCheck, streamLock, hls, rec
<1>4. ASSUME JitterHoldsBack \/ JitterReturns PROVE Locks'
  BY <1>4 DEF JitterHoldsBack, JitterReturns, streamLock, hls, rec
<1>5. ASSUME LimiterAccepts \/ LimiterRejects \/ NoMoreFrames PROVE Locks'
  BY <1>5 DEF LimiterAccepts, LimiterRejects, NoMoreFrames, streamLock, hls, rec
<1>6. ASSUME RecTest \/ RecPush \/ RecCheckAttached \/ Record PROVE Locks'
  BY <1>6 DEF RecTest, RecPush, RecCheckAttached, Record, streamLock, hls, rec
<1>7. ASSUME RecCheckDetached \/ RecordDone PROVE Locks'
  BY <1>7 DEF RecCheckDetached, RecordDone, HlsGoesOn, Hls!Exit, Rec!Exit, streamLock, rec
<1>8. ASSUME LeaveGraph PROVE Locks'
  BY <1>8 DEF LeaveGraph, hls, rec
<1>9. ASSUME NEW c \in Callers, Begin(c) \/ CallerLocks(c) \/ CallerSteps(c) PROVE Locks'
  <2>1. CASE Begin(c) \/ Enable(c) \/ Disable(c) \/ ReadFrame(c) \/ ReadReturns(c) \/ ExitCall(c)
    BY <2>1 DEF Begin, Enable, Disable, ReadFrame, ReadReturns, ExitCall, streamLock, hls, rec, reader
  <2>2. CASE StreamLock(c)
    BY <2>2 DEF StreamLock, hls, rec, reader
  <2>3. CASE Find(c) \/ SetFps(c) \/ Query(c) \/ StartRecording(c) \/ Resume(c)
    BY <2>3 DEF Find, SetFps, Query, StartRecording, Resume, streamLock, hls, rec, reader
  <2>4. CASE DetachRecorder(c)
    BY <2>4 DEF DetachRecorder, Detaches, StreamUnlock, hls, reader
  <2>5. CASE Insert(c) \/ Attach(c) \/ Pause(c) \/ SlowDown(c)
    BY <2>5 DEF Insert, Attach, Pause, SlowDown, StreamUnlock, hls, rec, reader
  <2> QED
    BY <1>9, <2>1, <2>2, <2>3, <2>4, <2>5 DEF CallerLocks, CallerSteps
<1> QED
  BY <1>1, <1>2, <1>3, <1>4, <1>5, <1>6, <1>7, <1>8, <1>9 DEF Next, ProducerSteps

(***************************************************************************)
(* Types                                                                   *)
(***************************************************************************)
LEMMA DropType ==
  ASSUME NEW q \in Seq(Nat), NEW k \in 0 .. Len(q)
  PROVE  Drop(q, k) \in Seq(Nat)
<1>1. Len(q) \in Nat /\ \A i \in 1 .. Len(q) : q[i] \in Nat
  BY LenProperties
<1> QED
  BY <1>1, SubSeqProperties DEF Drop

LEMMA ReducedType ==
  ASSUME NEW q \in Seq(Nat), NEW k \in Reductions(q)
  PROVE  Drop(q, k) \in Seq(Nat)
<1>1. k \in 0 .. Len(q)
  BY DEF Reductions
<1> QED
  BY <1>1, DropType

LEMMA HeadTailType ==
  ASSUME NEW S, NEW q \in Seq(S), q # << >>
  PROVE  Head(q) \in S /\ Tail(q) \in Seq(S)
BY HeadTailProperties

LEMMA AppendType ==
  ASSUME NEW S, NEW q \in Seq(S), NEW e \in S
  PROVE  Append(q, e) \in Seq(S) /\ Len(Append(q, e)) = Len(q) + 1
BY AppendProperties

LEMMA CallerType ==
  ASSUME TypeOK, NEW c \in Callers, NEW from, NEW to \in CallerPCs, CallerGoes(c, from, to)
  PROVE  /\ cpc' \in [Callers -> CallerPCs] /\ cpc[c] = from /\ cpc'[c] = to
         /\ \A d \in Callers \ {c} : cpc'[d] = cpc[d]
BY DEF TypeOK, CallerGoes

LEMMA ProducerType ==
  ASSUME TypeOK, ProducerSteps \/ ProducerLocks
  PROVE  TypeOK'
<1> USE DEF TypeOK, streamLock, hls, rec, jitbuf, calls, records, history
<1>1. CASE EnterGraph
  BY <1>1 DEF EnterGraph, ProducerGoes, ProducerPCs
<1>2. CASE SourceFrame
  <2>1. src' \in Nat /\ hand' \in Nat
    BY <1>2 DEF SourceFrame, Excess
  <2> QED
    BY <1>2, <2>1 DEF SourceFrame, ProducerGoes, ProducerPCs
<1>3. CASE HlsPush
  <2>1. hlsFrames' \in Seq(Nat) /\ hand' \in Nat
    BY <1>3, AppendType DEF HlsPush, Hls!Push, Excess
  <2> QED
    BY <1>3, <2>1 DEF HlsPush, ProducerGoes, ProducerPCs
<1>4. CASE HlsCheck \/ HlsLock \/ RecTest \/ RecCheckAttached \/ RecLock
  <2>1. CASE HlsCheck
    BY <2>1 DEF HlsCheck, ProducerGoes, ProducerPCs
  <2>2. CASE HlsLock
    BY <2>2 DEF HlsLock, Hls!Enter, ProducerGoes, ProducerPCs
  <2>3. CASE RecTest \/ RecCheckAttached
    BY <2>3, ZenonT(30) DEF RecTest, RecCheckAttached, ProducerGoes, ProducerPCs
  <2>4. CASE RecLock
    BY <2>4 DEF RecLock, Rec!Enter, ProducerGoes, ProducerPCs
  <2> QED
    BY <1>4, <2>1, <2>2, <2>3, <2>4
<1>5. CASE JitterHoldsBack
  <2>1. queue' \in Seq(Nat) /\ past' \in Seq(Nat)
    <3>1. Restored \in Seq(Nat) /\ << >> \in Seq(Nat)
      BY ConcatProperties, EmptySeq DEF Restored
    <3> QED
      BY <1>5, <3>1, ReducedType DEF JitterHoldsBack
  <2> QED
    BY <1>5, <2>1, SMTT(30) DEF JitterHoldsBack, ProducerGoes, ProducerPCs
<1>6. CASE JitterReturns
  <2>1. Head(queue) \in Nat /\ Tail(queue) \in Seq(Nat)
    BY <1>6, HeadTailType DEF JitterReturns, Due
  <2>2. Append(past, Head(queue)) \in Seq(Nat) /\ Append(given, Head(queue)) \in Seq(Nat)
    BY <2>1, AppendType
  <2>3. past' \in Seq(Nat)
    BY <1>6, <2>2, ReducedType DEF JitterReturns
  <2>4. queue' \in Seq(Nat) /\ served' \in Nat /\ given' \in Seq(Nat)
    BY <1>6, <2>1, <2>2 DEF JitterReturns
  <2> QED
    BY <1>6, <2>3, <2>4, SMTT(30) DEF JitterReturns, ProducerGoes, ProducerPCs
<1>7. CASE LimiterAccepts
  <2>1. Head(hlsFrames) \in Nat /\ Tail(hlsFrames) \in Seq(Nat)
    BY <1>7, HeadTailType DEF LimiterAccepts, Hls!Pop
  <2>2. hlsFrames' \in Seq(Nat) /\ queue' \in Seq(Nat)
    BY <1>7, <2>1, AppendType DEF LimiterAccepts, Hls!Pop
  <2> QED
    BY <1>7, <2>2 DEF LimiterAccepts, ProducerGoes, ProducerPCs
<1>8. CASE LimiterRejects
  <2>1. Head(hlsFrames) \in Nat /\ Tail(hlsFrames) \in Seq(Nat)
    BY <1>8, HeadTailType DEF LimiterRejects, Hls!Pop
  <2>2. hlsFrames' \in Seq(Nat) /\ rejected' \subseteq Nat
    BY <1>8, <2>1 DEF LimiterRejects, Hls!Pop
  <2> QED
    BY <1>8, <2>2 DEF LimiterRejects, ProducerGoes, ProducerPCs
<1>9. CASE NoMoreFrames
  BY <1>9 DEF NoMoreFrames, ProducerGoes, ProducerPCs
<1>10. CASE RecPush
  <2>1. recFrames' \in Seq(Nat)
    BY <1>10, AppendType DEF RecPush, Rec!Push
  <2> QED
    BY <1>10, <2>1 DEF RecPush, ProducerGoes, ProducerPCs
<1>11. CASE RecCheckDetached \/ RecordDone
  <2>1. ASSUME HlsGoesOn PROVE served' \in Nat /\ ppc' \in ProducerPCs /\ hlsMutex' \in {Producer, NoThread}
    BY <2>1 DEF HlsGoesOn, Hls!Exit, ProducerPCs
  <2>2. CASE RecCheckDetached
    BY <2>1, <2>2 DEF RecCheckDetached
  <2>3. CASE RecordDone
    BY <2>1, <2>3 DEF RecordDone, Rec!Exit
  <2> QED
    BY <1>11, <2>2, <2>3
<1>12. CASE Record
  <2>1. Head(recFrames) \in Nat /\ Tail(recFrames) \in Seq(Nat)
    BY <1>12, HeadTailType DEF Record, Rec!Pop
  <2>2. recSub \in 1 .. Len(recordings) /\ Len(recordings) \in Nat
    BY <1>12, LenProperties DEF Record, Rec!Attached, NoSubgraph
  <2>3. recordings[recSub] \in Seq(Nat)
    BY <2>2, LenProperties
  <2>4. Append(recordings[recSub], Head(recFrames)) \in Seq(Nat)
    BY <2>1, <2>3, AppendType
  <2>5. recordings' \in Seq(Seq(Nat)) /\ Len(recordings') = Len(recordings)
    BY <1>12, <2>2, <2>4, ExceptSeq DEF Record
  <2>6. recFrames' \in Seq(Nat)
    BY <1>12, <2>1 DEF Record, Rec!Pop
  <2> QED
    BY <1>12, <2>5, <2>6, SMTT(30) DEF Record, ProducerGoes, ProducerPCs
<1>13. CASE LeaveGraph
  BY <1>13 DEF LeaveGraph, ProducerGoes, ProducerPCs
<1> QED
  BY <1>1, <1>2, <1>3, <1>4, <1>5, <1>6, <1>7, <1>8, <1>9, <1>10, <1>11, <1>12, <1>13
  DEF ProducerSteps, ProducerLocks

LEMMA CallerStepType ==
  ASSUME TypeOK, NEW c \in Callers, Begin(c) \/ CallerLocks(c) \/ CallerSteps(c)
  PROVE  TypeOK'
<1> USE DEF TypeOK, streamLock, hls, rec, jitbuf, reader, calls, records, history
<1>0. ASSUME NEW from, NEW to \in CallerPCs, CallerGoes(c, from, to)
      PROVE  cpc' \in [Callers -> CallerPCs]
  BY <1>0, CallerType
<1> DEFINE At(p) == p \in CallerPCs
<1>00. \A p \in {"idle", "wait", "find", "setfps", "query", "record", "resume", "reading", "exit",
                  "insert", "attach", "detach", "pause", "slow"} : At(p)
  BY DEF CallerPCs, ThroughConnector
<1> HIDE DEF At
<1>1. CASE Begin(c) \/ Find(c) \/ Query(c) \/ ReadReturns(c)
  <2>1. cpc' \in [Callers -> CallerPCs]
    BY <1>1, <1>0, <1>00 DEF At, Begin, Find, Query, ReadReturns
  <2> QED
    <3>1. CASE Begin(c)
      BY <2>1, <3>1 DEF Begin
    <3>2. CASE Find(c)
      BY <2>1, <3>2 DEF Find
    <3>3. CASE Query(c)
      BY <2>1, <3>3 DEF Query
    <3>4. CASE ReadReturns(c)
      BY <2>1, <3>4 DEF ReadReturns
    <3> QED
      BY <1>1, <3>1, <3>2, <3>3, <3>4
<1>2. CASE Enable(c)
  <2>1. cpc' \in [Callers -> CallerPCs]
    BY <1>2, <1>0, <1>00 DEF At, Enable
  <2>2. wantPaused' \in [Callers -> BOOLEAN]
    BY <1>2, Zenon DEF Enable
  <2> QED
    BY <1>2, <2>1, <2>2 DEF Enable, GraphLock
<1>3. CASE Disable(c) \/ ReadFrame(c)
  <2>1. cpc' \in [Callers -> CallerPCs]
    BY <1>3, <1>0, <1>00 DEF At, Disable, ReadFrame
  <2> QED
    BY <1>3, <2>1, ZenonT(30) DEF Disable, ReadFrame, GraphLock
<1>4. CASE StreamLock(c)
  BY <1>4 DEF StreamLock
<1>5. CASE Insert(c)
  <2>1. cpc' \in [Callers -> CallerPCs]
    BY <1>5, <1>0, <1>00 DEF At, Insert
  <2>2. wantPaused[c] \in BOOLEAN
    OBVIOUS
  <2> QED
    BY <1>5, <2>1, <2>2 DEF Insert, StreamUnlock, RateOf
<1>6. CASE Attach(c)
  <2>1. cpc' \in [Callers -> CallerPCs]
    BY <1>6, <1>0, <1>00 DEF At, Attach
  <2>2. hlsFrames' \in Seq(Nat) /\ hlsSub' \in {NoSubgraph, Subgraph}
    BY <1>6, EmptySeq DEF Attach, Hls!Attach, Hls!AttachFails
  <2> QED
    BY <1>6, <2>1, <2>2 DEF Attach, StreamUnlock
<1>7. CASE SetFps(c)
  <2>1. cpc' \in [Callers -> CallerPCs]
    BY <1>7, <1>0, <1>00 DEF At, SetFps
  <2> QED
    BY <1>7, <2>1 DEF SetFps, RateOf
<1>8. CASE StartRecording(c)
  <2>1. cpc' \in [Callers -> CallerPCs]
    BY <1>8, <1>0, <1>00 DEF At, StartRecording
  <2>2. Len(recordings) \in Nat /\ << >> \in Seq(Nat)
    BY LenProperties, EmptySeq
  <2>3. CASE Rec!Attach(Len(recordings) + 1) /\ recordings' = Append(recordings, << >>)
             /\ since' = Append(since, src) /\ given' = << >> /\ prepared' = FALSE
    <3>1. /\ recordings' \in Seq(Seq(Nat)) /\ Len(recordings') = Len(recordings) + 1
          /\ since' \in Seq(Nat) /\ Len(since') = Len(since) + 1
      BY <2>2, <2>3, AppendType
    <3>2. recSub' \in 0 .. Len(recordings') /\ recFrames' \in Seq(Nat) /\ given' \in Seq(Nat)
      BY <2>2, <2>3, <3>1 DEF Rec!Attach
    <3> QED
      BY <1>8, <2>1, <2>3, <3>1, <3>2, ZenonT(30) DEF StartRecording
  <2>4. CASE OpenFails /\ UNCHANGED <<records, prepared>>
    <3>1. recSub' \in 0 .. Len(recordings') /\ recFrames' \in Seq(Nat)
      BY <2>2, <2>4 DEF OpenFails, Rec!AttachFails, NoSubgraph
    <3> QED
      BY <1>8, <2>1, <2>4, <3>1 DEF StartRecording
  <2> QED
    BY <1>8, <2>3, <2>4 DEF StartRecording
<1>9. CASE Resume(c)
  <2>1. cpc' \in [Callers -> CallerPCs]
    BY <1>9, <1>0, <1>00 DEF At, Resume
  <2> QED
    BY <1>9, <2>1 DEF Resume
<1>10. CASE DetachRecorder(c)
  <2>1. cpc' \in [Callers -> CallerPCs]
    BY <1>10, <1>0, <1>00 DEF At, DetachRecorder
  <2>2. Len(recordings) \in Nat /\ << >> \in Seq(Nat)
    BY LenProperties, EmptySeq
  <2>3. Detaches
    BY <1>10 DEF DetachRecorder
  <2>4. recSub' \in {recSub, NoSubgraph} /\ recFrames' \in {recFrames, << >>} /\ given' \in {given, << >>}
    BY <2>3 DEF Detaches, Rec!Detach
  <2>5. recFrames' \in Seq(Nat) /\ given' \in Seq(Nat)
    BY <2>2, <2>4
  <2>6. recSub' \in 0 .. Len(recordings)
    BY <2>2, <2>4, SMTT(30) DEF NoSubgraph
  <2> QED
    BY <1>10, <2>1, <2>5, <2>6 DEF DetachRecorder, Detaches, StreamUnlock
<1>11. CASE Pause(c) \/ SlowDown(c)
  <2>1. cpc' \in [Callers -> CallerPCs]
    BY <1>11, <1>0, <1>00 DEF At, Pause, SlowDown
  <2> QED
    BY <1>11, <2>1, ZenonT(30) DEF Pause, SlowDown, StreamUnlock
<1>12. CASE ExitCall(c)
  <2>1. cpc' \in [Callers -> CallerPCs]
    BY <1>12, <1>0, <1>00 DEF At, ExitCall
  <2>2. wantPaused' \in [Callers -> BOOLEAN]
    BY <1>12, Zenon DEF ExitCall
  <2> QED
    BY <1>12, <2>1, <2>2 DEF ExitCall
<1> QED
  BY <1>1, <1>2, <1>3, <1>4, <1>5, <1>6, <1>7, <1>8, <1>9, <1>10, <1>11, <1>12
  DEF CallerLocks, CallerSteps

LEMMA TypeInit == Init => TypeOK
<1> SUFFICES ASSUME Init PROVE TypeOK
  OBVIOUS
<1>1. \A S : << >> \in Seq(S) /\ Len(<< >>) = 0
  BY EmptySeq
<1>2. /\ hlsSub \in {NoSubgraph, Subgraph} /\ hlsFrames \in Seq(Nat)
      /\ hlsMutex \in {Producer, NoThread}
  BY <1>1 DEF Init, Hls!Init
<1>3. /\ recordings \in Seq(Seq(Nat)) /\ since \in Seq(Nat) /\ Len(since) = Len(recordings)
      /\ queue \in Seq(Nat) /\ past \in Seq(Nat) /\ given \in Seq(Nat)
  BY <1>1 DEF Init
<1>4. recSub \in 0 .. Len(recordings) /\ recFrames \in Seq(Nat) /\ recMutex \in {Producer, NoThread}
  BY <1>1 DEF Init, Rec!Init, NoSubgraph
<1>5. cpc \in [Callers -> CallerPCs] /\ wantPaused \in [Callers -> BOOLEAN]
  <2>1. "idle" \in CallerPCs
    BY DEF CallerPCs
  <2> QED
    BY <2>1, Zenon DEF Init
<1>6. /\ rdHeld \in BOOLEAN /\ inserted \in BOOLEAN /\ paused \in BOOLEAN /\ prepared \in BOOLEAN
      /\ wrHolder \in Callers \cup {NoThread} /\ graphMutex \in Callers \cup {NoThread}
  BY Zenon DEF Init
<1>7. /\ fps \in {"profile", "jumpstart"} /\ ppc \in ProducerPCs
      /\ src \in Nat /\ hand \in Nat /\ served \in Nat /\ rejected \subseteq Nat
  BY DEF Init, ProducerPCs, Excess
<1> QED
  BY <1>2, <1>3, <1>4, <1>5, <1>6, <1>7 DEF TypeOK

LEMMA TypeStutters == TypeOK /\ UNCHANGED vars => TypeOK'
BY DEF vars, TypeOK, streamLock, hls, rec, jitbuf, reader, calls, records, history

\* Every variable keeps its type.
THEOREM LiveTypeCorrect == Spec => []TypeOK
<1>1. TypeOK /\ [Next]_vars => TypeOK'
  <2> SUFFICES ASSUME TypeOK, [Next]_vars PROVE TypeOK'
    OBVIOUS
  <2>1. CASE Next
    BY <2>1, ProducerType, CallerStepType DEF Next
  <2>2. CASE UNCHANGED vars
    BY <2>2, TypeStutters
  <2> QED
    BY <2>1, <2>2
<1> QED
  BY <1>1, TypeInit, PTL DEF Spec

(***************************************************************************)
(* One call at a time                                                      *)
(***************************************************************************)
LEMMA OneCallStep ==
  ASSUME TypeOK, OneCall, Next
  PROVE  OneCall'
<1> USE ThreadsDifferHolds DEF ThreadsDiffer
<1>1. ASSUME ProducerSteps \/ ProducerLocks PROVE UNCHANGED <<cpc, graphMutex>>
  BY <1>1 DEF ProducerSteps, ProducerLocks, EnterGraph, SourceFrame, HlsPush, HlsCheck, HlsLock,
     JitterHoldsBack, JitterReturns, LimiterAccepts, LimiterRejects, NoMoreFrames, RecTest,
     RecPush, RecCheckDetached, RecCheckAttached, RecLock, Record, RecordDone, LeaveGraph, calls
<1>2. ASSUME NEW c \in Callers, Begin(c) \/ CallerLocks(c) \/ CallerSteps(c) PROVE OneCall'
  <2>0. ASSUME NEW from, NEW to, CallerGoes(c, from, to)
        PROVE  cpc[c] = from /\ cpc'[c] = to /\ \A d \in Callers \ {c} : cpc'[d] = cpc[d]
    BY <2>0 DEF CallerGoes, TypeOK
  <2>1. CASE Begin(c)
    BY <2>1, <2>0 DEF Begin, OneCall
  <2>2. CASE GraphLock(c) /\ (Enable(c) \/ Disable(c) \/ ReadFrame(c))
    BY <2>2, <2>0 DEF Enable, Disable, ReadFrame, GraphLock, GraphIsFree, OneCall
  <2>3. CASE StreamLock(c)
    BY <2>3 DEF StreamLock, calls, OneCall
  <2>4. ASSUME NEW from, NEW to, CallerGoes(c, from, to), from \notin {"idle", "wait"},
               UNCHANGED graphMutex
        PROVE  OneCall'
    BY <2>0, <2>4 DEF OneCall
  <2>5. CASE Find(c) \/ Insert(c) \/ Attach(c) \/ SetFps(c) \/ Query(c)
    BY <2>5, <2>4 DEF Find, Insert, Attach, SetFps, Query
  <2>6. CASE StartRecording(c) \/ Resume(c) \/ Pause(c) \/ SlowDown(c) \/ ReadReturns(c)
    BY <2>6, <2>4 DEF StartRecording, Resume, Pause, SlowDown, ReadReturns
  <2>7. CASE DetachRecorder(c)
    BY <2>7, <2>4 DEF DetachRecorder, Detaches
  <2>8. CASE ExitCall(c)
    BY <2>8, <2>0 DEF ExitCall, OneCall
  <2> QED
    BY <1>2, <2>1, <2>2, <2>3, <2>5, <2>6, <2>7, <2>8
    DEF CallerLocks, CallerSteps, Enable, Disable, ReadFrame
<1> QED
  BY <1>1, <1>2 DEF Next, OneCall

(***************************************************************************)
(* The two splitters                                                       *)
(***************************************************************************)
Splitters == SubgraphInUse /\ NoStaleFrames

\* While the producer is in the graph no call passes the connector, and while it has the
\* mutex of hls none reaches rec.
LEMMA SplittersStep ==
  ASSUME TypeOK, Locks, Splitters, Next
  PROVE  Splitters'
<1> USE ThreadsDifferHolds DEF ThreadsDiffer, Splitters, SubgraphInUse, NoStaleFrames, Hls!Attached,
        Rec!Attached, NoSubgraph
<1>1. CASE EnterGraph
  BY <1>1 DEF EnterGraph, ProducerGoes, hls, rec
<1>2. CASE SourceFrame \/ HlsCheck
  BY <1>2 DEF SourceFrame, HlsCheck, KeepsFrame, ProducerGoes, hls, rec
<1>3. CASE HlsPush
  BY <1>3 DEF HlsPush, ProducerGoes, rec
<1>4. CASE HlsLock
  BY <1>4 DEF HlsLock, ProducerGoes, rec
<1>5. CASE JitterHoldsBack \/ JitterReturns \/ NoMoreFrames
  BY <1>5 DEF JitterHoldsBack, JitterReturns, NoMoreFrames, ProducerGoes, hls, rec
<1>6. CASE LimiterAccepts \/ LimiterRejects
  BY <1>6 DEF LimiterAccepts, LimiterRejects, ProducerGoes, rec
<1>7. CASE RecTest \/ RecCheckAttached
  BY <1>7 DEF RecTest, RecCheckAttached, ProducerGoes, hls, rec
<1>8. CASE RecPush
  BY <1>8 DEF RecPush, ProducerGoes, hls
<1>9. CASE RecCheckDetached
  BY <1>9 DEF RecCheckDetached, HlsGoesOn, rec
<1>10. CASE RecLock
  BY <1>10 DEF RecLock, ProducerGoes, hls
<1>11. CASE Record
  BY <1>11 DEF Record, ProducerGoes, hls
<1>12. CASE RecordDone
  BY <1>12 DEF RecordDone, HlsGoesOn
<1>13. CASE LeaveGraph
  BY <1>13 DEF LeaveGraph, ProducerGoes, hls, rec
<1>14. ASSUME NEW c \in Callers, Begin(c) \/ CallerLocks(c) \/ CallerSteps(c) PROVE Splitters'
  <2>1. CASE Begin(c) \/ Enable(c) \/ Disable(c) \/ ReadFrame(c) \/ StreamLock(c) \/ Find(c)
    BY <2>1 DEF Begin, Enable, Disable, ReadFrame, StreamLock, Find, hls, rec, reader
  <2>2. CASE SetFps(c) \/ Query(c) \/ Resume(c) \/ ReadReturns(c) \/ ExitCall(c)
    BY <2>2 DEF SetFps, Query, Resume, ReadReturns, ExitCall, hls, rec, reader
  <2>3. CASE Insert(c) \/ Pause(c) \/ SlowDown(c)
    BY <2>3 DEF Insert, Pause, SlowDown, hls, rec, reader
  <2>4. CASE Attach(c)
    <3>1. ppc = "idle"
      BY <2>4 DEF Attach, StreamUnlock, Locks
    <3> QED
      BY <2>4, <3>1 DEF Attach, Hls!Attach, Hls!AttachFails, Subgraph, rec, reader
  <2>5. CASE StartRecording(c)
    <3>1. ppc \notin InHls
      BY <2>5 DEF StartRecording, ThroughHls, Hls!Free, Locks
    <3>2. \/ recSub' = Len(recordings) + 1 /\ UNCHANGED recFrames
          \/ recSub' = NoSubgraph /\ recFrames' = << >>
      BY <2>5 DEF StartRecording, Rec!Attach, OpenFails, Rec!AttachFails
    <3>3. Len(recordings) + 1 # NoSubgraph
      BY LenProperties DEF TypeOK
    <3> QED
      BY <2>5, <3>1, <3>2, <3>3 DEF StartRecording, InHls, hls, reader
  <2>6. CASE DetachRecorder(c)
    <3>1. ppc = "idle"
      BY <2>6 DEF DetachRecorder, StreamUnlock, Locks
    <3> QED
      BY <2>6, <3>1 DEF DetachRecorder, Detaches, Rec!Detach, hls, reader
  <2> QED
    BY <1>14, <2>1, <2>2, <2>3, <2>4, <2>5, <2>6 DEF CallerLocks, CallerSteps
<1> QED
  BY <1>1, <1>2, <1>3, <1>4, <1>5, <1>6, <1>7, <1>8, <1>9, <1>10, <1>11, <1>12, <1>13, <1>14
  DEF Next, ProducerSteps, ProducerLocks

LEMMA SplittersInit == Init => Locks /\ OneCall /\ Splitters
<1> SUFFICES ASSUME Init PROVE Locks /\ OneCall /\ Splitters
  OBVIOUS
<1>1. Locks /\ OneCall
  BY DEF Init, Hls!Init, Rec!Init, Locks, InHls, OneCall
<1> QED
  BY <1>1 DEF Init, Hls!Init, Rec!Init, Splitters, SubgraphInUse, NoStaleFrames

SafeInv == TypeOK /\ Locks /\ OneCall /\ Splitters

LEMMA SafeInvStutters == SafeInv /\ UNCHANGED vars => SafeInv'
<1> SUFFICES ASSUME SafeInv, UNCHANGED vars PROVE SafeInv'
  OBVIOUS
<1>1. UNCHANGED <<rdHeld, wrHolder, ppc, hlsSub, hlsFrames, hlsMutex, recSub, recFrames, recMutex,
                  cpc, graphMutex>>
  BY DEF vars, streamLock, hls, rec, reader, calls
<1>2. Locks' /\ OneCall'
  BY <1>1 DEF SafeInv, Locks, OneCall
<1>3. Splitters'
  BY <1>1 DEF SafeInv, Splitters, SubgraphInUse, NoStaleFrames, Hls!Attached, Rec!Attached
<1> QED
  BY <1>2, <1>3, TypeStutters DEF SafeInv

THEOREM SafeInvHolds == Spec => []SafeInv
<1>1. Init => SafeInv
  BY TypeInit, SplittersInit DEF SafeInv
<1>2. SafeInv /\ [Next]_vars => SafeInv'
  <2>1. SafeInv /\ Next => SafeInv'
    BY LocksStep, OneCallStep, SplittersStep, ProducerType, CallerStepType DEF SafeInv, Next
  <2> QED
    BY <2>1, SafeInvStutters
<1> QED
  BY <1>1, <1>2, PTL DEF Spec

\* No splitter calls a subgraph that was detached, for any number of callers.
THEOREM SubgraphInUseHolds == Spec => []SubgraphInUse
<1>1. SafeInv => SubgraphInUse
  BY DEF SafeInv, Splitters
<1> QED
  BY <1>1, SafeInvHolds, PTL

\* A recorder never begins with frames kept for another one.
THEOREM NoStaleFramesHolds == Spec => []NoStaleFrames
<1>1. SafeInv => NoStaleFrames
  BY DEF SafeInv, Splitters
<1> QED
  BY <1>1, SafeInvHolds, PTL

(***************************************************************************)
(* Pauses                                                                  *)
(***************************************************************************)

\* What the calls rely on between their steps: nobody else edits the graph meanwhile.
Calls ==
  /\ hlsSub # NoSubgraph \/ prepared => inserted
  /\ \A c \in Callers :
       /\ cpc[c] = "insert" => ~inserted
       /\ cpc[c] = "attach" => inserted
       /\ cpc[c] = "record" => recSub = NoSubgraph
       /\ cpc[c] = "resume" => ~prepared
       /\ cpc[c] = "pause" => hlsSub = NoSubgraph \/ recSub = NoSubgraph

PausesInv == PrerollKept /\ DisableTakesEffect /\ Calls

LEMMA Alone ==
  ASSUME TypeOK, OneCall, NEW c \in Callers, NEW from, NEW to,
         CallerGoes(c, from, to), from \notin {"idle", "wait"}
  PROVE  /\ cpc[c] = from /\ cpc'[c] = to
         /\ \A d \in Callers \ {c} : cpc'[d] \in {"idle", "wait"}
BY DEF TypeOK, OneCall, CallerGoes

LEMMA PausesStep ==
  ASSUME TypeOK, OneCall, PausesInv, Next
  PROVE  PausesInv'
<1> USE DEF PausesInv, PrerollKept, DisableTakesEffect, Calls, Hls!Attached, Rec!Attached, NoSubgraph
<1>1. ASSUME ProducerSteps \/ ProducerLocks
      PROVE  UNCHANGED <<cpc, inserted, hlsSub, recSub, paused, prepared>>
  BY <1>1 DEF ProducerSteps, ProducerLocks, EnterGraph, SourceFrame, HlsPush, HlsCheck, HlsLock,
     JitterHoldsBack, JitterReturns, LimiterAccepts, LimiterRejects, NoMoreFrames, RecTest,
     RecPush, RecCheckDetached, RecCheckAttached, RecLock, Record, RecordDone, LeaveGraph, calls,
     hls, rec, jitbuf, history
<1>2. ASSUME NEW c \in Callers, Begin(c) \/ CallerLocks(c) \/ CallerSteps(c) PROVE PausesInv'
  <2>0. ASSUME NEW from, NEW to, CallerGoes(c, from, to)
        PROVE  cpc'[c] = to /\ \A d \in Callers \ {c} : cpc'[d] = cpc[d]
    BY <2>0 DEF CallerGoes, TypeOK
  <2>1. CASE Begin(c)
    BY <2>1, <2>0 DEF Begin, hls, rec, jitbuf, history
  <2>2. CASE Enable(c)
    BY <2>2, <2>0 DEF Enable, hls, rec, jitbuf, history
  <2>3. CASE Disable(c)
    BY <2>3, <2>0 DEF Disable, hls, rec, jitbuf, history
  <2>4. CASE ReadFrame(c)
    BY <2>4, <2>0 DEF ReadFrame, hls, rec, jitbuf, history
  <2>5. CASE StreamLock(c)
    BY <2>5 DEF StreamLock, calls, hls, rec, jitbuf, history
  <2>6. CASE Find(c)
    BY <2>6, Alone DEF Find, hls, rec, jitbuf, history
  <2>7. CASE SetFps(c)
    BY <2>7, Alone DEF SetFps, hls, rec, jitbuf, history
  <2>8. CASE Query(c)
    BY <2>8, Alone DEF Query, NeedsRecorder, hls, rec, jitbuf, history
  <2>9. CASE Insert(c)
    BY <2>9, Alone DEF Insert, hls, rec, history
  <2>10. CASE Attach(c)
    BY <2>10, Alone DEF Attach, Hls!Attach, Hls!AttachFails, rec, jitbuf
  <2>11. CASE StartRecording(c)
    BY <2>11, Alone DEF StartRecording, hls, jitbuf
  <2>12. CASE Resume(c)
    BY <2>12, Alone DEF Resume, hls, rec, history
  <2>13. CASE DetachRecorder(c)
    BY <2>13, Alone DEF DetachRecorder, Detaches, Rec!Detach, hls, jitbuf
  <2>14. CASE Pause(c)
    BY <2>14, Alone DEF Pause, hls, rec
  <2>15. CASE SlowDown(c)
    BY <2>15, Alone DEF SlowDown, hls, rec, jitbuf, history
  <2>16. CASE ReadReturns(c)
    BY <2>16, Alone DEF ReadReturns, hls, rec, jitbuf, history
  <2>17. CASE ExitCall(c)
    BY <2>17, Alone DEF ExitCall, hls, rec, jitbuf, history
  <2> QED
    BY <1>2, <2>1, <2>2, <2>3, <2>4, <2>5, <2>6, <2>7, <2>8, <2>9, <2>10, <2>11, <2>12, <2>13,
       <2>14, <2>15, <2>16, <2>17 DEF CallerLocks, CallerSteps
<1> QED
  BY <1>1, <1>2 DEF Next

THEOREM PausesInvHolds == Spec => []PausesInv
<1>1. Init => PausesInv
  BY DEF Init, Hls!Init, PausesInv, PrerollKept, DisableTakesEffect, Calls
<1>2. SafeInv /\ PausesInv /\ [Next]_vars => PausesInv'
  <2>1. PausesInv /\ UNCHANGED vars => PausesInv'
    BY DEF vars, calls, hls, rec, jitbuf, history, PausesInv, PrerollKept, DisableTakesEffect,
           Calls, Hls!Attached, Rec!Attached
  <2> QED
    BY <2>1, PausesStep DEF SafeInv
<1> QED
  BY <1>1, <1>2, SafeInvHolds, PTL DEF Spec

\* A prepared or disabled stream stays paused until a recorder is attached.
THEOREM PrerollKeptHolds == Spec => []PrerollKept
<1>1. PausesInv => PrerollKept
  BY DEF PausesInv
<1> QED
  BY <1>1, PausesInvHolds, PTL

\* What disable_live_stream detached and paused stays so until it returns.
THEOREM DisableTakesEffectHolds == Spec => []DisableTakesEffect
<1>1. PausesInv => DisableTakesEffect
  BY DEF PausesInv
<1> QED
  BY <1>1, PausesInvHolds, PTL

(***************************************************************************)
(* What a recording gets                                                   *)
(***************************************************************************)
LEMMA HeadThenTail ==
  ASSUME NEW S, NEW q \in Seq(S), q # << >>
  PROVE  q = <<Head(q)>> \o Tail(q)
<1>1. Len(q) \in Nat \ {0}
  BY EmptySeq
<1>2. SubSeq(q, 1, Len(q)) = <<q[1]>> \o SubSeq(q, 2, Len(q))
  BY <1>1, SubSeqRecursiveFirst
<1>3. SubSeq(q, 1, Len(q)) = q /\ Tail(q) = SubSeq(q, 2, Len(q))
  BY SubSeqFull, TailIsSubSeq
<1>4. Head(q) = q[1]
  BY <1>1, <1>3, HeadTailOfSubSeq
<1> QED
  BY <1>2, <1>3, <1>4

LEMMA SingletonType ==
  ASSUME NEW S, NEW e \in S
  PROVE  <<e>> \in Seq(S)
OBVIOUS

LEMMA Associative ==
  \A a, b, c \in Seq(Nat) : (a \o b) \o c = a \o (b \o c)
BY ConcatAssociative, SMTT(30)

\* The recorder takes the head of what rec kept.
LEMMA MoveHead ==
  ASSUME NEW r \in Seq(Nat), NEW q \in Seq(Nat), q # << >>
  PROVE  Append(r, Head(q)) \o Tail(q) = r \o q
<1>1. Head(q) \in Nat /\ Tail(q) \in Seq(Nat) /\ <<Head(q)>> \in Seq(Nat)
  BY HeadTailType, SingletonType
<1>2. Append(r, Head(q)) = r \o <<Head(q)>>
  BY <1>1, AppendIsConcat
<1>3. (r \o <<Head(q)>>) \o Tail(q) = r \o (<<Head(q)>> \o Tail(q))
  BY <1>1, Associative
<1> QED
  BY <1>2, <1>3, HeadThenTail

\* rec keeps a frame.
LEMMA KeepLast ==
  ASSUME NEW r \in Seq(Nat), NEW q \in Seq(Nat), NEW f \in Nat
  PROVE  r \o Append(q, f) = (r \o q) \o <<f>>
<1>1. <<f>> \in Seq(Nat)
  BY SingletonType
<1> QED
  BY <1>1, AppendIsConcat, Associative, SMTT(30)

LEMMA RecordingType ==
  ASSUME TypeOK, recSub # NoSubgraph
  PROVE  /\ recSub \in 1 .. Len(recordings) /\ recordings[recSub] \in Seq(Nat)
         /\ recordings[recSub] \o recFrames \in Seq(Nat)
         /\ (recordings[recSub] \o recFrames) \o << >> = recordings[recSub] \o recFrames
<1>1. recSub \in 1 .. Len(recordings)
  BY LenProperties DEF TypeOK, NoSubgraph
<1>2. recordings[recSub] \in Seq(Nat) /\ recFrames \in Seq(Nat)
  BY <1>1, ElementOfSeq DEF TypeOK
<1>3. recordings[recSub] \o recFrames \in Seq(Nat)
  BY <1>2, ConcatProperties
<1> QED
  BY <1>1, <1>2, <1>3, ConcatEmptySeq

LEMMA RecordedStep ==
  ASSUME SafeInv, PausesInv, EveryFrameRecorded, Next
  PROVE  EveryFrameRecorded'
<1> USE DEF EveryFrameRecorded, Rec!Attached
<1>1. ASSUME UNCHANGED <<recSub, recFrames, recordings, given, OnItsWay>>
      PROVE  EveryFrameRecorded'
  BY <1>1
<1>2. CASE \/ EnterGraph \/ SourceFrame \/ HlsPush \/ HlsCheck \/ HlsLock \/ JitterHoldsBack
           \/ LimiterAccepts \/ LimiterRejects \/ NoMoreFrames \/ LeaveGraph
  <2>1. UNCHANGED <<recSub, recFrames, recordings, given>>
    BY <1>2 DEF EnterGraph, SourceFrame, HlsPush, HlsCheck, HlsLock, JitterHoldsBack,
       LimiterAccepts, LimiterRejects, NoMoreFrames, LeaveGraph, rec, records, history
  <2>2. UNCHANGED OnItsWay
    BY <1>2 DEF EnterGraph, SourceFrame, HlsPush, HlsCheck, HlsLock, JitterHoldsBack,
       LimiterAccepts, LimiterRejects, NoMoreFrames, LeaveGraph, ProducerGoes, OnItsWay
  <2> QED
    BY <1>1, <2>1, <2>2
<1>3. CASE JitterReturns
  <2>1. OnItsWay = << >> /\ OnItsWay' = <<Head(queue)>>
    BY <1>3 DEF JitterReturns, ProducerGoes, OnItsWay
  <2>2. UNCHANGED <<recSub, recFrames, recordings>>
    BY <1>3 DEF JitterReturns, rec
  <2>3. ASSUME recSub # NoSubgraph
        PROVE  given' = (recordings[recSub] \o recFrames) \o <<Head(queue)>>
    <3>1. given = recordings[recSub] \o recFrames /\ given \in Seq(Nat)
      BY <2>1, <2>3, RecordingType DEF SafeInv
    <3>2. given' = Append(given, Head(queue)) /\ Head(queue) \in Nat
      BY <1>3, <2>3, HeadTailType DEF JitterReturns, Due, SafeInv, TypeOK
    <3> QED
      BY <3>1, <3>2, AppendIsConcat
  <2> QED
    BY <2>1, <2>2, <2>3
<1>4. CASE RecTest
  <2>1. UNCHANGED <<recSub, recFrames, recordings, given, served>>
    BY <1>4 DEF RecTest, rec, records, history
  <2>2. recSub # NoSubgraph => UNCHANGED OnItsWay
    BY <1>4, <2>1 DEF RecTest, ProducerGoes, OnItsWay
  <2> QED
    BY <2>1, <2>2
<1>5. CASE RecPush
  <2>1. OnItsWay = <<served>> /\ OnItsWay' = << >> /\ served \in Nat
    BY <1>5 DEF RecPush, ProducerGoes, OnItsWay, SafeInv, TypeOK
  <2>2. UNCHANGED <<recSub, recordings, given>> /\ recFrames' = Append(recFrames, served)
    BY <1>5 DEF RecPush, Rec!Push, records, history
  <2>3. ASSUME recSub # NoSubgraph
        PROVE  given = (recordings[recSub] \o recFrames') \o << >>
    <3>1. recordings[recSub] \in Seq(Nat) /\ recFrames \in Seq(Nat)
      BY <2>3, RecordingType DEF SafeInv, TypeOK
    <3>2. recFrames' \in Seq(Nat) /\ recordings[recSub] \o recFrames' \in Seq(Nat)
      BY <2>1, <2>2, <3>1, AppendType, ConcatProperties
    <3>3. given = recordings[recSub] \o recFrames'
      BY <2>1, <2>2, <2>3, <3>1, KeepLast
    <3> QED
      BY <3>2, <3>3, ConcatEmptySeq
  <2> QED
    BY <2>1, <2>2, <2>3
<1>6. CASE RecCheckDetached \/ RecCheckAttached \/ RecLock \/ RecordDone
  <2>1. UNCHANGED <<recSub, recFrames, recordings, given>>
    BY <1>6 DEF RecCheckDetached, RecCheckAttached, RecLock, RecordDone, rec, records, history
  <2>2. UNCHANGED OnItsWay
    BY <1>6 DEF RecCheckDetached, RecCheckAttached, RecLock, RecordDone, HlsGoesOn, ProducerGoes, OnItsWay
  <2> QED
    BY <1>1, <2>1, <2>2
<1>7. CASE Record
  <2>1. OnItsWay = << >> /\ OnItsWay' = << >> /\ UNCHANGED <<recSub, given>> /\ recSub # NoSubgraph
    BY <1>7 DEF Record, ProducerGoes, OnItsWay
  <2>2. /\ recordings' = [recordings EXCEPT ![recSub] = Append(recordings[recSub], Head(recFrames))]
        /\ recFrames # << >> /\ recFrames' = Tail(recFrames)
    BY <1>7 DEF Record, Rec!Pop
  <2>3. recSub \in 1 .. Len(recordings) /\ recordings[recSub] \in Seq(Nat) /\ recFrames \in Seq(Nat)
    BY <2>1, RecordingType DEF SafeInv, TypeOK
  <2>4. recordings'[recSub] = Append(recordings[recSub], Head(recFrames))
    BY <2>2, <2>3, LenProperties DEF SafeInv, TypeOK
  <2>5. recordings'[recSub] \o recFrames' = recordings[recSub] \o recFrames
    BY <2>2, <2>3, <2>4, MoveHead
  <2> QED
    BY <2>1, <2>5
<1>8. ASSUME NEW c \in Callers, Begin(c) \/ CallerLocks(c) \/ CallerSteps(c)
      PROVE  EveryFrameRecorded'
  <2>1. CASE StartRecording(c)
    <3>0. cpc[c] = "record" /\ hlsMutex = NoThread
      BY <2>1 DEF StartRecording, CallerGoes, ThroughHls, Hls!Free
    <3>1a. recSub = NoSubgraph
      BY <3>0 DEF PausesInv, Calls
    <3>1b. ppc \notin InHls
      BY <3>0, ThreadsDifferHolds DEF SafeInv, Locks, ThreadsDiffer
    <3>1. recSub = NoSubgraph /\ ppc \notin InHls
      BY <3>1a, <3>1b
    <3>2. OnItsWay' = << >>
      BY <2>1, <3>1 DEF StartRecording, reader, OnItsWay, InHls
    <3>3. CASE Rec!Attach(Len(recordings) + 1) /\ recordings' = Append(recordings, << >>) /\ given' = << >>
      <4>1. recFrames' = << >> /\ recSub' = Len(recordings) + 1
        BY <3>1, <3>3 DEF Rec!Attach, SafeInv, Splitters, NoStaleFrames
      <4>2. recordings'[recSub'] = << >>
        BY <3>3, <4>1, AppendProperties, EmptySeq DEF SafeInv, TypeOK
      <4>3. (<< >> \o << >>) \o << >> = << >>
        BY ConcatEmptySeq, EmptySeq
      <4> QED
        BY <3>2, <3>3, <4>1, <4>2, <4>3
    <3>4. CASE OpenFails
      BY <3>4 DEF OpenFails, Rec!AttachFails
    <3> QED
      BY <2>1, <3>3, <3>4 DEF StartRecording
  <2>2. CASE DetachRecorder(c)
    <3>1. UNCHANGED <<recordings, OnItsWay>>
      BY <2>2 DEF DetachRecorder, Detaches, reader, OnItsWay
    <3>2. recSub' = NoSubgraph \/ UNCHANGED <<recSub, recFrames, given>>
      BY <2>2 DEF DetachRecorder, Detaches, Rec!Detach
    <3> QED
      BY <1>1, <3>1, <3>2
  <2>3. CASE Begin(c) \/ Enable(c) \/ Disable(c) \/ ReadFrame(c) \/ StreamLock(c) \/ Find(c)
    BY <1>1, <2>3 DEF Begin, Enable, Disable, ReadFrame, StreamLock, Find, rec, reader, records,
                      history, OnItsWay
  <2>4. CASE SetFps(c) \/ Query(c) \/ Resume(c) \/ ReadReturns(c) \/ ExitCall(c)
    BY <1>1, <2>4 DEF SetFps, Query, Resume, ReadReturns, ExitCall, rec, reader, records, history, OnItsWay
  <2>5. CASE Insert(c) \/ Attach(c) \/ Pause(c) \/ SlowDown(c)
    BY <1>1, <2>5 DEF Insert, Attach, Pause, SlowDown, rec, reader, records, history, OnItsWay
  <2> QED
    BY <1>8, <2>1, <2>2, <2>3, <2>4, <2>5 DEF CallerLocks, CallerSteps
<1> QED
  BY <1>2, <1>3, <1>4, <1>5, <1>6, <1>7, <1>8 DEF Next, ProducerSteps, ProducerLocks

\* Every frame that leaves the jitter buffer while a recorder is attached is recorded, once
\* and in order, although the recorder is attached past streamLock.
THEOREM EveryFrameRecordedHolds == Spec => []EveryFrameRecorded
<1>1. Init => EveryFrameRecorded
  BY DEF Init, Rec!Init, EveryFrameRecorded, Rec!Attached
<1>2. SafeInv /\ PausesInv /\ EveryFrameRecorded /\ [Next]_vars => EveryFrameRecorded'
  <2>1. EveryFrameRecorded /\ UNCHANGED vars => EveryFrameRecorded'
    BY DEF vars, rec, reader, records, history, EveryFrameRecorded, OnItsWay, Rec!Attached
  <2> QED
    BY <2>1, RecordedStep
<1> QED
  BY <1>1, <1>2, SafeInvHolds, PausesInvHolds, PTL DEF Spec

\* The jitter buffer is paused exactly while it should be for the recorder.
THEOREM PauseFollowsRecorderHolds == Spec => []PauseFollowsRecorder
BY PrerollKeptHolds, DisableTakesEffectHolds, PTL DEF PauseFollowsRecorder

(***************************************************************************)
(* Recordings without a gap                                                *)
(***************************************************************************)

\* Each item of s has the next one in relation R.
Chain(s, R) == \A i \in 1 .. Len(s) - 1 : <<s[i], s[i + 1]>> \in R

Less == {p \in Nat \X Nat : p[1] < p[2]}

\* What may follow what in the recording with number r.
Successors(r) == {p \in Less : p[2] > since[r] => p[1] + 1 .. p[2] - 1 \subseteq rejected}

\* hls has its subgraph from before the first recording to the end.
Opened ==
  /\ recSub # NoSubgraph => hlsSub # NoSubgraph
  /\ hlsSub = NoSubgraph => queue = << >>
  /\ \A c \in Callers : /\ cpc[c] \in {"query", "record"} => hlsSub # NoSubgraph
                        /\ cpc[c] \in {"insert", "attach"} => hlsSub = NoSubgraph

\* The history and the queue increase.  The newest frame is never returned, so the queue does
\* not become empty again.
InOrder ==
  /\ queue = << >> => past = << >>
  /\ \A i \in 1 .. Len(past) : past[i] <= src
  /\ \A i \in 1 .. Len(queue) : queue[i] <= src
  /\ Chain(past, Less) /\ Chain(queue, Less)
  /\ past # << >> => past[Len(past)] < Head(queue)

\* The frames hls keeps are newer than the queue, and behind one of them none is missing that
\* the limiter did not reject.
Kept(f) ==
  /\ f <= src
  /\ queue # << >> => Newest < f
HandIsNew == hand # Excess => ppc = "push" /\ Kept(hand)
FramesAreNew ==
  \A i \in 1 .. Len(hlsFrames) : hlsFrames[i] # Excess =>
    /\ Kept(hlsFrames[i])
    /\ hand # Excess => hlsFrames[i] < hand
    /\ \A j \in i + 1 .. Len(hlsFrames) : hlsFrames[j] # Excess => hlsFrames[i] < hlsFrames[j]
Accounted(n) == n \in rejected \/ n = hand \/ \E i \in 1 .. Len(hlsFrames) : hlsFrames[i] = n
Present(m) ==
  \/ queue # << >> /\ m = Newest
  \/ m # Excess /\ (m = hand \/ \E i \in 1 .. Len(hlsFrames) : hlsFrames[i] = m)
NoneMissing == \A m, n \in Nat : Present(m) /\ m < n /\ n <= src => Accounted(n)
Coming == HandIsNew /\ FramesAreNew /\ NoneMissing

\* The queue goes on where the recording is.  Before the jitter buffer is resumed nothing was
\* given, and the history it puts back is older than the recording.
Going ==
  recSub # NoSubgraph =>
    /\ Chain(queue, Successors(recSub)) /\ Chain(given, Successors(recSub))
    /\ given # << >> => queue # << >> /\ <<given[Len(given)], Head(queue)>> \in Successors(recSub)
    /\ paused => given = << >> /\ \A i \in 1 .. Len(past) : past[i] <= since[recSub]
    /\ paused /\ past # << >> => Head(queue) <= since[recSub]

Contiguous == \A r \in 1 .. Len(recordings) : Chain(recordings[r], Successors(r))

FlowInv == Opened /\ InOrder /\ Coming /\ Going /\ Contiguous

\* The steps of the producer that only change where it is, and which frame it has.
Moves ==
  \/ EnterGraph \/ HlsCheck \/ HlsLock \/ NoMoreFrames \/ RecTest \/ RecCheckDetached
  \/ RecCheckAttached \/ RecLock \/ RecordDone \/ LeaveGraph

LEMMA MovesChange ==
  ASSUME TypeOK, Moves
  PROVE  /\ UNCHANGED <<hlsSub, hlsFrames, recSub, recFrames, paused, queue, past, src, hand, cpc,
                        recordings, since, given, rejected>>
         /\ ppc # "push"
BY DEF Moves, EnterGraph, HlsCheck, HlsLock, NoMoreFrames, RecTest, RecCheckDetached,
   RecCheckAttached, RecLock, RecordDone, LeaveGraph, HlsGoesOn, ProducerGoes, hls, rec, jitbuf,
   calls, records, history

\* The steps of the callers that leave the frames and the recordings alone.
Calling(c) ==
  \/ Begin(c) \/ Enable(c) \/ Disable(c) \/ ReadFrame(c) \/ StreamLock(c) \/ Find(c) \/ SetFps(c)
  \/ Query(c) \/ ReadReturns(c) \/ SlowDown(c) \/ ExitCall(c)

LEMMA CallingChange ==
  ASSUME TypeOK, NEW c \in Callers, Calling(c)
  PROVE  UNCHANGED <<hlsSub, hlsFrames, recSub, recFrames, paused, queue, past, src, hand, ppc,
                     recordings, since, given, rejected>>
BY DEF Calling, Begin, Enable, Disable, ReadFrame, StreamLock, Find, SetFps, Query, ReadReturns,
   SlowDown, ExitCall, hls, rec, jitbuf, reader, records, history

\* What the other steps of the callers change.
LEMMA EditsChange ==
  ASSUME TypeOK, NEW c \in Callers,
         Insert(c) \/ Attach(c) \/ StartRecording(c) \/ DetachRecorder(c) \/ Resume(c) \/ Pause(c)
  PROVE  UNCHANGED <<queue, past, src, hand, ppc, rejected>>
BY DEF Insert, Attach, StartRecording, DetachRecorder, Detaches, Resume, Pause, hls, rec, jitbuf,
   reader, records, history

LEMMA FlowCases ==
  ASSUME TypeOK, Next
  PROVE  \/ Moves \/ SourceFrame \/ HlsPush \/ JitterHoldsBack \/ JitterReturns
         \/ LimiterAccepts \/ LimiterRejects \/ RecPush \/ Record
         \/ \E c \in Callers : \/ Calling(c) \/ Insert(c) \/ Attach(c) \/ StartRecording(c)
                               \/ DetachRecorder(c) \/ Resume(c) \/ Pause(c)
BY DEF Next, ProducerSteps, ProducerLocks, CallerSteps, CallerLocks, Moves, Calling

LEMMA OpenedStep ==
  ASSUME SafeInv, PausesInv, Opened, Next
  PROVE  Opened'
<1> USE DEF Opened, NoSubgraph, Subgraph
<1>0. TypeOK /\ OneCall
  BY DEF SafeInv
<1>1. CASE Moves \/ SourceFrame \/ HlsPush \/ LimiterRejects \/ RecPush \/ Record
  <2>1. UNCHANGED <<hlsSub, recSub, cpc, queue>>
    BY <1>0, <1>1, MovesChange DEF SourceFrame, HlsPush, LimiterRejects, RecPush, Record, hls, rec,
       jitbuf, calls
  <2> QED
    BY <2>1
<1>2. CASE JitterHoldsBack \/ JitterReturns \/ LimiterAccepts
  <2>1. UNCHANGED <<hlsSub, recSub, cpc>>
    BY <1>2 DEF JitterHoldsBack, JitterReturns, LimiterAccepts, hls, rec, calls
  <2>2. ppc \in InHls
    BY <1>2 DEF JitterHoldsBack, JitterReturns, LimiterAccepts, ProducerGoes, InHls
  <2>3. hlsSub # NoSubgraph
    BY <2>2 DEF SafeInv, Splitters, SubgraphInUse, Hls!Attached, InHls
  <2> QED
    BY <2>1, <2>3
<1>3. ASSUME NEW c \in Callers, \/ Calling(c) \/ Insert(c) \/ Attach(c) \/ StartRecording(c)
                                \/ DetachRecorder(c) \/ Resume(c) \/ Pause(c)
      PROVE  Opened'
  <2>0. ASSUME NEW from, NEW to, CallerGoes(c, from, to)
        PROVE  cpc[c] = from /\ cpc'[c] = to /\ \A d \in Callers \ {c} : cpc'[d] = cpc[d]
    BY <1>0, <2>0 DEF CallerGoes, TypeOK
  <2>1. UNCHANGED queue
    BY <1>0, <1>3, CallingChange, EditsChange
  <2>2. CASE Begin(c) \/ Enable(c) \/ Disable(c) \/ ReadFrame(c)
    BY <2>1, <2>2, <2>0 DEF Begin, Enable, Disable, ReadFrame, hls, rec
  <2>3. CASE StreamLock(c)
    BY <2>1, <2>3 DEF StreamLock, hls, rec, calls
  <2>4. CASE Find(c) \/ SetFps(c) \/ Query(c) \/ Insert(c)
    BY <2>1, <2>4, <2>0 DEF Find, SetFps, Query, Insert, hls, rec, PausesInv, Calls, Hls!Attached
  <2>5. CASE ReadReturns(c) \/ SlowDown(c) \/ ExitCall(c) \/ Resume(c) \/ Pause(c)
    BY <2>1, <2>5, <2>0 DEF ReadReturns, SlowDown, ExitCall, Resume, Pause, hls, rec
  <2>6. CASE Attach(c)
    <3>1. recSub = NoSubgraph /\ UNCHANGED recSub /\ queue = << >>
      BY <2>6, <2>0 DEF Attach, rec
    <3>2. \A d \in Callers \ {c} : cpc'[d] \in {"idle", "wait"}
      BY <1>0, <2>6, Alone DEF Attach
    <3>3. CASE CallerGoes(c, "attach", "query") /\ Hls!Attach(Subgraph)
      BY <2>1, <2>0, <3>1, <3>2, <3>3 DEF Hls!Attach
    <3>4. CASE CallerGoes(c, "attach", "exit") /\ Hls!AttachFails
      BY <2>1, <2>0, <3>1, <3>2, <3>4 DEF Hls!AttachFails
    <3> QED
      BY <2>6, <3>3, <3>4 DEF Attach
  <2>7. CASE StartRecording(c)
    BY <2>1, <2>7, <2>0 DEF StartRecording, hls
  <2>8. CASE DetachRecorder(c)
    BY <2>1, <2>8, <2>0 DEF DetachRecorder, Detaches, Rec!Detach, hls
  <2> QED
    BY <1>3, <2>2, <2>3, <2>4, <2>5, <2>6, <2>7, <2>8 DEF Calling
<1> QED
  BY <1>0, <1>1, <1>2, <1>3, FlowCases

(***************************************************************************)
(* The queue of the jitter buffer                                          *)
(***************************************************************************)
LEMMA DropItems ==
  ASSUME NEW q \in Seq(Nat), NEW k \in 0 .. Len(q)
  PROVE  /\ Drop(q, k) \in Seq(Nat) /\ Len(Drop(q, k)) = Len(q) - k
         /\ \A i \in 1 .. Len(q) - k : Drop(q, k)[i] = q[k + i]
<1>1. Len(q) \in Nat /\ \A i \in k + 1 .. Len(q) : q[i] \in Nat
  BY LenProperties, ElementOfSeq
<1>2. k + 1 \in Int /\ Len(q) \in Int
  BY <1>1
<1>3. /\ SubSeq(q, k + 1, Len(q)) \in Seq(Nat)
      /\ Len(SubSeq(q, k + 1, Len(q))) = IF k + 1 <= Len(q) THEN Len(q) - (k + 1) + 1 ELSE 0
      /\ \A i \in 1 .. Len(q) - (k + 1) + 1 : SubSeq(q, k + 1, Len(q))[i] = q[(k + 1) + i - 1]
  BY <1>1, <1>2, SubSeqProperties
<1> QED
  BY <1>1, <1>3 DEF Drop

\* The history in front of the queue.
LEMMA RestoredItems ==
  ASSUME TypeOK
  PROVE  /\ Restored \in Seq(Nat) /\ Len(Restored) = Len(past) + Len(queue)
         /\ \A i \in 1 .. Len(past) : Restored[i] = past[i]
         /\ \A i \in 1 .. Len(queue) : Restored[Len(past) + i] = queue[i]
         /\ Len(past) \in Nat /\ Len(queue) \in Nat
<1>1. past \in Seq(Nat) /\ queue \in Seq(Nat) /\ Len(past) \in Nat /\ Len(queue) \in Nat
  BY LenProperties DEF TypeOK
<1>2. /\ past \o queue \in Seq(Nat)
      /\ Len(past \o queue) = Len(past) + Len(queue)
      /\ \A i \in 1 .. Len(past) + Len(queue) :
           (past \o queue)[i] = IF i <= Len(past) THEN past[i] ELSE queue[i - Len(past)]
  BY <1>1, ConcatProperties
<1> QED
  BY <1>1, <1>2 DEF Restored

\* What is left of it, and that its last frame stays.
LEMMA ReducedItems ==
  ASSUME TypeOK, queue # << >>, NEW k \in Reductions(Restored)
  PROVE  /\ k \in Nat /\ k < Len(Restored)
         /\ Drop(Restored, k) \in Seq(Nat) /\ Drop(Restored, k) # << >>
         /\ Len(Drop(Restored, k)) = Len(Restored) - k
         /\ \A i \in 1 .. Len(Restored) - k : Drop(Restored, k)[i] = Restored[k + i]
         /\ Restored[Len(Restored)] = Newest
         /\ Drop(Restored, k)[Len(Drop(Restored, k))] = Newest
<1>1. Len(queue) \in Nat \ {0} /\ Newest \in Nat
  BY EmptySeq, ElementOfSeq DEF TypeOK, Newest
<1>2. Restored[Len(Restored)] = Newest /\ Len(Restored) \in Nat \ {0}
  <2>1. Len(queue) \in 1 .. Len(queue)
    BY <1>1
  <2>2. Restored[Len(past) + Len(queue)] = queue[Len(queue)]
    BY <2>1, RestoredItems
  <2>3. Len(Restored) = Len(past) + Len(queue) /\ Len(past) \in Nat
    BY RestoredItems
  <2> QED
    BY <1>1, <2>2, <2>3 DEF Newest
<1>3. /\ k \in 0 .. Len(Restored)
      /\ \A i \in 1 .. k : Newest - Restored[i] > PausedTime
  BY DEF Reductions
<1>4. k # Len(Restored)
  BY <1>1, <1>2, <1>3, TimesAssumption
<1>5. /\ Drop(Restored, k) \in Seq(Nat) /\ Len(Drop(Restored, k)) = Len(Restored) - k
      /\ \A i \in 1 .. Len(Restored) - k : Drop(Restored, k)[i] = Restored[k + i]
  BY <1>2, <1>3, RestoredItems, DropItems
<1>6. Drop(Restored, k) # << >>
  <2>1. Len(Drop(Restored, k)) # 0
    BY <1>2, <1>3, <1>4, <1>5
  <2> QED
    BY <2>1
<1>7. Drop(Restored, k)[Len(Drop(Restored, k))] = Restored[Len(Restored)]
  <2>1. Len(Restored) - k \in 1 .. Len(Restored) - k /\ k + (Len(Restored) - k) = Len(Restored)
    <3>1. k \in Nat /\ Len(Restored) \in Nat /\ k < Len(Restored)
      BY <1>2, <1>3, <1>4
    <3> QED
      BY <3>1
  <2>2. Drop(Restored, k)[Len(Restored) - k] = Restored[k + (Len(Restored) - k)]
    BY <1>5, <2>1
  <2> QED
    BY <1>5, <2>1, <2>2
<1> QED
  BY <1>2, <1>3, <1>4, <1>5, <1>6, <1>7

\* A frame that is due is not the newest, and the queue goes on behind it.
LEMMA DueItems ==
  ASSUME TypeOK, Due
  PROVE  /\ Len(queue) \in Nat /\ Len(queue) > 1 /\ Head(queue) = queue[1] /\ queue[1] \in Nat
         /\ Tail(queue) \in Seq(Nat) /\ Tail(queue) # << >> /\ Len(Tail(queue)) = Len(queue) - 1
         /\ \A i \in 1 .. Len(queue) - 1 : Tail(queue)[i] = queue[i + 1]
         /\ Head(Tail(queue)) = queue[2]
         /\ Tail(queue)[Len(Tail(queue))] = Newest
<1>1. queue \in Seq(Nat) /\ queue # << >> /\ Len(queue) \in Nat \ {0}
  BY EmptySeq DEF TypeOK, Due
<1>2. Newest \in Nat /\ queue[1] \in Nat
  BY <1>1, ElementOfSeq DEF Newest
<1>3. Head(queue) = queue[1]
  BY <1>1
<1>4. Len(queue) > 1
  BY <1>1, <1>2, <1>3, TimesAssumption DEF Due, Newest
<1>5. /\ Tail(queue) \in Seq(Nat) /\ Len(Tail(queue)) = Len(queue) - 1
      /\ \A i \in 1 .. Len(Tail(queue)) : Tail(queue)[i] = queue[i + 1]
  BY <1>1, HeadTailProperties
<1>6. Tail(queue) # << >>
  BY <1>1, <1>4, <1>5, EmptySeq, SMTT(30)
<1>7. Head(Tail(queue)) = Tail(queue)[1] /\ Tail(queue)[1] = queue[2]
  BY <1>1, <1>4, <1>5, <1>6
<1>8. Tail(queue)[Len(Tail(queue))] = Newest
  BY <1>1, <1>4, <1>5 DEF Newest
<1> QED
  BY <1>1, <1>2, <1>3, <1>4, <1>5, <1>6, <1>7, <1>8


(***************************************************************************)
(* Chains                                                                  *)
(***************************************************************************)
LEMMA ChainStart == \A R : Chain(<< >>, R)
BY DEF Chain

LEMMA ChainAppend ==
  ASSUME NEW s \in Seq(Nat), NEW f \in Nat, NEW R, Chain(s, R),
         s # << >> => <<s[Len(s)], f>> \in R
  PROVE  Chain(Append(s, f), R)
<1>1. Len(s) \in Nat /\ (Len(s) # 0 => s # << >>)
  BY LenProperties
<1>2. /\ Len(Append(s, f)) = Len(s) + 1 /\ Append(s, f)[Len(s) + 1] = f
      /\ \A i \in 1 .. Len(s) : Append(s, f)[i] = s[i]
  BY AppendProperties
<1>3. ASSUME NEW i \in 1 .. Len(s) - 1 PROVE <<Append(s, f)[i], Append(s, f)[i + 1]>> \in R
  <2>1. i \in 1 .. Len(s) /\ i + 1 \in 1 .. Len(s)
    BY <1>1
  <2> QED
    BY <1>2, <2>1 DEF Chain
<1>4. ASSUME NEW i \in {Len(s)}, Len(s) # 0 PROVE <<Append(s, f)[i], Append(s, f)[i + 1]>> \in R
  <2>1. i \in 1 .. Len(s)
    BY <1>1, <1>4
  <2> QED
    BY <1>1, <1>2, <1>4, <2>1
<1>5. \A i \in 1 .. (Len(s) + 1) - 1 : i \in 1 .. Len(s) - 1 \/ (i = Len(s) /\ Len(s) # 0)
  BY <1>1
<1> QED
  BY <1>2, <1>3, <1>4, <1>5 DEF Chain

LEMMA ChainDrop ==
  ASSUME NEW s \in Seq(Nat), NEW k \in 0 .. Len(s), NEW R, Chain(s, R)
  PROVE  Chain(Drop(s, k), R)
<1>1. Len(s) \in Nat
  BY LenProperties
<1>2. Len(Drop(s, k)) = Len(s) - k /\ \A i \in 1 .. Len(s) - k : Drop(s, k)[i] = s[k + i]
  BY DropItems
<1> SUFFICES ASSUME NEW i \in 1 .. (Len(s) - k) - 1
             PROVE  <<Drop(s, k)[i], Drop(s, k)[i + 1]>> \in R
  BY <1>2 DEF Chain
<1>3. /\ i \in 1 .. Len(s) - k /\ i + 1 \in 1 .. Len(s) - k /\ k + i \in 1 .. Len(s) - 1
      /\ k + (i + 1) = (k + i) + 1
  BY <1>1
<1> QED
  BY <1>2, <1>3 DEF Chain

LEMMA ChainTail ==
  ASSUME NEW s \in Seq(Nat), s # << >>, NEW R, Chain(s, R)
  PROVE  Chain(Tail(s), R)
<1>1. Len(s) \in Nat \ {0} /\ Len(Tail(s)) = Len(s) - 1 /\ \A i \in 1 .. Len(s) - 1 : Tail(s)[i] = s[i + 1]
  BY EmptySeq, HeadTailProperties
<1> SUFFICES ASSUME NEW i \in 1 .. (Len(s) - 1) - 1 PROVE <<Tail(s)[i], Tail(s)[i + 1]>> \in R
  BY <1>1 DEF Chain
<1>2. i \in 1 .. Len(s) - 1 /\ i + 1 \in 1 .. Len(s) - 1
  BY <1>1
<1> QED
  BY <1>1, <1>2 DEF Chain

LEMMA PlaceOfTwo ==
  ASSUME NEW m \in Nat, NEW n \in Nat, n # 0, NEW i \in 1 .. (m + n) - 1
  PROVE  /\ i \in 1 .. m + n /\ i + 1 \in 1 .. m + n
         /\ i < m => i \in 1 .. m - 1 /\ i <= m /\ i + 1 <= m
         /\ i = m => i <= m /\ ~(i + 1 <= m) /\ (i + 1) - m = 1 /\ m # 0
         /\ i > m => /\ ~(i <= m) /\ ~(i + 1 <= m)
                     /\ i - m \in 1 .. n - 1 /\ (i + 1) - m = (i - m) + 1
         /\ i < m \/ i = m \/ i > m
OBVIOUS

LEMMA ChainConcat ==
  ASSUME NEW s \in Seq(Nat), NEW t \in Seq(Nat), t # << >>, NEW R, Chain(s, R), Chain(t, R),
         s # << >> => <<s[Len(s)], Head(t)>> \in R
  PROVE  Chain(s \o t, R)
<1>1. Len(s) \in Nat /\ (Len(s) # 0 => s # << >>)
  BY LenProperties
<1>2. Len(t) \in Nat /\ Len(t) # 0 /\ Head(t) = t[1]
  BY EmptySeq
<1>3. /\ Len(s \o t) = Len(s) + Len(t)
      /\ \A i \in 1 .. Len(s) + Len(t) :
           (s \o t)[i] = IF i <= Len(s) THEN s[i] ELSE t[i - Len(s)]
  BY ConcatProperties
<1> SUFFICES ASSUME NEW i \in 1 .. (Len(s) + Len(t)) - 1 PROVE <<(s \o t)[i], (s \o t)[i + 1]>> \in R
  BY <1>3 DEF Chain
<1>4. /\ i \in 1 .. Len(s) + Len(t) /\ i + 1 \in 1 .. Len(s) + Len(t)
      /\ i < Len(s) => i \in 1 .. Len(s) - 1 /\ i <= Len(s) /\ i + 1 <= Len(s)
      /\ i = Len(s) => i <= Len(s) /\ ~(i + 1 <= Len(s)) /\ (i + 1) - Len(s) = 1 /\ Len(s) # 0
      /\ i > Len(s) => /\ ~(i <= Len(s)) /\ ~(i + 1 <= Len(s))
                       /\ i - Len(s) \in 1 .. Len(t) - 1 /\ (i + 1) - Len(s) = (i - Len(s)) + 1
      /\ i < Len(s) \/ i = Len(s) \/ i > Len(s)
  BY <1>1, <1>2, PlaceOfTwo, Zenon
<1>5. CASE i < Len(s)
  <2>1. i \in 1 .. Len(s) - 1 /\ i <= Len(s) /\ i + 1 <= Len(s)
    BY <1>4, <1>5, Zenon
  <2>2. (s \o t)[i] = s[i] /\ (s \o t)[i + 1] = s[i + 1]
    BY <1>3, <1>4, <2>1
  <2> QED
    BY <2>1, <2>2 DEF Chain
<1>6. CASE i = Len(s)
  <2>1. i <= Len(s) /\ ~(i + 1 <= Len(s)) /\ (i + 1) - Len(s) = 1 /\ Len(s) # 0
    BY <1>4, <1>6, Zenon
  <2>2. (s \o t)[i] = s[Len(s)] /\ (s \o t)[i + 1] = t[1]
    BY <1>3, <1>4, <1>6, <2>1
  <2> QED
    BY <1>1, <1>2, <2>1, <2>2
<1>7. CASE i > Len(s)
  <2> DEFINE j == i - Len(s)
  <2>1. /\ ~(i <= Len(s)) /\ ~(i + 1 <= Len(s)) /\ j \in 1 .. Len(t) - 1
        /\ (i + 1) - Len(s) = j + 1
    BY <1>4, <1>7, Zenon
  <2>2. (s \o t)[i] = t[j] /\ (s \o t)[i + 1] = t[j + 1]
    BY <1>3, <1>4, <2>1
  <2> QED
    BY <2>1, <2>2 DEF Chain
<1> QED
  BY <1>4, <1>5, <1>6, <1>7

LEMMA ChainWeaker ==
  ASSUME NEW s, NEW R, NEW S, R \subseteq S, Chain(s, R)
  PROVE  Chain(s, S)
BY DEF Chain

LEMMA LessIs == \A a, b \in Nat : <<a, b>> \in Less <=> a < b
<1> SUFFICES ASSUME NEW a \in Nat, NEW b \in Nat PROVE <<a, b>> \in Less <=> a < b
  OBVIOUS
<1>1. <<a, b>> \in Nat \X Nat /\ <<a, b>>[1] = a /\ <<a, b>>[2] = b
  OBVIOUS
<1>2. <<a, b>> \in Less <=> <<a, b>> \in Nat \X Nat /\ <<a, b>>[1] < <<a, b>>[2]
  BY Zenon DEF Less
<1> QED
  BY <1>1, <1>2

LEMMA SuccessorsAre ==
  \A a, b \in Nat : \A r :
    <<a, b>> \in Successors(r) <=> a < b /\ (b > since[r] => a + 1 .. b - 1 \subseteq rejected)
<1> SUFFICES ASSUME NEW a \in Nat, NEW b \in Nat, NEW r
             PROVE  <<a, b>> \in Successors(r) <=> a < b /\ (b > since[r] => a + 1 .. b - 1 \subseteq rejected)
  OBVIOUS
<1>1. <<a, b>>[1] = a /\ <<a, b>>[2] = b
  OBVIOUS
<1>2. <<a, b>> \in Successors(r) <=>
        /\ <<a, b>> \in Less
        /\ <<a, b>>[2] > since[r] => <<a, b>>[1] + 1 .. <<a, b>>[2] - 1 \subseteq rejected
  BY Zenon DEF Successors
<1> QED
  BY <1>1, <1>2, LessIs

LEMMA InOrderStep ==
  ASSUME TypeOK, InOrder, Coming, Next
  PROVE  InOrder'
<1>0. /\ queue \in Seq(Nat) /\ past \in Seq(Nat) /\ hlsFrames \in Seq(Nat) /\ src \in Nat
      /\ Len(queue) \in Nat /\ Len(past) \in Nat
  BY LenProperties DEF TypeOK
<1>1. CASE Moves \/ HlsPush \/ LimiterRejects \/ RecPush \/ Record
           \/ \E c \in Callers : \/ Calling(c) \/ Insert(c) \/ Attach(c) \/ StartRecording(c)
                                 \/ DetachRecorder(c) \/ Resume(c) \/ Pause(c)
  <2>1. UNCHANGED <<queue, past, src>>
    BY <1>1, MovesChange, CallingChange, EditsChange DEF HlsPush, LimiterRejects, RecPush, Record, jitbuf
  <2> QED
    BY <2>1 DEF InOrder, Chain
<1>2. CASE SourceFrame
  <2>1. UNCHANGED <<queue, past>> /\ src' \in Nat /\ src <= src'
    BY <1>0, <1>2 DEF SourceFrame, jitbuf
  <2>2. \A i \in 1 .. Len(queue) : queue[i] \in Nat /\ queue[i] <= src
    BY <1>0, ElementOfSeq DEF InOrder
  <2>3. \A i \in 1 .. Len(past) : past[i] \in Nat /\ past[i] <= src
    BY <1>0, ElementOfSeq DEF InOrder
  <2>4. /\ \A i \in 1 .. Len(queue) : queue[i] <= src'
        /\ \A i \in 1 .. Len(past) : past[i] <= src'
    BY <1>0, <2>1, <2>2, <2>3, SMTT(30)
  <2> QED
    BY <2>1, <2>4 DEF InOrder, Chain
<1>3. CASE JitterHoldsBack
  <2>1. CASE UNCHANGED <<queue, past>>
    BY <1>3, <2>1 DEF JitterHoldsBack, InOrder, Chain
  <2>2. ASSUME queue # << >>, NEW k \in Reductions(Restored), queue' = Drop(Restored, k), past' = << >>
        PROVE  InOrder'
    <3>1. Len(queue) \in Nat \ {0} /\ Head(queue) = queue[1] /\ queue[1] \in Nat
      BY <1>0, <2>2, EmptySeq, ElementOfSeq
    <3>2. past # << >> => <<past[Len(past)], Head(queue)>> \in Less
      <4>1. past # << >> => past[Len(past)] \in Nat
        BY <1>0, EmptySeq, ElementOfSeq
      <4> QED
        BY <3>1, <4>1, LessIs DEF InOrder
    <3>3. Chain(Restored, Less)
      BY <1>0, <2>2, <3>2, ChainConcat DEF InOrder, Restored
    <3>4. \A i \in 1 .. Len(Restored) : Restored[i] <= src
      <4> SUFFICES ASSUME NEW i \in 1 .. Len(Restored) PROVE Restored[i] <= src
        OBVIOUS
      <4>1. \A j \in 1 .. Len(queue) : queue[j] <= src
        BY DEF InOrder
      <4>2. CASE i > Len(past)
        <5> DEFINE j == i - Len(past)
        <5>1. j \in 1 .. Len(queue) /\ Len(past) + j = i
          BY <1>0, <4>2, RestoredItems
        <5>2. Restored[Len(past) + j] = queue[j]
          BY <5>1, RestoredItems
        <5> QED
          BY <4>1, <5>1, <5>2
      <4>3. CASE i <= Len(past)
        <5>1. i \in 1 .. Len(past) /\ Restored[i] = past[i]
          BY <1>0, <4>3, RestoredItems
        <5> QED
          BY <5>1 DEF InOrder
      <4> QED
        BY <1>0, <4>2, <4>3
    <3>5. /\ k \in Nat /\ k < Len(Restored) /\ Restored \in Seq(Nat) /\ Len(Restored) \in Nat
          /\ Len(queue') = Len(Restored) - k /\ queue' # << >>
          /\ \A i \in 1 .. Len(Restored) - k : queue'[i] = Restored[k + i]
      <4>1. Restored \in Seq(Nat) /\ Len(Restored) \in Nat
        BY <1>0, RestoredItems
      <4>2. /\ k \in Nat /\ k < Len(Restored)
            /\ Drop(Restored, k) # << >> /\ Len(Drop(Restored, k)) = Len(Restored) - k
            /\ \A i \in 1 .. Len(Restored) - k : Drop(Restored, k)[i] = Restored[k + i]
        BY <2>2, ReducedItems
      <4> QED
        BY <2>2, <4>1, <4>2
    <3>6. Chain(queue', Less)
      BY <2>2, <3>3, <3>5, ChainDrop, SMTT(30)
    <3>7. \A i \in 1 .. Len(queue') : queue'[i] <= src
      <4> SUFFICES ASSUME NEW i \in 1 .. Len(Restored) - k PROVE queue'[i] <= src
        BY <3>5
      <4>1. k + i \in 1 .. Len(Restored)
        BY <3>5
      <4> QED
        BY <3>4, <3>5, <4>1
    <3>8. src' = src
      BY <1>3 DEF JitterHoldsBack
    <3> QED
      BY <2>2, <3>5, <3>6, <3>7, <3>8, ChainStart DEF InOrder, Chain
  <2> QED
    BY <1>3, <2>1, <2>2 DEF JitterHoldsBack
<1>4. CASE JitterReturns
  <2>1. Due /\ queue' = Tail(queue) /\ src' = src
    BY <1>4 DEF JitterReturns
  <2>2. /\ Len(queue) > 1 /\ Head(queue) = queue[1] /\ queue[1] \in Nat /\ queue # << >>
        /\ Len(queue') = Len(queue) - 1 /\ queue' # << >> /\ Head(queue') = queue[2]
        /\ \A i \in 1 .. Len(queue) - 1 : queue'[i] = queue[i + 1]
    BY <1>0, <2>1, DueItems DEF Due
  <2>3. queue[2] \in Nat /\ queue[1] < queue[2]
    <3>1. <<queue[1], queue[1 + 1]>> \in Less /\ queue[2] \in Nat
      BY <1>0, <2>2, ElementOfSeq, SMTT(30) DEF InOrder, Chain
    <3> QED
      BY <2>2, <3>1, LessIs
  <2>4. Chain(queue', Less)
    BY <1>0, <2>1, <2>2, ChainTail DEF InOrder
  <2>5. \A i \in 1 .. Len(queue') : queue'[i] <= src'
    BY <1>0, <2>1, <2>2 DEF InOrder
  <2>6. CASE UNCHANGED past
    <3>1. past # << >> => past[Len(past)] \in Nat /\ past[Len(past)] < Head(queue')
      BY <1>0, <2>2, <2>3, EmptySeq, ElementOfSeq, SMTT(30) DEF InOrder
    <3> QED
      BY <2>1, <2>2, <2>4, <2>5, <2>6, <3>1 DEF InOrder, Chain
  <2>7. ASSUME NEW k \in 0 .. Len(past) + 1, past' = Drop(Append(past, Head(queue)), k)
        PROVE  InOrder'
    <3> DEFINE q == Append(past, Head(queue))
    <3>1. /\ q \in Seq(Nat) /\ Len(q) = Len(past) + 1 /\ q[Len(past) + 1] = queue[1]
          /\ \A i \in 1 .. Len(past) : q[i] = past[i]
      BY <1>0, <2>2, AppendProperties
    <3>2. past # << >> => <<past[Len(past)], Head(queue)>> \in Less
      <4>1. past # << >> => past[Len(past)] \in Nat
        BY <1>0, EmptySeq, ElementOfSeq
      <4> QED
        BY <2>2, <4>1, LessIs DEF InOrder
    <3>3. Chain(q, Less)
      BY <1>0, <2>2, <3>2, ChainAppend DEF InOrder
    <3>4. \A i \in 1 .. Len(q) : q[i] <= src
      <4>1. queue[1] <= src
        BY <1>0, <2>2 DEF InOrder
      <4> QED
        BY <1>0, <3>1, <4>1 DEF InOrder
    <3> HIDE DEF q
    <3>5. /\ past' \in Seq(Nat) /\ Len(past') = Len(past) + 1 - k
          /\ \A i \in 1 .. Len(past) + 1 - k : past'[i] = q[k + i]
      <4>1. /\ Drop(q, k) \in Seq(Nat) /\ Len(Drop(q, k)) = Len(q) - k
            /\ \A i \in 1 .. Len(q) - k : Drop(q, k)[i] = q[k + i]
        <5>1. k \in 0 .. Len(q)
          BY <2>7, <3>1
        <5> QED
          BY <3>1, <5>1, DropItems, Zenon
      <4>2. past' = Drop(q, k)
        BY <2>7 DEF q
      <4> QED
        BY <3>1, <4>1, <4>2
    <3>6. Chain(past', Less)
      <4>1. Chain(Drop(q, k), Less)
        BY <2>7, <3>1, <3>3, ChainDrop
      <4> QED
        BY <2>7, <4>1 DEF q
    <3>7. \A i \in 1 .. Len(past') : past'[i] <= src'
      BY <1>0, <2>1, <3>1, <3>4, <3>5, SMTT(30)
    <3>8. past' # << >> => past'[Len(past')] < Head(queue')
      <4>1. past' # << >> => Len(past') \in Nat \ {0}
        BY <3>5, EmptySeq
      <4>2. past' # << >> => past'[Len(past')] = q[k + Len(past')] /\ k + Len(past') = Len(past) + 1
        BY <1>0, <3>5, <4>1
      <4> QED
        BY <2>2, <2>3, <3>1, <4>2
    <3> QED
      BY <2>2, <2>4, <2>5, <3>6, <3>7, <3>8 DEF InOrder, Chain
  <2>8. /\ Append(past, Head(queue)) \in Seq(Nat)
        /\ Len(Append(past, Head(queue))) = Len(past) + 1
    BY <1>0, <2>2, AppendProperties
  <2> QED
    BY <1>4, <2>6, <2>7, <2>8 DEF JitterReturns, Reductions
<1>5. CASE LimiterAccepts
  <2> DEFINE f == Head(hlsFrames)
  <2>1. /\ f # Excess /\ hlsFrames # << >> /\ queue' = Append(queue, f) /\ UNCHANGED <<past, src>>
    BY <1>5 DEF LimiterAccepts, Hls!Pop
  <2>2. f = hlsFrames[1] /\ 1 \in 1 .. Len(hlsFrames) /\ f \in Nat
    BY <1>0, <2>1, EmptySeq, ElementOfSeq
  <2>3. f <= src /\ (queue # << >> => Newest < f)
    BY <2>1, <2>2 DEF Coming, FramesAreNew, Kept
  <2>4. /\ Len(queue') = Len(queue) + 1 /\ queue'[Len(queue) + 1] = f /\ queue' # << >>
        /\ \A i \in 1 .. Len(queue) : queue'[i] = queue[i]
    BY <1>0, <2>1, <2>2, AppendProperties
  <2>5. queue # << >> => <<queue[Len(queue)], f>> \in Less
    <3>1. queue # << >> => queue[Len(queue)] \in Nat
      BY <1>0, EmptySeq, ElementOfSeq
    <3> QED
      BY <2>2, <2>3, <3>1, LessIs DEF Newest
  <2>6. Chain(queue', Less)
    BY <1>0, <2>1, <2>2, <2>5, ChainAppend DEF InOrder
  <2> HIDE DEF f
  <2>7. \A i \in 1 .. Len(queue') : queue'[i] <= src'
    BY <1>0, <2>1, <2>3, <2>4, SMTT(30) DEF InOrder
  <2>8. past # << >> => queue # << >> /\ Head(queue') = Head(queue)
    BY <1>0, <2>1, <2>2, HeadTailAppend DEF InOrder
  <2> QED
    BY <2>1, <2>4, <2>6, <2>7, <2>8 DEF InOrder, Chain
<1> QED
  BY <1>1, <1>2, <1>3, <1>4, <1>5, FlowCases

(***************************************************************************)
(* The frames on their way to the jitter buffer                            *)
(***************************************************************************)
LEMMA ComingType ==
  ASSUME TypeOK
  PROVE  /\ hlsFrames \in Seq(Nat) /\ Len(hlsFrames) \in Nat /\ hand \in Nat /\ src \in Nat
         /\ \A i \in 1 .. Len(hlsFrames) : hlsFrames[i] \in Nat
         /\ queue # << >> => Newest \in Nat /\ Len(queue) \in Nat \ {0}
         /\ Excess \in Nat
<1>1. hlsFrames \in Seq(Nat) /\ queue \in Seq(Nat) /\ hand \in Nat /\ src \in Nat
  BY DEF TypeOK
<1>2. queue # << >> => Len(queue) \in Nat \ {0} /\ Newest \in Nat
  BY <1>1, EmptySeq, ElementOfSeq DEF Newest
<1> QED
  BY <1>1, <1>2, LenProperties, ElementOfSeq DEF Excess

StillKept(f) ==
  /\ f <= src'
  /\ queue' # << >> => Newest' < f

LEMMA ComingUnchanged ==
  ASSUME Coming, UNCHANGED <<hlsFrames, hand, src, rejected>>, hand # Excess => ppc' = ppc,
         queue' # << >> => queue # << >> /\ Newest' = Newest
  PROVE  Coming'
BY DEF Coming, HandIsNew, FramesAreNew, NoneMissing, Present, Accounted, Kept

LEMMA PushComing ==
  ASSUME TypeOK, Coming, HlsPush
  PROVE  Coming'
<1>0. /\ hlsFrames' = Append(hlsFrames, hand) /\ hand' = Excess
      /\ UNCHANGED <<src, rejected, queue, Newest>>
  BY DEF HlsPush, Hls!Push, jitbuf, history, Newest
<1>1. /\ Len(hlsFrames') = Len(hlsFrames) + 1 /\ hlsFrames'[Len(hlsFrames) + 1] = hand
      /\ \A i \in 1 .. Len(hlsFrames) : hlsFrames'[i] = hlsFrames[i]
  BY <1>0, ComingType, AppendProperties
<1>2. FramesAreNew'
  <2> SUFFICES ASSUME NEW i \in 1 .. Len(hlsFrames) + 1, hlsFrames'[i] # Excess
               PROVE  /\ StillKept(hlsFrames'[i])
                      /\ \A j \in i + 1 .. Len(hlsFrames) + 1 :
                           hlsFrames'[j] # Excess => hlsFrames'[i] < hlsFrames'[j]
    BY <1>0, <1>1 DEF FramesAreNew, Kept, StillKept
  <2>1. CASE i = Len(hlsFrames) + 1
    <3>1. \A j \in i + 1 .. Len(hlsFrames) + 1 : FALSE
      BY <2>1, ComingType
    <3> QED
      BY <1>0, <1>1, <2>1, <3>1 DEF Coming, HandIsNew, Kept, StillKept
  <2>2. CASE i \in 1 .. Len(hlsFrames)
    <3>1. StillKept(hlsFrames'[i])
      BY <1>0, <1>1, <2>2 DEF Coming, FramesAreNew, Kept, StillKept
    <3>2. ASSUME NEW j \in i + 1 .. Len(hlsFrames), hlsFrames'[j] # Excess
          PROVE  hlsFrames'[i] < hlsFrames'[j]
      <4>1. j \in 1 .. Len(hlsFrames)
        BY <2>2, ComingType
      <4> QED
        BY <1>1, <2>2, <3>2, <4>1 DEF Coming, FramesAreNew
    <3>3. hand # Excess => hlsFrames'[i] < hand
      BY <1>1, <2>2 DEF Coming, FramesAreNew
    <3>4. \A j \in i + 1 .. Len(hlsFrames) + 1 : j \in i + 1 .. Len(hlsFrames) \/ j = Len(hlsFrames) + 1
      BY <2>2, ComingType, SMTT(30)
    <3> QED
      BY <1>1, <3>1, <3>2, <3>3, <3>4
  <2> QED
    BY <2>1, <2>2, ComingType
<1>3. NoneMissing'
  <2> SUFFICES \A n \in Nat : (Accounted(n) => Accounted(n)') /\ (Present(n)' => Present(n))
    BY <1>0 DEF Coming, NoneMissing
  <2>1. Len(hlsFrames) + 1 \in 1 .. Len(hlsFrames') /\ 1 .. Len(hlsFrames) \subseteq 1 .. Len(hlsFrames')
    BY <1>1, ComingType
  <2>2. \A i \in 1 .. Len(hlsFrames') : i \in 1 .. Len(hlsFrames) \/ i = Len(hlsFrames) + 1
    BY <1>1, ComingType
  <2> QED
    BY <1>0, <1>1, <2>1, <2>2 DEF Accounted, Present
<1> QED
  BY <1>0, <1>2, <1>3 DEF Coming, HandIsNew

LEMMA SourceComing ==
  ASSUME SafeInv, Opened, InOrder, Coming, SourceFrame
  PROVE  Coming'
<1>0. /\ TypeOK /\ hand = Excess /\ UNCHANGED <<hlsFrames, rejected, queue, Newest>>
  BY DEF SafeInv, SourceFrame, ProducerGoes, Coming, HandIsNew, hls, jitbuf, history, Newest
<1>1. CASE hand' = Excess /\ UNCHANGED src
  BY <1>0, <1>1, ComingUnchanged
<1>2. CASE ~Hls!Attached
  <2>1. hlsFrames = << >> /\ queue = << >> /\ hand' = Excess
    BY <1>2 DEF SafeInv, Splitters, NoStaleFrames, Opened, SourceFrame, KeepsFrame, Hls!Attached
  <2> QED
    BY <1>0, <2>1, EmptySeq DEF Coming, HandIsNew, FramesAreNew, NoneMissing, Present
<1>3. CASE Hls!Attached /\ src' = src + 1 /\ hand' = src'
  <2>1. ppc' = "push"
    BY <1>3 DEF SourceFrame, ProducerGoes, KeepsFrame
  <2>2. queue # << >> => Newest <= src
    BY <1>0, ComingType DEF InOrder, Newest
  <2>3. HandIsNew'
    BY <1>0, <1>3, <2>1, <2>2, ComingType DEF HandIsNew, Kept
  <2>4. FramesAreNew'
    <3> SUFFICES ASSUME NEW i \in 1 .. Len(hlsFrames), hlsFrames[i] # Excess
                 PROVE  StillKept(hlsFrames[i]) /\ hlsFrames[i] < hand'
      BY <1>0 DEF Coming, FramesAreNew, Kept, StillKept
    <3>1. Kept(hlsFrames[i])
      BY DEF Coming, FramesAreNew
    <3> QED
      BY <1>0, <1>3, <3>1, ComingType DEF Kept, StillKept
  <2>5. NoneMissing'
    <3> SUFFICES ASSUME NEW m \in Nat, NEW n \in Nat, Present(m)', m < n, n <= src + 1
                 PROVE  Accounted(n)'
      BY <1>0, <1>3 DEF NoneMissing
    <3>1. CASE n = src + 1
      BY <1>3, <3>1 DEF Accounted
    <3>2. CASE n <= src
      <4>1. Present(m)
        BY <1>0, <1>3, <3>2, ComingType DEF Present
      <4>2. Accounted(n) /\ n # Excess
        BY <3>2, <4>1, ComingType DEF Coming, NoneMissing, Excess
      <4> QED
        BY <1>0, <4>2 DEF Accounted
    <3> QED
      BY <1>0, <3>1, <3>2, ComingType
  <2> QED
    BY <2>3, <2>4, <2>5 DEF Coming
<1> QED
  BY <1>1, <1>2, <1>3 DEF SourceFrame, KeepsFrame

\* What hls has after its head is gone.
LEMMA PoppedItems ==
  ASSUME TypeOK, Hls!Pop
  PROVE  /\ hlsFrames # << >> /\ Head(hlsFrames) = hlsFrames[1] /\ Len(hlsFrames) \in Nat \ {0}
         /\ Len(hlsFrames') = Len(hlsFrames) - 1
         /\ \A i \in 1 .. Len(hlsFrames) - 1 : hlsFrames'[i] = hlsFrames[i + 1]
<1>1. hlsFrames \in Seq(Nat) /\ hlsFrames # << >> /\ hlsFrames' = Tail(hlsFrames)
  BY DEF TypeOK, Hls!Pop
<1> QED
  BY <1>1, EmptySeq, HeadTailProperties

LEMMA PoppedFrames ==
  ASSUME TypeOK, Coming, Hls!Pop, hand' = Excess,
         \A i \in 2 .. Len(hlsFrames) : hlsFrames[i] # Excess => StillKept(hlsFrames[i])
  PROVE  FramesAreNew'
<1> SUFFICES ASSUME NEW i \in 1 .. Len(hlsFrames) - 1, hlsFrames[i + 1] # Excess
             PROVE  /\ StillKept(hlsFrames[i + 1])
                    /\ \A j \in i + 1 .. Len(hlsFrames) - 1 :
                         hlsFrames[j + 1] # Excess => hlsFrames[i + 1] < hlsFrames[j + 1]
  <2>1. \A i \in 1 .. Len(hlsFrames) - 1 : \A j \in i + 1 .. Len(hlsFrames) - 1 : j \in 1 .. Len(hlsFrames) - 1
    BY ComingType
  <2> QED
    BY <2>1, PoppedItems DEF FramesAreNew, Kept, StillKept
<1>1. i + 1 \in 2 .. Len(hlsFrames) /\ i + 1 \in 1 .. Len(hlsFrames)
  BY ComingType
<1>2. \A j \in i + 1 .. Len(hlsFrames) - 1 : j + 1 \in (i + 1) + 1 .. Len(hlsFrames)
  BY ComingType
<1> QED
  BY <1>1, <1>2 DEF Coming, FramesAreNew

LEMMA PoppedMissing ==
  ASSUME TypeOK, Hls!Pop, hand = Excess, rejected \subseteq rejected',
         NEW n, Accounted(n), n # hlsFrames[1], n # Excess
  PROVE  Accounted(n)'
<1>1. CASE n \in rejected
  BY <1>1 DEF Accounted
<1>2. ASSUME NEW i \in 1 .. Len(hlsFrames), hlsFrames[i] = n PROVE Accounted(n)'
  <2>1. i # 1
    BY <1>2
  <2>2. i - 1 \in 1 .. Len(hlsFrames) - 1 /\ (i - 1) + 1 = i
    BY <2>1, ComingType
  <2>3. hlsFrames'[i - 1] = n /\ i - 1 \in 1 .. Len(hlsFrames')
    BY <1>2, <2>2, PoppedItems
  <2> QED
    BY <2>3 DEF Accounted
<1> QED
  BY <1>1, <1>2 DEF Accounted

LEMMA AcceptComing ==
  ASSUME TypeOK, Coming, LimiterAccepts
  PROVE  Coming'
<1> DEFINE f == hlsFrames[1]
<1>0. /\ Hls!Pop /\ hand = Excess /\ hand' = Excess /\ UNCHANGED <<src, rejected>>
      /\ Head(hlsFrames) # Excess /\ queue' = Append(queue, Head(hlsFrames))
  BY DEF LimiterAccepts, ProducerGoes, Coming, HandIsNew, history
<1>1. /\ f # Excess /\ f \in Nat /\ 1 \in 1 .. Len(hlsFrames) /\ queue' = Append(queue, f)
  BY <1>0, PoppedItems, ComingType
<1>2. queue' # << >> /\ Newest' = f
  BY <1>1, AppendProperties, LenProperties DEF Newest, TypeOK
<1> HIDE DEF f
<1>3. \A i \in 2 .. Len(hlsFrames) : hlsFrames[i] # Excess => StillKept(hlsFrames[i])
  <2> SUFFICES ASSUME NEW i \in 2 .. Len(hlsFrames), hlsFrames[i] # Excess PROVE StillKept(hlsFrames[i])
    OBVIOUS
  <2>1. i \in 1 .. Len(hlsFrames) /\ i \in 1 + 1 .. Len(hlsFrames)
    BY ComingType
  <2>2. Kept(hlsFrames[i]) /\ f < hlsFrames[i]
    BY <1>1, <2>1 DEF Coming, FramesAreNew, f
  <2> QED
    BY <1>0, <1>2, <2>2 DEF Kept, StillKept
<1>4. NoneMissing'
  <2> SUFFICES ASSUME NEW m \in Nat, NEW n \in Nat, Present(m)', m < n, n <= src PROVE Accounted(n)'
    BY <1>0 DEF NoneMissing
  <2>1. Present(m) /\ f <= m
    <3>1. CASE m = f
      BY <1>1, <3>1 DEF Present, f
    <3>2. ASSUME NEW i \in 1 .. Len(hlsFrames'), hlsFrames'[i] = m, m # Excess
          PROVE  Present(m) /\ f <= m
      <4>1. i + 1 \in 1 + 1 .. Len(hlsFrames) /\ i + 1 \in 1 .. Len(hlsFrames) /\ hlsFrames[i + 1] = m
        BY <1>0, <3>2, PoppedItems
      <4>2. f < m
        BY <1>1, <3>2, <4>1 DEF Coming, FramesAreNew, f
      <4> QED
        BY <1>1, <3>2, <4>1, <4>2 DEF Present
    <3> QED
      BY <1>0, <1>2, <3>1, <3>2 DEF Present
  <2>2. Accounted(n) /\ n # f /\ n # Excess
    BY <1>1, <2>1, ComingType DEF Coming, NoneMissing, Excess
  <2> QED
    BY <1>0, <2>2, PoppedMissing DEF f
<1> QED
  BY <1>0, <1>3, <1>4, PoppedFrames DEF Coming, HandIsNew

LEMMA RejectComing ==
  ASSUME TypeOK, Coming, LimiterRejects
  PROVE  Coming'
<1> DEFINE f == hlsFrames[1]
<1>0. /\ Hls!Pop /\ hand = Excess /\ hand' = Excess /\ UNCHANGED <<src, queue, Newest>>
      /\ rejected' = rejected \cup ({Head(hlsFrames)} \ {Excess})
  BY DEF LimiterRejects, ProducerGoes, Coming, HandIsNew, jitbuf, Newest
<1>1. /\ f \in Nat /\ 1 \in 1 .. Len(hlsFrames) /\ rejected' = rejected \cup ({f} \ {Excess})
  BY <1>0, PoppedItems, ComingType
<1> HIDE DEF f
<1>2. \A i \in 2 .. Len(hlsFrames) : hlsFrames[i] # Excess => StillKept(hlsFrames[i])
  <2>1. \A i \in 2 .. Len(hlsFrames) : i \in 1 .. Len(hlsFrames)
    BY ComingType
  <2> QED
    BY <1>0, <2>1 DEF Coming, FramesAreNew, Kept, StillKept
<1>3. NoneMissing'
  <2> SUFFICES ASSUME NEW m \in Nat, NEW n \in Nat, Present(m)', m < n, n <= src PROVE Accounted(n)'
    BY <1>0 DEF NoneMissing
  <2>1. Present(m)
    <3>1. ASSUME NEW i \in 1 .. Len(hlsFrames'), hlsFrames'[i] = m, m # Excess
          PROVE  Present(m)
      <4>1. i + 1 \in 1 .. Len(hlsFrames) /\ hlsFrames[i + 1] = m
        BY <1>0, <3>1, PoppedItems
      <4> QED
        BY <3>1, <4>1 DEF Present
    <3> QED
      BY <1>0, <3>1 DEF Present
  <2>2. Accounted(n) /\ n # Excess
    BY <2>1, ComingType DEF Coming, NoneMissing, Excess
  <2>3. CASE n = f
    BY <1>1, <2>2, <2>3 DEF Accounted
  <2>4. CASE n # f
    BY <1>0, <1>1, <2>2, <2>4, PoppedMissing DEF f
  <2> QED
    BY <2>3, <2>4
<1> QED
  BY <1>0, <1>2, <1>3, PoppedFrames DEF Coming, HandIsNew

LEMMA ComingStep ==
  ASSUME SafeInv, Opened, InOrder, Coming, Next
  PROVE  Coming'
<1>0. TypeOK
  BY DEF SafeInv
<1>1. CASE Moves
  <2>1. hand = Excess
    BY <1>0, <1>1, MovesChange DEF Coming, HandIsNew
  <2> QED
    BY <1>0, <1>1, <2>1, MovesChange, ComingUnchanged DEF Newest
<1>2. CASE RecPush \/ Record
  <2>1. UNCHANGED <<hlsFrames, hand, src, rejected, queue>> /\ ppc # "push"
    BY <1>2 DEF RecPush, Record, ProducerGoes, hls, jitbuf, history
  <2> QED
    BY <2>1, ComingUnchanged DEF Coming, HandIsNew, Newest
<1>3. ASSUME NEW c \in Callers, \/ Calling(c) \/ Insert(c) \/ Attach(c) \/ StartRecording(c)
                                \/ DetachRecorder(c) \/ Resume(c) \/ Pause(c)
      PROVE  Coming'
  <2>1. UNCHANGED <<queue, src, hand, ppc, rejected>>
    BY <1>0, <1>3, CallingChange, EditsChange
  <2>2. UNCHANGED hlsFrames
    <3>1. CASE Attach(c)
      <4>1. hlsSub = NoSubgraph
        BY <3>1 DEF Attach, CallerGoes, Opened
      <4>2. hlsFrames = << >>
        BY <4>1 DEF SafeInv, Splitters, NoStaleFrames, Hls!Attached
      <4> QED
        BY <3>1, <4>2 DEF Attach, Hls!Attach, Hls!AttachFails
    <3>2. CASE Insert(c) \/ StartRecording(c) \/ DetachRecorder(c) \/ Resume(c) \/ Pause(c)
      BY <3>2 DEF Insert, StartRecording, DetachRecorder, Detaches, Resume, Pause, hls
    <3> QED
      BY <1>0, <1>3, <3>1, <3>2, CallingChange
  <2> QED
    BY <2>1, <2>2, ComingUnchanged DEF Newest
<1>4. CASE JitterHoldsBack
  <2>1. UNCHANGED <<hlsFrames, hand, src, rejected>> /\ ppc # "push"
    BY <1>4 DEF JitterHoldsBack, ProducerGoes, hls, history
  <2>2. queue' # << >> => queue # << >> /\ Newest' = Newest
    <3>1. CASE UNCHANGED queue
      BY <3>1 DEF Newest
    <3>2. ASSUME queue # << >>, NEW k \in Reductions(Restored), queue' = Drop(Restored, k)
          PROVE  Newest' = Newest
      BY <1>0, <3>2, ReducedItems DEF Newest
    <3> QED
      BY <1>4, <3>1, <3>2 DEF JitterHoldsBack
  <2> QED
    BY <2>1, <2>2, ComingUnchanged DEF Coming, HandIsNew
<1>5. CASE JitterReturns
  <2>1. UNCHANGED <<hlsFrames, hand, src, rejected>> /\ ppc # "push" /\ Due /\ queue' = Tail(queue)
    BY <1>5 DEF JitterReturns, ProducerGoes, hls
  <2>2. queue # << >> /\ Newest' = Newest
    BY <1>0, <2>1, DueItems DEF Due, Newest
  <2> QED
    BY <2>1, <2>2, ComingUnchanged DEF Coming, HandIsNew
<1> QED
  BY <1>0, <1>1, <1>2, <1>3, <1>4, <1>5, FlowCases, PushComing, SourceComing, AcceptComing, RejectComing

(***************************************************************************)
(* What leaves the jitter buffer                                           *)
(***************************************************************************)
LEMMA ChainPrefix ==
  ASSUME NEW s \in Seq(Nat), NEW t \in Seq(Nat), NEW R, Chain(s \o t, R)
  PROVE  Chain(s, R)
<1>1. Len(s) \in Nat /\ Len(t) \in Nat
  BY LenProperties
<1>2. /\ Len(s \o t) = Len(s) + Len(t)
      /\ \A i \in 1 .. Len(s) + Len(t) :
           (s \o t)[i] = IF i <= Len(s) THEN s[i] ELSE t[i - Len(s)]
  BY ConcatProperties
<1> SUFFICES ASSUME NEW i \in 1 .. Len(s) - 1 PROVE <<s[i], s[i + 1]>> \in R
  BY DEF Chain
<1>3. /\ i \in 1 .. Len(s) + Len(t) /\ i + 1 \in 1 .. Len(s) + Len(t)
      /\ i <= Len(s) /\ i + 1 <= Len(s) /\ i \in 1 .. (Len(s) + Len(t)) - 1
  BY <1>1
<1>4. (s \o t)[i] = s[i] /\ (s \o t)[i + 1] = s[i + 1]
  BY <1>2, <1>3
<1> QED
  BY <1>2, <1>3, <1>4 DEF Chain

\* What is older than a recording needs only be in order.
LEMMA ChainOld ==
  ASSUME NEW s \in Seq(Nat), Chain(s, Less), NEW r, since[r] \in Nat,
         \A i \in 1 .. Len(s) : s[i] <= since[r]
  PROVE  Chain(s, Successors(r))
<1>1. Len(s) \in Nat
  BY LenProperties
<1> SUFFICES ASSUME NEW i \in 1 .. Len(s) - 1 PROVE <<s[i], s[i + 1]>> \in Successors(r)
  BY DEF Chain
<1>2. i \in 1 .. Len(s) /\ i + 1 \in 1 .. Len(s)
  BY <1>1
<1>3. s[i] \in Nat /\ s[i + 1] \in Nat /\ ~(s[i + 1] > since[r])
  BY <1>2, ElementOfSeq
<1>4. <<s[i], s[i + 1]>> \in Less
  BY DEF Chain
<1> QED
  BY <1>3, <1>4, LessIs, SuccessorsAre

LEMMA GoingType ==
  ASSUME TypeOK
  PROVE  /\ queue \in Seq(Nat) /\ past \in Seq(Nat) /\ given \in Seq(Nat)
         /\ Len(queue) \in Nat /\ Len(past) \in Nat /\ Len(given) \in Nat /\ src \in Nat
         /\ queue # << >> => Len(queue) \in Nat \ {0} /\ Head(queue) = queue[1] /\ queue[1] \in Nat
         /\ past # << >> => Len(past) \in Nat \ {0} /\ past[Len(past)] \in Nat
         /\ recSub # NoSubgraph => recSub \in 1 .. Len(recordings) /\ since[recSub] \in Nat
<1>1. queue \in Seq(Nat) /\ past \in Seq(Nat) /\ given \in Seq(Nat) /\ src \in Nat
  BY DEF TypeOK
<1>2. queue # << >> => Len(queue) \in Nat \ {0} /\ Head(queue) = queue[1] /\ queue[1] \in Nat
  BY <1>1, EmptySeq, ElementOfSeq
<1>3. past # << >> => Len(past) \in Nat \ {0} /\ past[Len(past)] \in Nat
  BY <1>1, EmptySeq, ElementOfSeq
<1>4. recSub # NoSubgraph => recSub \in 1 .. Len(recordings) /\ since[recSub] \in Nat
  <2>1. recSub # NoSubgraph => recSub \in 1 .. Len(recordings) /\ recSub \in 1 .. Len(since)
    BY LenProperties DEF TypeOK, NoSubgraph
  <2> QED
    BY <2>1, ElementOfSeq DEF TypeOK
<1> QED
  BY <1>1, <1>2, <1>3, <1>4, LenProperties

LEMMA GoingUnchanged ==
  ASSUME Going, UNCHANGED <<queue, past, given, recSub, since, rejected>>, paused' => paused
  PROVE  Going'
BY DEF Going, Chain, Successors, Less

LEMMA RejectGoing ==
  ASSUME TypeOK, Going, LimiterRejects
  PROVE  Going'
<1>1. UNCHANGED <<queue, past, given, recSub, since, paused>> /\ rejected \subseteq rejected'
  BY DEF LimiterRejects, rec, jitbuf, records
<1>2. Successors(recSub) \subseteq Successors(recSub)'
  BY <1>1 DEF Successors, Less
<1>3. \A s : Chain(s, Successors(recSub)) => Chain(s, Successors(recSub)')
  BY <1>2 DEF Chain
<1> QED
  BY <1>1, <1>2, <1>3 DEF Going

LEMMA AcceptGoing ==
  ASSUME TypeOK, InOrder, Coming, Going, LimiterAccepts
  PROVE  Going'
<1> DEFINE f == hlsFrames[1]
<1>0. /\ Hls!Pop /\ hand = Excess /\ UNCHANGED <<past, given, recSub, since, rejected, paused>>
      /\ Head(hlsFrames) # Excess /\ queue' = Append(queue, Head(hlsFrames))
  BY DEF LimiterAccepts, ProducerGoes, Coming, HandIsNew, history, records, rec
<1>1. /\ f # Excess /\ f \in Nat /\ 1 \in 1 .. Len(hlsFrames) /\ queue' = Append(queue, f) /\ f <= src
  BY <1>0, PoppedItems, ComingType DEF Coming, FramesAreNew, Kept
<1>2. queue # << >> => <<queue[Len(queue)], f>> \in Successors(recSub)
  <2> SUFFICES ASSUME queue # << >> PROVE <<Newest, f>> \in Successors(recSub)
    BY DEF Newest
  <2>1. Newest < f /\ Newest \in Nat
    BY <1>1, ComingType DEF Coming, FramesAreNew, Kept
  <2>2. ASSUME NEW n \in Newest + 1 .. f - 1 PROVE n \in rejected
    <3>1. n \in Nat /\ Newest < n /\ n <= src /\ n # Excess /\ n < f
      BY <1>1, <2>1, ComingType DEF Excess
    <3>2. Accounted(n)
      BY <2>1, <3>1 DEF Coming, NoneMissing, Present
    <3>3. ASSUME NEW i \in 1 .. Len(hlsFrames), hlsFrames[i] = n PROVE FALSE
      <4>1. i # 1
        BY <3>1, <3>3
      <4>2. i \in 1 + 1 .. Len(hlsFrames)
        BY <4>1, ComingType
      <4>3. f < n
        BY <1>1, <3>1, <3>3, <4>2 DEF Coming, FramesAreNew
      <4> QED
        BY <1>1, <3>1, <4>3
    <3> QED
      BY <1>0, <3>1, <3>2, <3>3 DEF Accounted
  <2> QED
    BY <1>1, <2>1, <2>2, SuccessorsAre
<1> HIDE DEF f
<1>3. Successors(recSub)' = Successors(recSub)
  BY <1>0 DEF Successors, Less
<1>4. queue # << >> => queue' # << >> /\ Head(queue') = Head(queue)
  <2>1. queue \in Seq(Nat) /\ f \in Nat /\ queue' = Append(queue, f)
    BY <1>1, GoingType
  <2>2. SUFFICES ASSUME queue # << >> PROVE queue' # << >> /\ Head(queue') = Head(queue)
    OBVIOUS
  <2>3. queue' # << >>
    BY <2>1, AppendProperties
  <2>4. Head(queue') = Head(queue)
    BY <2>1, <2>2, HeadTailAppend
  <2> QED
    BY <2>3, <2>4
<1>5. Chain(queue, Successors(recSub)) => Chain(queue', Successors(recSub))
  BY <1>1, <1>2, GoingType, ChainAppend
<1> QED
  BY <1>0, <1>3, <1>4, <1>5 DEF Going, InOrder

LEMMA HoldGoing ==
  ASSUME TypeOK, InOrder, Going, JitterHoldsBack
  PROVE  Going'
<1>0. UNCHANGED <<given, recSub, since, rejected, paused>>
  BY DEF JitterHoldsBack, rec, history, records
<1>1. CASE UNCHANGED <<queue, past>>
  BY <1>0, <1>1, GoingUnchanged
<1>2. ASSUME paused, queue # << >>, past' = << >>, NEW k \in Reductions(Restored), queue' = Drop(Restored, k),
             recSub # NoSubgraph
      PROVE  Chain(queue', Successors(recSub))
  <2>1. since[recSub] \in Nat /\ past \in Seq(Nat) /\ queue \in Seq(Nat)
    BY <1>2, GoingType
  <2>2. Chain(past, Successors(recSub))
    BY <1>2, <2>1, ChainOld DEF Going, InOrder
  <2>3. past # << >> => <<past[Len(past)], Head(queue)>> \in Successors(recSub)
    <3> SUFFICES ASSUME past # << >> PROVE <<past[Len(past)], Head(queue)>> \in Successors(recSub)
      OBVIOUS
    <3>1. past[Len(past)] \in Nat /\ Head(queue) \in Nat /\ past[Len(past)] < Head(queue)
      BY <1>2, GoingType DEF InOrder
    <3>2. ~(Head(queue) > since[recSub])
      BY <1>2, <2>1, <3>1 DEF Going
    <3> QED
      BY <3>1, <3>2, SuccessorsAre
  <2>4. Chain(Restored, Successors(recSub))
    BY <1>2, <2>1, <2>2, <2>3, ChainConcat DEF Going, Restored
  <2>5. k \in 0 .. Len(Restored) /\ Restored \in Seq(Nat)
    BY RestoredItems DEF Reductions
  <2> QED
    BY <1>2, <2>4, <2>5, ChainDrop
<1>3. ASSUME paused, queue # << >>, past' = << >>, NEW k \in Reductions(Restored), queue' = Drop(Restored, k)
      PROVE  Going'
  <2>1. Successors(recSub)' = Successors(recSub) /\ Len(past') = 0
    BY <1>0, <1>3 DEF Successors, Less
  <2>2. recSub # NoSubgraph => given = << >> /\ Chain(queue', Successors(recSub))
    BY <1>2, <1>3 DEF Going
  <2> QED
    BY <1>0, <1>3, <2>1, <2>2 DEF Going
<1> QED
  BY <1>1, <1>3 DEF JitterHoldsBack

LEMMA ReturnGoing ==
  ASSUME TypeOK, Going, JitterReturns
  PROVE  Going'
<1>0. /\ Due /\ ~paused /\ queue # << >> /\ queue' = Tail(queue) /\ UNCHANGED <<recSub, since, rejected, paused>>
      /\ recSub # NoSubgraph => given' = Append(given, Head(queue))
  BY DEF JitterReturns, Due, rec, Rec!Attached
<1>1. Successors(recSub)' = Successors(recSub)
  BY <1>0 DEF Successors, Less
<1> SUFFICES ASSUME recSub # NoSubgraph
             PROVE  /\ Chain(queue', Successors(recSub)) /\ Chain(given', Successors(recSub))
                    /\ queue' # << >> /\ <<given'[Len(given')], Head(queue')>> \in Successors(recSub)
  BY <1>0, <1>1 DEF Going
<1>2. Chain(queue', Successors(recSub))
  BY <1>0, GoingType, ChainTail DEF Going
<1>3. Chain(given', Successors(recSub))
  BY <1>0, GoingType, ChainAppend DEF Going
<1>4. given'[Len(given')] = queue[1]
  BY <1>0, GoingType, AppendProperties
<1>5. queue' # << >> /\ Head(queue') = queue[1 + 1] /\ 1 \in 1 .. Len(queue) - 1
  BY <1>0, GoingType, DueItems, SMTT(30)
<1>6. <<queue[1], queue[1 + 1]>> \in Successors(recSub)
  BY <1>5 DEF Going, Chain
<1> QED
  BY <1>2, <1>3, <1>4, <1>5, <1>6

LEMMA StartGoing ==
  ASSUME TypeOK, InOrder, Going, NEW c \in Callers, StartRecording(c)
  PROVE  Going'
<1>0. UNCHANGED <<queue, past, src, rejected, paused>>
  BY EditsChange DEF StartRecording, jitbuf
<1>1. CASE OpenFails
  BY <1>1 DEF OpenFails, Rec!AttachFails, Going
<1>2. CASE Rec!Attach(Len(recordings) + 1) /\ since' = Append(since, src) /\ given' = << >>
  <2>1. recSub' = Len(recordings) + 1 /\ since'[recSub'] = src
    <3>1. since \in Seq(Nat) /\ src \in Nat /\ Len(since) = Len(recordings)
      BY DEF TypeOK
    <3> QED
      BY <1>2, <3>1, AppendProperties DEF Rec!Attach
  <2>2. Chain(queue, Less) /\ \A i \in 1 .. Len(queue) : queue[i] <= src
    BY DEF InOrder
  <2>3. Chain(queue, Successors(recSub)')
    <3> SUFFICES ASSUME NEW i \in 1 .. Len(queue) - 1
                 PROVE  <<queue[i], queue[i + 1]>> \in Successors(recSub)'
      BY DEF Chain
    <3>1. i + 1 \in 1 .. Len(queue) /\ i \in 1 .. Len(queue)
      BY GoingType
    <3>2. <<queue[i], queue[i + 1]>> \in Less /\ queue[i + 1] \in Nat /\ ~(queue[i + 1] > src)
      BY <2>2, <3>1, GoingType, ElementOfSeq, SMTT(30) DEF Chain
    <3>3. <<queue[i], queue[i + 1]>>[2] = queue[i + 1]
      OBVIOUS
    <3> QED
      BY <2>1, <3>2, <3>3, Zenon DEF Successors, Less
  <2>4. \A i \in 1 .. Len(past) : past[i] <= src
    BY DEF InOrder
  <2>5. past # << >> => Head(queue) <= src
    <3>1. past # << >> => queue # << >>
      BY DEF InOrder
    <3> QED
      BY <2>2, <3>1, GoingType
  <2> QED
    BY <1>0, <1>2, <2>1, <2>3, <2>4, <2>5, ChainStart DEF Going
<1> QED
  BY <1>1, <1>2 DEF StartRecording

LEMMA GoingStep ==
  ASSUME SafeInv, PausesInv, Opened, InOrder, Coming, Going, Next
  PROVE  Going'
<1>0. TypeOK
  BY DEF SafeInv
<1>1. CASE Moves \/ SourceFrame \/ HlsPush \/ RecPush \/ Record
  <2>1. UNCHANGED <<queue, past, given, recSub, since, rejected, paused>>
    BY <1>0, <1>1, MovesChange DEF SourceFrame, HlsPush, RecPush, Record, rec, jitbuf, history, records
  <2> QED
    BY <2>1, GoingUnchanged
<1>2. ASSUME NEW c \in Callers, Calling(c) \/ Attach(c) \/ Resume(c) PROVE Going'
  <2>1. UNCHANGED <<queue, past, given, recSub, since, rejected>> /\ (paused' => paused)
    BY <1>0, <1>2, CallingChange DEF Attach, Resume, rec, jitbuf, history, records
  <2> QED
    BY <2>1, GoingUnchanged
<1>3. ASSUME NEW c \in Callers, Insert(c) PROVE Going'
  <2>1. recSub = NoSubgraph /\ recSub' = recSub
    BY <1>3 DEF Insert, CallerGoes, Opened, rec
  <2> QED
    BY <2>1 DEF Going
<1>4. ASSUME NEW c \in Callers, Pause(c) PROVE Going'
  <2>1. UNCHANGED <<queue, past, given, recSub, since, rejected>>
    BY <1>4 DEF Pause, rec, records
  <2>2. cpc[c] = "pause" /\ (hlsSub = NoSubgraph \/ recSub = NoSubgraph)
    BY <1>4 DEF Pause, CallerGoes, PausesInv, Calls
  <2>3. recSub = NoSubgraph \/ UNCHANGED paused
    BY <1>4, <2>2 DEF Pause, Hls!Attached
  <2>4. CASE recSub = NoSubgraph
    BY <2>1, <2>4 DEF Going
  <2> QED
    BY <2>1, <2>3, <2>4, GoingUnchanged
<1>5. ASSUME NEW c \in Callers, DetachRecorder(c) PROVE Going'
  <2>1. UNCHANGED <<queue, past, since, rejected, paused>>
    BY <1>5 DEF DetachRecorder, Detaches, jitbuf
  <2>2. recSub' = NoSubgraph \/ UNCHANGED <<recSub, given>>
    BY <1>5 DEF DetachRecorder, Detaches, Rec!Detach
  <2>3. CASE recSub' = NoSubgraph
    BY <2>3 DEF Going
  <2> QED
    BY <2>1, <2>2, <2>3, GoingUnchanged
<1> QED
  BY <1>0, <1>1, <1>2, <1>3, <1>4, <1>5, FlowCases, RejectGoing, AcceptGoing, HoldGoing, ReturnGoing, StartGoing

(***************************************************************************)
(* The recordings                                                          *)
(***************************************************************************)
LEMMA ContiguousStep ==
  ASSUME SafeInv, EveryFrameRecorded', Contiguous, Going', Next
  PROVE  Contiguous'
<1>0. TypeOK /\ TypeOK'
  <2>1. TypeOK'
    BY ProducerType, CallerStepType DEF Next, SafeInv
  <2> QED
    BY <2>1 DEF SafeInv
<1>1. CASE Moves \/ SourceFrame \/ HlsPush \/ JitterHoldsBack \/ JitterReturns \/ LimiterAccepts \/ RecPush
           \/ \E c \in Callers : \/ Calling(c) \/ Insert(c) \/ Attach(c) \/ DetachRecorder(c)
                                 \/ Resume(c) \/ Pause(c)
  <2>1. UNCHANGED <<recordings, since, rejected>>
    BY <1>0, <1>1, MovesChange, CallingChange DEF SourceFrame, HlsPush, JitterHoldsBack, JitterReturns,
       LimiterAccepts, RecPush, Insert, Attach, DetachRecorder, Detaches, Resume, Pause, history, records
  <2> QED
    BY <2>1 DEF Contiguous, Chain, Successors, Less
<1>2. CASE LimiterRejects
  <2>1. UNCHANGED <<recordings, since>> /\ rejected \subseteq rejected'
    BY <1>2 DEF LimiterRejects, records
  <2>2. \A r : Successors(r) \subseteq Successors(r)'
    BY <2>1 DEF Successors, Less
  <2> QED
    BY <2>1, <2>2 DEF Contiguous, Chain
<1>3. CASE Record
  <2>1. UNCHANGED <<since, rejected, recSub>> /\ recSub # NoSubgraph /\ ppc' = "record"
    BY <1>3 DEF Record, ProducerGoes, Rec!Attached
  <2>2. recSub \in 1 .. Len(recordings)
    BY <1>0, <2>1, RecordingType
  <2>3. /\ Len(recordings') = Len(recordings)
        /\ \A r \in 1 .. Len(recordings) : r # recSub => recordings'[r] = recordings[r]
    <3>1. recordings \in Seq(Seq(Nat)) /\ DOMAIN recordings = 1 .. Len(recordings)
      BY <1>0, LenProperties DEF TypeOK
    <3>2. Len(recordings') = Len(recordings)
      <4>1. Len(since') = Len(recordings') /\ Len(since) = Len(recordings)
        BY <1>0 DEF TypeOK
      <4> QED
        BY <2>1, <4>1
    <3> QED
      BY <1>3, <2>2, <3>1, <3>2 DEF Record
  <2>4. Chain(recordings'[recSub], Successors(recSub)')
    <3>1. recordings'[recSub] \in Seq(Nat) /\ recFrames' \in Seq(Nat)
      BY <1>0, <2>2, <2>3, ElementOfSeq DEF TypeOK
    <3>2. OnItsWay' = << >> /\ recordings'[recSub] \o recFrames' \in Seq(Nat)
      BY <2>1, <3>1, ConcatProperties DEF OnItsWay
    <3>3. given' = recordings'[recSub] \o recFrames'
      BY <2>1, <3>2, ConcatEmptySeq DEF EveryFrameRecorded, Rec!Attached
    <3>4. Chain(given', Successors(recSub)')
      BY <2>1 DEF Going
    <3> QED
      BY <3>1, <3>3, <3>4, ChainPrefix
  <2>5. \A r : Successors(r)' = Successors(r)
    BY <2>1 DEF Successors, Less
  <2> QED
    BY <2>1, <2>3, <2>4, <2>5 DEF Contiguous
<1>4. ASSUME NEW c \in Callers, StartRecording(c) PROVE Contiguous'
  <2>1. UNCHANGED rejected
    BY <1>0, <1>4, EditsChange
  <2>2. CASE UNCHANGED records
    BY <2>1, <2>2 DEF records, Contiguous, Chain, Successors, Less
  <2>3. CASE recordings' = Append(recordings, << >>) /\ since' = Append(since, src)
    <3>1. /\ recordings \in Seq(Seq(Nat)) /\ since \in Seq(Nat) /\ src \in Nat /\ << >> \in Seq(Nat)
          /\ Len(since) = Len(recordings) /\ Len(recordings) \in Nat
      BY <1>0, EmptySeq, LenProperties DEF TypeOK
    <3>2. /\ Len(recordings') = Len(recordings) + 1 /\ recordings'[Len(recordings) + 1] = << >>
          /\ \A r \in 1 .. Len(recordings) : recordings'[r] = recordings[r] /\ since'[r] = since[r]
      BY <2>3, <3>1, AppendProperties
    <3>3. \A r \in 1 .. Len(recordings) : Successors(r)' = Successors(r)
      BY <2>1, <3>2 DEF Successors, Less
    <3>4. \A r \in 1 .. Len(recordings') : r \in 1 .. Len(recordings) \/ r = Len(recordings) + 1
      BY <3>1, <3>2
    <3> QED
      BY <3>2, <3>3, <3>4, ChainStart DEF Contiguous
  <2> QED
    BY <1>4, <2>2, <2>3 DEF StartRecording
<1> QED
  BY <1>0, <1>1, <1>2, <1>3, <1>4, FlowCases

THEOREM FlowInvHolds == Spec => []FlowInv
<1>1. Init => FlowInv
  <2> SUFFICES ASSUME Init PROVE FlowInv
    OBVIOUS
  <2>1. hlsSub = NoSubgraph /\ recSub = NoSubgraph /\ hlsFrames = << >>
    BY DEF Init, Hls!Init, Rec!Init
  <2>2. /\ queue = << >> /\ past = << >> /\ hand = Excess /\ recordings = << >>
        /\ \A c \in Callers : cpc[c] = "idle"
    BY DEF Init
  <2>3. Len(queue) = 0 /\ Len(past) = 0 /\ Len(hlsFrames) = 0 /\ Len(recordings) = 0
    BY <2>1, <2>2
  <2> QED
    BY <2>1, <2>2, <2>3, ChainStart DEF FlowInv, Opened, InOrder, Coming, HandIsNew, FramesAreNew,
       NoneMissing, Present, Going, Contiguous
<1>2. FlowInv /\ UNCHANGED vars => FlowInv'
  <2> SUFFICES ASSUME FlowInv, UNCHANGED vars PROVE FlowInv'
    OBVIOUS
  <2>1. UNCHANGED <<hlsSub, hlsFrames, recSub, paused, queue, past, src, hand, ppc, cpc, recordings,
                    since, given, rejected>>
    BY DEF vars, hls, rec, jitbuf, reader, calls, history, records
  <2>2. Opened' /\ InOrder'
    BY <2>1 DEF FlowInv, Opened, InOrder, Chain, Less
  <2>3. Coming'
    BY <2>1, ComingUnchanged DEF FlowInv, Newest
  <2>4. Going' /\ Contiguous'
    BY <2>1, GoingUnchanged DEF FlowInv, Contiguous, Chain, Successors, Less
  <2> QED
    BY <2>2, <2>3, <2>4 DEF FlowInv
<1>3. SafeInv /\ PausesInv /\ EveryFrameRecorded' /\ FlowInv /\ Next => FlowInv'
  BY OpenedStep, InOrderStep, ComingStep, GoingStep, ContiguousStep DEF FlowInv, SafeInv
<1>4. SafeInv /\ PausesInv /\ EveryFrameRecorded' /\ FlowInv /\ [Next]_vars => FlowInv'
  BY <1>2, <1>3
<1> QED
  BY <1>1, <1>4, SafeInvHolds, PausesInvHolds, EveryFrameRecordedHolds, PTL DEF Spec

LEMMA ContiguousIsEnough ==
  ASSUME TypeOK, Contiguous
  PROVE  RecordingsContiguous
<1> SUFFICES ASSUME NEW r \in 1 .. Len(recordings), NEW i \in 2 .. Len(recordings[r])
             PROVE  /\ recordings[r][i - 1] < recordings[r][i]
                    /\ recordings[r][i] > since[r] =>
                         recordings[r][i - 1] + 1 .. recordings[r][i] - 1 \subseteq rejected
  BY DEF RecordingsContiguous
<1>1. recordings[r] \in Seq(Nat)
  BY ElementOfSeq DEF TypeOK
<1>2. Len(recordings[r]) \in Nat
  BY <1>1, LenProperties
<1>3. /\ i - 1 \in 1 .. Len(recordings[r]) - 1 /\ (i - 1) + 1 = i
      /\ i - 1 \in 1 .. Len(recordings[r]) /\ i \in 1 .. Len(recordings[r])
  BY <1>2
<1>4. <<recordings[r][i - 1], recordings[r][(i - 1) + 1]>> \in Successors(r)
  BY <1>3 DEF Contiguous, Chain
<1>5. recordings[r][i - 1] \in Nat /\ recordings[r][i] \in Nat
  BY <1>1, <1>3, ElementOfSeq
<1> QED
  BY <1>3, <1>4, <1>5, SuccessorsAre

\* Every recording is what the jitter buffer returned, begins in the past and goes on without a
\* gap, for any number of callers, frames, recordings and pauses.
THEOREM RecordingsExactHolds == Spec => []RecordingsExact
<1>1. SafeInv /\ FlowInv => RecordingsContiguous
  BY ContiguousIsEnough DEF SafeInv, FlowInv
<1> QED
  BY <1>1, SafeInvHolds, FlowInvHolds, EveryFrameRecordedHolds, PTL DEF RecordingsExact
=============================================================================
