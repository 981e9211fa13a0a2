------------------------ MODULE ThreadConnectorProofs ------------------------
(***************************************************************************)
(* Proofs about the thread connector, for every number of clients, every   *)
(* source, every queue size and every setting of its parameters.           *)
(***************************************************************************)
EXTENDS ThreadConnector, SequenceTheorems, FiniteSetTheorems, WellFoundedInduction, TLAPS

(***************************************************************************)
(* Facts about the operators on the queue.                                 *)
(***************************************************************************)

LEMMA PositionsLemma ==
  /\ Len(Source) \in Nat
  /\ Positions \subseteq Nat
  /\ \A i \in Positions : Source[i].pts \in Nat /\ Source[i].media \in {"video", "audio"}
  /\ \A f \in Frames : Pts(f) \in Nat
<1>1. Len(Source) \in Nat
  BY SourceAssumption, LenProperties
<1>2. \A i \in Positions : Source[i] \in [pts : Nat, media : {"video", "audio"}]
  BY SourceAssumption, ElementOfSeq DEF Positions
<1> QED
  BY <1>1, <1>2 DEF Positions, Frames, Pts

\* Removing one frame leaves a queue that is one shorter; the frames before it
\* keep their place and the others move up.
LEMMA WithoutLemma ==
  ASSUME queue \in Seq(Frames), NEW i \in DOMAIN queue
  PROVE  /\ Without(i) \in Seq(Frames)
         /\ Len(Without(i)) = Len(queue) - 1
         /\ \A k \in 1 .. Len(queue) - 1 :
              Without(i)[k] = queue[IF k < i THEN k ELSE k + 1]
<1>1. Len(queue) \in Nat /\ DOMAIN queue = 1 .. Len(queue)
  BY LenProperties
<1>2. \A k \in 1 .. Len(queue) - 1 : queue[IF k < i THEN k ELSE k + 1] \in Frames
  BY <1>1, ElementOfSeq
<1>3. Len(queue) - 1 \in Nat
  BY <1>1
<1> QED
  BY <1>1, <1>2, <1>3 DEF Without

\* Removing the first n frames.
LEMMA FlushLemma ==
  ASSUME queue \in Seq(Frames), NEW n \in 0 .. Len(queue)
  PROVE  /\ SubSeq(queue, n + 1, Len(queue)) \in Seq(Frames)
         /\ Len(SubSeq(queue, n + 1, Len(queue))) = Len(queue) - n
         /\ \A i \in 1 .. Len(queue) - n :
              SubSeq(queue, n + 1, Len(queue))[i] = queue[i + n]
<1>1. Len(queue) \in Nat /\ n \in Nat
  BY LenProperties
<1>2. \A i \in n + 1 .. Len(queue) : queue[i] \in Frames
  BY <1>1, ElementOfSeq
<1> QED
  BY <1>1, <1>2, SubSeqProperties

(***************************************************************************)
(* Type correctness.  It is not inductive by itself: a deposit needs a     *)
(* frame in the producer's hand.                                           *)
(***************************************************************************)
TypeInv == TypeOK /\ (hand # 0 <=> ppc = "deposit")

LEMMA TypeInit == Init => TypeInv
<1> SUFFICES ASSUME Init PROVE TypeInv
  OBVIOUS
<1>1. queue \in Seq(Frames)
  BY EmptySeq DEF Init
<1>2. hand \in 0 .. Len(Source) /\ src \in 0 .. Len(Source) /\ frontier \in 0 .. Len(Source)
  BY PositionsLemma DEF Init
<1>3. seeks \in 0 .. MaxSeeks
  BY LimitsAssumption DEF Init
<1>4. cpc \in [Clients -> ClientPCs] /\ ppc \in ProducerPCs
  BY DEF Init, ClientPCs, ProducerPCs
<1>5. framesInQueue \in Int /\ lastPtsInQueue \in Int /\ lastPtsRead \in Int
  BY DEF Init, InvalidPts
<1> QED
  BY <1>1, <1>2, <1>3, <1>4, <1>5 DEF Init, TypeInv, TypeOK

LEMMA TypeStep == TypeInv /\ [Next]_vars => TypeInv'
<1> SUFFICES ASSUME TypeInv, [Next]_vars PROVE TypeInv'
  OBVIOUS
<1> USE DEF TypeInv, TypeOK, ProducerPCs, ClientPCs, ReadPCs, ClosePCs, locks, counts, history,
            ProducerGoes, ClientGoes
<1>1. CASE UNCHANGED vars
  BY <1>1 DEF vars
<1>2. CASE LockForRead
  BY <1>2 DEF LockForRead
<1>3. CASE CheckRunning
  BY <1>3 DEF CheckRunning
<1>4. CASE SourceFrame
  BY <1>4, PositionsLemma DEF SourceFrame, SourceHasMore
<1>5. CASE SourceEof \/ SourceError \/ MarkEof \/ Unlock \/ EofSignal
  <2>1. CASE SourceEof \/ SourceError
    BY <2>1 DEF SourceEof, SourceError
  <2>2. CASE MarkEof
    BY <2>2 DEF MarkEof
  <2>3. CASE Unlock \/ EofSignal
    BY <2>3 DEF Unlock, EofSignal, WakeReader
  <2> QED
    BY <1>5, <2>1, <2>2, <2>3
<1>6. CASE EofWait \/ EnoughSpace \/ NoSpace \/ FullWait \/ Exit
  <2>1. CASE EofWait \/ Exit
    BY <2>1 DEF EofWait, Exit, WakeReader
  <2>2. CASE EnoughSpace
    BY <2>2 DEF EnoughSpace
  <2>3. CASE NoSpace \/ FullWait
    BY <2>3 DEF NoSpace, FullWait, WakeReader
  <2> QED
    BY <1>6, <2>1, <2>2, <2>3
<1>7. CASE Deposit
  <2>1. PICK rejected \in BOOLEAN :
          /\ rejected => FpsLimited /\ Source[hand].media = "video"
          /\ IF Discards(rejected)
             THEN UNCHANGED <<queue, event>>
             ELSE /\ queue' = PushedBack(Deposited(rejected))
                  /\ event' = (event \/ WakesReader)
          /\ IF Source[hand].media = "video" /\ ~rejected
             THEN /\ framesInQueue' = framesInQueue + 1
                  /\ lastPtsInQueue' = IF Source[hand].pts > lastPtsInQueue
                                       THEN Source[hand].pts ELSE lastPtsInQueue
             ELSE UNCHANGED <<framesInQueue, lastPtsInQueue>>
    BY <1>7 DEF Deposit
  <2>2. hand \in Positions
    BY <1>7 DEF Deposit, Positions
  <2>3. Deposited(rejected) \in Frames
    BY <2>2, PositionsLemma DEF Deposited, Frames, Media
  <2>4. PushedBack(Deposited(rejected)) \in Seq(Frames)
    BY <2>3, AppendProperties DEF PushedBack
  <2>5. Source[hand].pts \in Int
    BY <2>2, PositionsLemma
  <2>6. queue' \in Seq(Frames) /\ event' \in BOOLEAN
    BY <2>1, <2>4 DEF WakesReader
  <2>7. framesInQueue' \in Int /\ lastPtsInQueue' \in Int
    BY <2>1, <2>5
  <2> QED
    BY <1>7, <2>6, <2>7, PositionsLemma DEF Deposit
<1>8. CASE DropFrame
  BY <1>8, WithoutLemma DEF DropFrame
<1>9. ASSUME NEW c \in Clients, Client(c) PROVE TypeInv'
  <2>1. CASE Open(c)
    BY <1>9, <2>1, LimitsAssumption DEF Open, InvalidPts
  <2>2. CASE BeginRead(c)
    BY <1>9, <2>2, LimitsAssumption DEF BeginRead, MayCall
  <2>3. CASE BeginSeek(c)
    BY <1>9, <2>3, LimitsAssumption DEF BeginSeek, MayCall
  <2>4. CASE BeginEdit(c)
    BY <1>9, <2>4, LimitsAssumption DEF BeginEdit, MayCall
  <2>5. CASE BeginClose(c)
    BY <1>9, <2>5, LimitsAssumption DEF BeginClose, MayCall
  <2>6. CASE ReadState(c)
    BY <1>9, <2>6, LimitsAssumption DEF ReadState
  <2>7. CASE SeekLock(c)
    BY <1>9, <2>7, LimitsAssumption DEF SeekLock
  <2>8. CASE EditLock(c)
    BY <1>9, <2>8, LimitsAssumption DEF EditLock
  <2>9. CASE CloseMark(c)
    BY <1>9, <2>9, LimitsAssumption DEF CloseMark
  <2>10. CASE PopEmpty(c)
    BY <1>9, <2>10, LimitsAssumption, ZenonT(30) DEF PopEmpty
  <2>11. CASE WaitFrame(c)
    BY <1>9, <2>11, LimitsAssumption DEF WaitFrame
  <2>12. CASE WaitTimeout(c)
    BY <1>9, <2>12, LimitsAssumption DEF WaitTimeout
  <2>13. CASE RecheckEof(c)
    BY <1>9, <2>13, LimitsAssumption DEF RecheckEof, Refilled
  <2>14. CASE EditUnlock(c)
    BY <1>9, <2>14, LimitsAssumption DEF EditUnlock
  <2>15. CASE CloseSignal(c)
    BY <1>9, <2>15, LimitsAssumption DEF CloseSignal, ReleaseProducer
  <2>16. CASE CloseJoin(c)
    BY <1>9, <2>16, LimitsAssumption DEF CloseJoin, ThreadFinished
  <2>17. CASE CloseFlush(c)
    BY <1>9, <2>17, LimitsAssumption DEF CloseFlush
  <2>18. CASE PopFrame(c)
    <3>1. Head(queue) \in Frames /\ Tail(queue) \in Seq(Frames)
      BY <2>18, HeadTailProperties DEF PopFrame
    <3>2. Head(queue).idx \in 0 .. Len(Source) /\ Pts(Head(queue)) \in Int
      BY <3>1, PositionsLemma DEF Frames, Positions
    <3> QED
      BY <2>18, <3>1, <3>2, SMTT(30) DEF PopFrame, ReleaseProducer
  <2>19. CASE Seek(c)
    <3>1. PICK p \in Offsets :
            IF IsRunning THEN SeekInQueue(p) \/ SeekSource(p)
                         ELSE UNCHANGED <<state, src, queue, counts, frontier>>
      BY <2>19 DEF Seek
    <3>2. /\ cpc' \in [Clients -> ClientPCs]
          /\ queueEvent' = TRUE /\ wrHolder' = NoClient
          /\ UNCHANGED <<ppc, hand, eof, event, rdHeld, seeks>>
      BY <2>19 DEF Seek, ReleaseProducer
    <3>3. CASE ~IsRunning
      BY <3>1, <3>2, <3>3
    <3>4. CASE SeekInQueue(p)
      <4>1. PICK n \in 0 .. Len(queue) :
              /\ queue' = SubSeq(queue, n + 1, Len(queue))
              /\ framesInQueue' = framesInQueue - n
              /\ frontier' = IF n = 0 THEN frontier ELSE queue[n].idx
        BY <3>4 DEF SeekInQueue
      <4>2. n # 0 => queue[n].idx \in 0 .. Len(Source)
        <5> SUFFICES ASSUME n # 0 PROVE queue[n].idx \in 0 .. Len(Source)
          OBVIOUS
        <5>1. n \in 1 .. Len(queue)
          BY LenProperties
        <5>2. queue[n] \in Frames
          BY <5>1, ElementOfSeq
        <5> QED
          BY <5>2, PositionsLemma DEF Frames, Positions
      <4>3. queue' \in Seq(Frames)
        BY <4>1, FlushLemma
      <4>4. framesInQueue' \in Int /\ frontier' \in 0 .. Len(Source)
        BY <4>1, <4>2, LenProperties
      <4> QED
        BY <3>2, <3>4, <4>3, <4>4 DEF SeekInQueue
    <3>5. CASE SeekSource(p)
      BY <3>2, <3>5, EmptySeq DEF SeekSource, InvalidPts
    <3> QED
      BY <3>1, <3>3, <3>4, <3>5
  <2> QED
    BY <1>9, <2>1, <2>2, <2>3, <2>4, <2>5, <2>6, <2>7, <2>8, <2>9, <2>10, <2>11, <2>12, <2>13, <2>14, <2>15, <2>16, <2>17, <2>18, <2>19 DEF Client, Begin, ClientLocks, ClientSteps
<1> QED
  BY <1>1, <1>2, <1>3, <1>4, <1>5, <1>6, <1>7, <1>8, <1>9
     DEF Next, Producer, ProducerLocks, ProducerSteps

\* Every variable of the connector keeps its type: in particular the producer
\* and every client are at a place of the code, and every queued frame is one of
\* the source's.
THEOREM TypeCorrect == Spec => []TypeOK
<1>1. TypeInv => TypeOK
  BY DEF TypeInv
<1> QED
  BY <1>1, TypeInit, TypeStep, PTL DEF Spec

(***************************************************************************)
(* Control: who holds streamLock, and what the places of the threads say   *)
(* about the state of the stream and the frame in hand.                    *)
(***************************************************************************)
LockInv ==
  /\ rdHeld <=> ppc \in {"read", "deposit", "eofmark", "unlock"}
  /\ rdHeld => wrHolder = NoClient
  /\ \A c \in Clients : cpc[c] \in {"k_seek", "e_edit"} => wrHolder = c

StateInv ==
  /\ ppc \in {"read", "deposit"} => state = "running"
  /\ ppc = "eofmark" => state \in {"running", "eof"}
  /\ hand # 0 => hand = src
  /\ \A c \in Clients :
       /\ cpc[c] \in {"c_signal", "c_join", "c_flush"} => state = "closing"
       /\ cpc[c] = "c_flush" => ppc \in {"off", "done"}

ControlInv == TypeInv /\ LockInv /\ StateInv

LEMMA ControlInit == Init => ControlInv
  BY TypeInit DEF Init, ControlInv, LockInv, StateInv

LEMMA ControlStep == ControlInv /\ [Next]_vars => ControlInv'
<1> SUFFICES ASSUME ControlInv, [Next]_vars PROVE LockInv' /\ StateInv'
  BY TypeStep DEF ControlInv
<1>0. TypeInv /\ TypeInv'
  BY TypeStep DEF ControlInv
<1> USE <1>0, ClientsAssumption DEF ControlInv, LockInv, StateInv, locks, history, ProducerGoes, ClientGoes
<1>1. CASE UNCHANGED vars
  BY <1>1 DEF vars
<1>2. CASE LockForRead
  BY <1>2 DEF LockForRead, CanLockRead
<1>3. CASE CheckRunning
  BY <1>3 DEF CheckRunning
<1>4. CASE SourceFrame
  BY <1>4 DEF SourceFrame
<1>5. CASE SourceEof \/ SourceError \/ EofSignal
  BY <1>5 DEF SourceEof, SourceError, EofSignal, TypeInv
<1>6. CASE MarkEof
  BY <1>6 DEF MarkEof, IsRunning, TypeInv
<1>7. CASE Unlock
  BY <1>7 DEF Unlock
<1>8. CASE EofWait \/ EnoughSpace \/ NoSpace \/ FullWait \/ Exit
  BY <1>8 DEF EofWait, EnoughSpace, NoSpace, FullWait, Exit
<1>9. CASE Deposit
  BY <1>9 DEF Deposit
<1>10. CASE DropFrame
  BY <1>10 DEF DropFrame
<1>11. ASSUME NEW c \in Clients, Client(c) PROVE LockInv' /\ StateInv'
  <2> USE <1>11 DEF TypeInv, TypeOK
  <2>1. CASE Open(c)
    BY <2>1 DEF Open
  <2>2. CASE Begin(c)
    BY <2>2 DEF Begin, BeginRead, BeginSeek, BeginEdit, BeginClose, MayCall
  <2>3. CASE ReadState(c)
    BY <2>3 DEF ReadState
  <2>4. CASE SeekLock(c) \/ EditLock(c)
    BY <2>4 DEF SeekLock, EditLock, CanLockWrite
  <2>5. CASE CloseMark(c)
    BY <2>5 DEF CloseMark, CanLockWrite
  <2>6. CASE PopFrame(c) \/ PopEmpty(c)
    BY <2>6 DEF PopFrame, PopEmpty
  <2>7. CASE WaitFrame(c) \/ WaitTimeout(c) \/ RecheckEof(c)
    BY <2>7 DEF WaitFrame, WaitTimeout, RecheckEof
  <2>8. CASE EditUnlock(c) \/ CloseSignal(c) \/ CloseJoin(c) \/ CloseFlush(c)
    BY <2>8 DEF EditUnlock, CloseSignal, CloseJoin, CloseFlush, ThreadFinished
  <2>9. CASE Seek(c)
    <3>1. wrHolder = c /\ ~rdHeld /\ hand = 0
      BY <2>9 DEF Seek
    <3>2. /\ ppc' = ppc /\ hand' = hand /\ rdHeld' = rdHeld /\ wrHolder' = NoClient
          /\ cpc[c] = "k_seek" /\ cpc' = [cpc EXCEPT ![c] = "idle"]
      BY <2>9 DEF Seek
    <3>3. LockInv'
      BY <3>1, <3>2
    <3>4. state' = state \/ (IsRunning /\ state' = "running")
      BY <2>9 DEF Seek, SeekInQueue, SeekSource
    <3> QED
      BY <3>1, <3>2, <3>3, <3>4 DEF IsRunning
  <2> QED
    BY <2>1, <2>2, <2>3, <2>4, <2>5, <2>6, <2>7, <2>8, <2>9
       DEF Client, ClientLocks, ClientSteps
<1> QED
  BY <1>1, <1>2, <1>3, <1>4, <1>5, <1>6, <1>7, <1>8, <1>9, <1>10, <1>11
     DEF Next, Producer, ProducerLocks, ProducerSteps

\* The upstream graph is edited or repositioned by one client at a time, and
\* never while the producer reads from it or carries a frame to the queue.
THEOREM GraphChangesAloneHolds == Spec => []GraphChangesAlone
<1>1. ControlInv => GraphChangesAlone
  BY ClientsAssumption DEF ControlInv, TypeInv, LockInv, GraphChangesAlone
<1> QED
  BY <1>1, ControlInit, ControlStep, PTL DEF Spec

(***************************************************************************)
(* The order of the frames.  QueueInOrder needs that the last frame given  *)
(* to the reader is not beyond the source, nor the frame in hand; and      *)
(* NothingLost is inductive once it says which frame is at which place.    *)
(***************************************************************************)
OrderInv ==
  /\ frontier <= src
  /\ hand # 0 => frontier < hand
  /\ QueueInOrder

PlaceInv ==
  Lossless =>
    /\ src - frontier = Len(queue) + (IF hand = 0 THEN 0 ELSE 1)
    /\ \A i \in DOMAIN queue : queue[i].idx = frontier + i

FrameInv == ControlInv /\ OrderInv /\ PlaceInv

LEMMA FrameInit == Init => FrameInv
<1> SUFFICES ASSUME Init PROVE FrameInv
  OBVIOUS
<1>1. queue = << >> /\ DOMAIN queue = {} /\ Len(queue) = 0
  BY DEF Init
<1> QED
  BY <1>1, ControlInit DEF Init, FrameInv, OrderInv, PlaceInv, QueueInOrder

\* What the type invariant says about the queue, ready to use.
LEMMA QueueShape ==
  ASSUME TypeOK
  PROVE  /\ queue \in Seq(Frames)
         /\ Len(queue) \in Nat /\ DOMAIN queue = 1 .. Len(queue)
         /\ \A i \in 1 .. Len(queue) : queue[i] \in Frames /\ queue[i].idx \in Nat
         /\ hand \in Nat /\ src \in Nat /\ frontier \in Nat
<1>1. queue \in Seq(Frames) /\ hand \in Nat /\ src \in Nat /\ frontier \in Nat
  BY PositionsLemma DEF TypeOK
<1>2. Len(queue) \in Nat /\ DOMAIN queue = 1 .. Len(queue)
  BY <1>1, LenProperties
<1>3. \A i \in 1 .. Len(queue) : queue[i] \in Frames
  BY <1>1, <1>2, ElementOfSeq
<1>4. \A f \in Frames : f.idx \in Nat
  BY PositionsLemma DEF Frames
<1> QED
  BY <1>1, <1>2, <1>3, <1>4

\* OrderInv and PlaceInv once the queue is a function on 1 .. Len(queue).
LEMMA OrderShape ==
  ASSUME TypeOK, OrderInv
  PROVE  /\ frontier <= src
         /\ hand # 0 => hand = src /\ frontier < hand
         /\ \A i \in 1 .. Len(queue) :
              frontier < queue[i].idx /\ queue[i].idx <= src /\ (hand # 0 => queue[i].idx < hand)
         /\ \A i, j \in 1 .. Len(queue) : i < j => queue[i].idx < queue[j].idx
  BY QueueShape DEF OrderInv, QueueInOrder

\* Steps that move no frame.
LEMMA FrameUnchanged ==
  ASSUME FrameInv, UNCHANGED <<queue, hand, src, frontier>>
  PROVE  OrderInv' /\ PlaceInv'
BY DEF FrameInv, OrderInv, PlaceInv, QueueInOrder

LEMMA DepositKeepsOrder ==
  ASSUME FrameInv, FrameInv => TypeInv', Deposit
  PROVE  OrderInv' /\ PlaceInv'
<1>1. /\ queue \in Seq(Frames) /\ hand \in Nat /\ src \in Nat /\ frontier \in Nat
      /\ Len(queue) \in Nat /\ DOMAIN queue = 1 .. Len(queue)
  BY PositionsLemma, LenProperties DEF FrameInv, ControlInv, TypeInv, TypeOK
<1>2. hand # 0 /\ hand = src /\ hand' = 0 /\ src' = src /\ frontier' = frontier
  BY DEF Deposit, ProducerGoes, FrameInv, ControlInv, TypeInv, StateInv, history
<1>3. PICK rejected \in BOOLEAN :
        IF Discards(rejected)
        THEN /\ queue' = queue
             /\ rejected => FpsLimited
        ELSE queue' = Append(queue, Deposited(rejected))
  BY DEF Deposit, PushedBack
<1>4. CASE Discards(rejected)
  <2>1. queue' = queue /\ ~Lossless
    BY <1>3, <1>4 DEF Discards, Lossless
  <2> QED
    BY <1>1, <1>2, <2>1 DEF FrameInv, OrderInv, PlaceInv, QueueInOrder
<1>5. CASE ~Discards(rejected)
  <2>1. Deposited(rejected) \in Frames /\ Deposited(rejected).idx = hand
    <3>1. hand \in Positions
      BY <1>1, <1>2, PositionsLemma DEF FrameInv, ControlInv, TypeInv, TypeOK, Positions
    <3> QED
      BY <3>1, PositionsLemma DEF Deposited, Frames, Media
  <2>2. /\ Len(queue') = Len(queue) + 1 /\ DOMAIN queue' = 1 .. Len(queue) + 1
        /\ \A i \in 1 .. Len(queue) : queue'[i] = queue[i]
        /\ queue'[Len(queue) + 1].idx = hand
    BY <1>1, <1>3, <1>5, <2>1, AppendProperties, LenProperties
  <2>3. \A i \in 1 .. Len(queue) : queue[i].idx < hand /\ frontier < queue[i].idx /\ queue[i].idx \in Nat
    BY <1>2, OrderShape, QueueShape DEF FrameInv, ControlInv, TypeInv
  <2>4. OrderInv'
    BY <1>1, <1>2, <2>2, <2>3, SMTT(30) DEF FrameInv, OrderInv, QueueInOrder
  <2>5. PlaceInv'
    BY <1>1, <1>2, <2>2, <2>3 DEF FrameInv, PlaceInv
  <2> QED
    BY <2>4, <2>5
<1> QED
  BY <1>4, <1>5

\* A live stream that drops frame k.
LEMMA DropKeepsOrder ==
  ASSUME FrameInv, DropFrame
  PROVE  OrderInv' /\ PlaceInv'
<1>1. /\ queue \in Seq(Frames)
      /\ Len(queue) \in Nat /\ DOMAIN queue = 1 .. Len(queue)
  BY LenProperties DEF FrameInv, ControlInv, TypeInv, TypeOK
<1>2. ~Lossless /\ ~Lossless'
  BY DEF DropFrame, MayDrop, Lossless
<1>3. UNCHANGED <<hand, src, frontier>>
  BY DEF DropFrame, history
<1>4. CASE queue' = queue
  BY <1>3, <1>4, FrameUnchanged
<1>5. ASSUME NEW k \in DOMAIN queue, queue' = Without(k)
      PROVE  OrderInv'
  <2>1. /\ DOMAIN queue' = 1 .. Len(queue) - 1
        /\ \A i \in 1 .. Len(queue) - 1 : queue'[i] = queue[IF i < k THEN i ELSE i + 1]
    BY <1>1, <1>5, WithoutLemma, LenProperties
  <2>2. /\ hand \in Nat /\ src \in Nat /\ frontier \in Nat
        /\ \A i \in 1 .. Len(queue) : queue[i].idx \in Nat
    BY QueueShape DEF FrameInv, ControlInv, TypeInv
  <2>3. /\ frontier <= src
        /\ hand # 0 => hand = src /\ frontier < hand
        /\ \A i \in 1 .. Len(queue) :
             frontier < queue[i].idx /\ queue[i].idx <= src /\ (hand # 0 => queue[i].idx < hand)
        /\ \A i, j \in 1 .. Len(queue) : i < j => queue[i].idx < queue[j].idx
    BY OrderShape DEF FrameInv, ControlInv, TypeInv
  <2>4. \A i \in DOMAIN queue' :
          frontier < queue'[i].idx /\ queue'[i].idx <= src /\ (hand # 0 => queue'[i].idx < hand)
    <3> TAKE i \in DOMAIN queue'
    <3>1. PICK m \in 1 .. Len(queue) : queue'[i] = queue[m]
      BY <1>1, <2>1
    <3> QED
      BY <2>3, <3>1
  <2>5. \A i, j \in DOMAIN queue' : i < j => queue'[i].idx < queue'[j].idx
    <3> TAKE i, j \in DOMAIN queue'
    <3> HAVE i < j
    <3> DEFINE m == IF i < k THEN i ELSE i + 1
               l == IF j < k THEN j ELSE j + 1
    <3>1. m \in 1 .. Len(queue) /\ l \in 1 .. Len(queue) /\ m < l
      BY <1>1, <2>1
    <3>2. queue'[i] = queue[m] /\ queue'[j] = queue[l]
      BY <2>1
    <3> HIDE DEF m, l
    <3> QED
      BY <2>3, <3>1, <3>2
  <2> QED
    BY <1>3, <2>3, <2>4, <2>5 DEF OrderInv, QueueInOrder
<1> QED
  BY <1>2, <1>4, <1>5 DEF DropFrame, PlaceInv

\* The first n frames leave the queue, to the reader or because a seek skips
\* them.
LEMMA PrefixLeaves ==
  ASSUME FrameInv, NEW n \in 0 .. Len(queue),
         DOMAIN queue' = 1 .. Len(queue) - n, Len(queue') = Len(queue) - n,
         \A i \in 1 .. Len(queue) - n : queue'[i] = queue[i + n],
         frontier' = IF n = 0 THEN frontier ELSE queue[n].idx,
         UNCHANGED <<hand, src>>
  PROVE  OrderInv' /\ PlaceInv'
<1>1. /\ Len(queue) \in Nat /\ DOMAIN queue = 1 .. Len(queue)
      /\ \A i \in 1 .. Len(queue) : queue[i].idx \in Nat
      /\ hand \in Nat /\ src \in Nat /\ frontier \in Nat
  BY QueueShape DEF FrameInv, ControlInv, TypeInv
<1>2. /\ frontier <= src
      /\ hand # 0 => hand = src /\ frontier < hand
      /\ \A i \in 1 .. Len(queue) :
           frontier < queue[i].idx /\ queue[i].idx <= src /\ (hand # 0 => queue[i].idx < hand)
      /\ \A i, j \in 1 .. Len(queue) : i < j => queue[i].idx < queue[j].idx
  BY OrderShape DEF FrameInv, ControlInv, TypeInv
<1>3. n # 0 => n \in 1 .. Len(queue)
  BY <1>1
<1>4. ASSUME NEW i \in DOMAIN queue' PROVE i + n \in 1 .. Len(queue) /\ queue'[i] = queue[i + n]
  <2>1. i \in 1 .. Len(queue) - n
    BY <1>4
  <2>2. i + n \in 1 .. Len(queue)
    BY <1>1, <2>1
  <2> QED
    BY <2>1, <2>2
<1>5. ASSUME NEW i \in DOMAIN queue'
      PROVE  frontier' < queue'[i].idx /\ queue'[i].idx <= src /\ (hand # 0 => queue'[i].idx < hand)
  <2> DEFINE m == i + n
  <2>1. m \in 1 .. Len(queue) /\ queue'[i] = queue[m] /\ (n # 0 => n < m)
    BY <1>1, <1>4, <1>5
  <2> HIDE DEF m
  <2> QED
    BY <1>2, <1>3, <2>1
<1>6. ASSUME NEW i \in DOMAIN queue', NEW j \in DOMAIN queue', i < j
      PROVE  queue'[i].idx < queue'[j].idx
  <2> DEFINE m == i + n
             l == j + n
  <2>1. /\ m \in 1 .. Len(queue) /\ l \in 1 .. Len(queue) /\ m < l
        /\ queue'[i] = queue[m] /\ queue'[j] = queue[l]
    BY <1>1, <1>4, <1>6
  <2> HIDE DEF m, l
  <2> QED
    BY <1>2, <2>1
<1>7. frontier' <= src /\ (hand # 0 => frontier' < hand)
  BY <1>2, <1>3
<1>8. OrderInv'
  BY <1>2, <1>5, <1>6, <1>7 DEF OrderInv, QueueInOrder
<1>9. PlaceInv'
  <2> SUFFICES ASSUME Lossless
               PROVE  /\ src - frontier' = Len(queue') + (IF hand = 0 THEN 0 ELSE 1)
                      /\ \A i \in DOMAIN queue' : queue'[i].idx = frontier' + i
    BY DEF PlaceInv, Lossless
  <2>1. /\ src - frontier = Len(queue) + (IF hand = 0 THEN 0 ELSE 1)
        /\ \A i \in 1 .. Len(queue) : queue[i].idx = frontier + i
    BY <1>1 DEF FrameInv, PlaceInv
  <2>2. frontier' = frontier + n
    BY <1>1, <1>3, <2>1
  <2>3. ASSUME NEW i \in DOMAIN queue' PROVE queue'[i].idx = frontier' + i
    <3> DEFINE m == i + n
    <3>1. m \in 1 .. Len(queue) /\ queue'[i] = queue[m]
      BY <1>4, <2>3
    <3>2. queue[m].idx = frontier + m
      BY <2>1, <3>1
    <3> QED
      BY <1>1, <2>2, <2>3, <3>1, <3>2
  <2> QED
    BY <1>1, <2>1, <2>2, <2>3, SMTT(30)
<1> QED
  BY <1>8, <1>9

LEMMA PopKeepsOrder ==
  ASSUME FrameInv, NEW c \in Clients, PopFrame(c)
  PROVE  OrderInv' /\ PlaceInv'
<1>1. queue \in Seq(Frames) /\ queue # << >> /\ Len(queue) \in Nat \ {0}
  BY QueueShape, EmptySeq DEF PopFrame, FrameInv, ControlInv, TypeInv
<1>2. /\ DOMAIN queue' = 1 .. Len(queue) - 1 /\ Len(queue') = Len(queue) - 1
      /\ \A i \in 1 .. Len(queue) - 1 : queue'[i] = queue[i + 1]
  BY <1>1, HeadTailProperties, LenProperties DEF PopFrame
<1>3. Head(queue) = queue[1]
  BY <1>1
<1>4. frontier' = queue[1].idx /\ UNCHANGED <<hand, src>>
  BY <1>3 DEF PopFrame
<1> QED
  BY <1>1, <1>2, <1>4, PrefixLeaves

LEMMA SeekKeepsOrder ==
  ASSUME FrameInv, TypeInv', NEW c \in Clients, Seek(c)
  PROVE  OrderInv' /\ PlaceInv'
<1>1. /\ queue \in Seq(Frames) /\ src \in Nat /\ frontier \in Nat /\ frontier' \in Nat
      /\ Len(queue) \in Nat /\ DOMAIN queue = 1 .. Len(queue)
  BY PositionsLemma, LenProperties DEF FrameInv, ControlInv, TypeInv, TypeOK
<1>2. hand = 0 /\ hand' = 0
  BY ClientsAssumption DEF Seek, FrameInv, ControlInv, TypeInv, LockInv, ClientGoes
<1>3. PICK p \in Offsets :
        IF IsRunning THEN SeekInQueue(p) \/ SeekSource(p)
                     ELSE UNCHANGED <<state, src, queue, counts, frontier>>
  BY DEF Seek
<1>4. CASE ~IsRunning
  BY <1>2, <1>3, <1>4, FrameUnchanged
<1>5. CASE SeekSource(p)
  <2>1. queue' = << >> /\ Len(queue') = 0 /\ DOMAIN queue' = {} /\ frontier' = src'
    BY <1>5 DEF SeekSource
  <2>2. src' \in Nat
    BY PositionsLemma DEF TypeInv, TypeOK
  <2>3. OrderInv'
    BY <1>2, <2>1, <2>2 DEF OrderInv, QueueInOrder
  <2>4. PlaceInv'
    <3>1. src' - frontier' = Len(queue') + (IF hand' = 0 THEN 0 ELSE 1)
      <4>1. Len(queue') = 0 /\ (IF hand' = 0 THEN 0 ELSE 1) = 0
        BY <1>2, <2>1
      <4>2. src' - frontier' = 0
        <5>1. frontier' = src'
          BY <2>1
        <5>2. \A n \in Nat : n - n = 0
          OBVIOUS
        <5> QED
          BY <2>2, <5>1, <5>2
      <4> QED
        BY <4>1, <4>2
    <3>2. \A i \in DOMAIN queue' : queue'[i].idx = frontier' + i
      BY <2>1
    <3> QED
      BY <3>1, <3>2 DEF PlaceInv
  <2> QED
    BY <2>3, <2>4
<1>6. CASE SeekInQueue(p)
  <2>1. PICK n \in 0 .. Len(queue) :
          /\ queue' = SubSeq(queue, n + 1, Len(queue))
          /\ frontier' = IF n = 0 THEN frontier ELSE queue[n].idx
    BY <1>6 DEF SeekInQueue
  <2>2. UNCHANGED <<hand, src>>
    BY <1>2, <1>6 DEF SeekInQueue
  <2>3. /\ DOMAIN queue' = 1 .. Len(queue) - n /\ Len(queue') = Len(queue) - n
        /\ \A i \in 1 .. Len(queue) - n : queue'[i] = queue[i + n]
    BY <1>1, <2>1, FlushLemma, LenProperties
  <2> QED
    BY <2>1, <2>2, <2>3, PrefixLeaves
<1> QED
  BY <1>3, <1>4, <1>5, <1>6

LEMMA FrameStep == FrameInv /\ [Next]_vars => FrameInv'
<1> SUFFICES ASSUME FrameInv, [Next]_vars PROVE OrderInv' /\ PlaceInv'
  BY ControlStep DEF FrameInv
<1>0. ControlInv /\ ControlInv'
  BY ControlStep DEF FrameInv
<1>1. CASE UNCHANGED vars
  BY <1>1, FrameUnchanged DEF vars, history
<1>2. CASE LockForRead \/ CheckRunning \/ SourceEof \/ SourceError \/ MarkEof \/ Unlock
  BY <1>2, FrameUnchanged
     DEF LockForRead, CheckRunning, SourceEof, SourceError, MarkEof, Unlock, history
<1>3. CASE EofSignal \/ EofWait \/ EnoughSpace \/ NoSpace \/ FullWait \/ Exit
  BY <1>3, FrameUnchanged
     DEF EofSignal, EofWait, EnoughSpace, NoSpace, FullWait, Exit, history
<1>4. CASE SourceFrame
  <2>1. src \in Nat /\ frontier \in Nat /\ hand = 0 /\ hand' = src + 1 /\ src' = src + 1
    BY <1>0, <1>4, PositionsLemma DEF SourceFrame, ControlInv, TypeInv, TypeOK, ProducerGoes
  <2>2. queue' = queue /\ frontier' = frontier
    BY <1>4 DEF SourceFrame, history
  <2>3. /\ Len(queue) \in Nat /\ DOMAIN queue = 1 .. Len(queue)
        /\ \A i \in DOMAIN queue : queue[i].idx \in Nat
    BY <1>0, QueueShape DEF ControlInv, TypeInv
  <2> QED
    BY <2>1, <2>2, <2>3, SMTT(30) DEF FrameInv, OrderInv, PlaceInv, QueueInOrder
<1>5. CASE Deposit
  BY <1>0, <1>5, DepositKeepsOrder DEF ControlInv
<1>6. CASE DropFrame
  BY <1>6, DropKeepsOrder
<1>7. ASSUME NEW c \in Clients, Client(c) PROVE OrderInv' /\ PlaceInv'
  <2>1. CASE Open(c) \/ Begin(c)
    BY <2>1, FrameUnchanged
       DEF Open, Begin, BeginRead, BeginSeek, BeginEdit, BeginClose, history
  <2>2. CASE ReadState(c) \/ SeekLock(c) \/ EditLock(c) \/ CloseMark(c)
    BY <2>2, FrameUnchanged DEF ReadState, SeekLock, EditLock, CloseMark, history
  <2>3. CASE PopEmpty(c) \/ WaitFrame(c) \/ WaitTimeout(c) \/ RecheckEof(c)
    BY <2>3, FrameUnchanged DEF PopEmpty, WaitFrame, WaitTimeout, RecheckEof, history
  <2>4. CASE EditUnlock(c) \/ CloseSignal(c) \/ CloseJoin(c)
    BY <2>4, FrameUnchanged DEF EditUnlock, CloseSignal, CloseJoin, history
  <2>5. CASE PopFrame(c)
    BY <2>5, PopKeepsOrder
  <2>6. CASE Seek(c)
    BY <1>0, <2>6, SeekKeepsOrder DEF ControlInv
  <2>7. CASE CloseFlush(c)
    <3>1. queue' = << >> /\ Len(queue') = 0 /\ DOMAIN queue' = {} /\ frontier' = src /\ src' = src
      BY <2>7 DEF CloseFlush
    <3>2. hand = 0 /\ hand' = 0 /\ src \in Nat
      BY <1>0, <2>7, PositionsLemma
         DEF CloseFlush, ControlInv, StateInv, TypeInv, TypeOK, ClientGoes
    <3> QED
      BY <3>1, <3>2 DEF OrderInv, PlaceInv, QueueInOrder
  <2> QED
    BY <1>7, <2>1, <2>2, <2>3, <2>4, <2>5, <2>6, <2>7 DEF Client, ClientLocks, ClientSteps
<1> QED
  BY <1>1, <1>2, <1>3, <1>4, <1>5, <1>6, <1>7 DEF Next, Producer, ProducerLocks, ProducerSteps

\* The queue holds frames of the source in order, each of them after the last
\* one given to the reader, whatever seeks and drops happened in between.
THEOREM QueueInOrderHolds == Spec => []QueueInOrder
<1>1. FrameInv => QueueInOrder
  BY DEF FrameInv, OrderInv
<1> QED
  BY <1>1, FrameInit, FrameStep, PTL DEF Spec

\* A connector that is not lossy, and whose fps limiter keeps the times of what
\* it rejects, loses no frame.
THEOREM NothingLostHolds == Spec => []NothingLost
<1>1. FrameInv => NothingLost
  BY DEF FrameInv, PlaceInv, NothingLost
<1> QED
  BY <1>1, FrameInit, FrameStep, PTL DEF Spec

\* Nothing is out of order and nothing is missing in the queue.
THEOREM QueueIsExactHolds == Spec => []QueueIsExact
BY QueueInOrderHolds, NothingLostHolds, PTL DEF QueueIsExact

(***************************************************************************)
(* The connector implements FrameChannel.  Numbers(queue) and              *)
(* PlaceOfSource are the values of the channel's variables chan and pos.   *)
(***************************************************************************)
Numbers(q) == [i \in DOMAIN q |-> q[i].idx]
PlaceOfSource == IF hand = 0 THEN src ELSE src - 1

LEMMA NumbersShape ==
  ASSUME NEW q \in Seq(Frames)
  PROVE  /\ Numbers(q) \in Seq(Positions)
         /\ Len(Numbers(q)) = Len(q) /\ Len(q) \in Nat
         /\ \A i \in 1 .. Len(q) : Numbers(q)[i] = q[i].idx
<1>1. /\ Len(q) \in Nat /\ DOMAIN q = 1 .. Len(q)
      /\ \A i \in 1 .. Len(q) : q[i] \in Frames
  BY LenProperties, ElementOfSeq
<1>2. \A i \in 1 .. Len(q) : q[i].idx \in Positions
  BY <1>1 DEF Frames
<1> QED
  BY <1>1, <1>2 DEF Numbers

\* Two sequences with the same entries are equal.
LEMMA SameEntries ==
  ASSUME NEW S, NEW s \in Seq(S), NEW t \in Seq(S), Len(s) = Len(t),
         \A i \in 1 .. Len(s) : s[i] = t[i]
  PROVE  s = t
<1>1. /\ Len(s) \in Nat
      /\ s = [i \in 1 .. Len(s) |-> s[i]]
      /\ t = [i \in 1 .. Len(t) |-> t[i]]
  BY LenProperties
<1> QED
  BY <1>1

\* Depositing a frame appends its number.
LEMMA NumbersAppend ==
  ASSUME NEW q \in Seq(Frames), NEW f \in Frames
  PROVE  Numbers(Append(q, f)) = Append(Numbers(q), f.idx)
<1> DEFINE r == Append(q, f)
           a == Append(Numbers(q), f.idx)
<1>1. /\ r \in Seq(Frames) /\ Len(r) = Len(q) + 1 /\ r[Len(q) + 1] = f
      /\ \A i \in 1 .. Len(q) : r[i] = q[i]
  BY AppendProperties
<1>2. /\ Numbers(r) \in Seq(Positions) /\ Len(Numbers(r)) = Len(r)
      /\ \A i \in 1 .. Len(r) : Numbers(r)[i] = r[i].idx
  <2> HIDE DEF r
  <2> QED
    BY <1>1, NumbersShape
<1>3. f.idx \in Positions
  BY DEF Frames
<1>4. /\ Numbers(q) \in Seq(Positions) /\ Len(Numbers(q)) = Len(q) /\ Len(q) \in Nat
      /\ \A i \in 1 .. Len(q) : Numbers(q)[i] = q[i].idx
  BY NumbersShape
<1>5. /\ a \in Seq(Positions) /\ Len(a) = Len(q) + 1 /\ a[Len(q) + 1] = f.idx
      /\ \A i \in 1 .. Len(q) : a[i] = q[i].idx
  BY <1>3, <1>4, AppendProperties
<1> HIDE DEF r, a
<1>6. \A i \in 1 .. Len(q) + 1 : Numbers(r)[i] = a[i]
  BY <1>1, <1>2, <1>4, <1>5
<1>7. Numbers(r) = a
  BY <1>1, <1>2, <1>5, <1>6, SameEntries
<1> QED
  BY <1>7 DEF r, a

\* Removing the first n frames removes the first n numbers.
LEMMA NumbersSuffix ==
  ASSUME NEW q \in Seq(Frames), NEW n \in 0 .. Len(q)
  PROVE  Numbers(SubSeq(q, n + 1, Len(q))) = SubSeq(Numbers(q), n + 1, Len(Numbers(q)))
<1> DEFINE r == SubSeq(q, n + 1, Len(q))
           a == SubSeq(Numbers(q), n + 1, Len(Numbers(q)))
<1>1. Len(q) \in Nat /\ n \in Nat /\ \A i \in n + 1 .. Len(q) : q[i] \in Frames
  BY LenProperties, ElementOfSeq
<1>2. /\ r \in Seq(Frames) /\ Len(r) = Len(q) - n
      /\ \A i \in 1 .. Len(q) - n : r[i] = q[i + n]
  BY <1>1, SubSeqProperties
<1>3. /\ Numbers(r) \in Seq(Positions) /\ Len(Numbers(r)) = Len(r)
      /\ \A i \in 1 .. Len(r) : Numbers(r)[i] = r[i].idx
  <2> HIDE DEF r
  <2> QED
    BY <1>2, NumbersShape
<1>4. /\ Numbers(q) \in Seq(Positions) /\ Len(Numbers(q)) = Len(q)
      /\ \A i \in 1 .. Len(q) : Numbers(q)[i] = q[i].idx
  BY NumbersShape
<1>5. \A i \in n + 1 .. Len(q) : Numbers(q)[i] \in Positions
  BY <1>1, <1>4, ElementOfSeq
<1>6. /\ a \in Seq(Positions) /\ Len(a) = Len(q) - n
      /\ \A i \in 1 .. Len(q) - n : a[i] = q[i + n].idx
  BY <1>1, <1>4, <1>5, SubSeqProperties
<1> HIDE DEF r, a
<1>7. \A i \in 1 .. Len(q) - n : Numbers(r)[i] = a[i]
  BY <1>2, <1>3, <1>6
<1>8. Numbers(r) = a
  BY <1>2, <1>3, <1>6, <1>7, SameEntries
<1> QED
  BY <1>8 DEF r, a

\* Dropping a frame of the queue drops its number.
LEMMA NumbersWithout ==
  ASSUME queue \in Seq(Frames), NEW k \in DOMAIN queue
  PROVE  /\ k \in 1 .. Len(Numbers(queue))
         /\ Numbers(Without(k)) =
              SubSeq(Numbers(queue), 1, k - 1) \o SubSeq(Numbers(queue), k + 1, Len(Numbers(queue)))
<1> DEFINE n == Len(queue)
           b == SubSeq(Numbers(queue), 1, k - 1)
           c == SubSeq(Numbers(queue), k + 1, Len(Numbers(queue)))
<1>1. /\ Numbers(queue) \in Seq(Positions) /\ Len(Numbers(queue)) = n /\ n \in Nat
      /\ \A i \in 1 .. n : Numbers(queue)[i] = queue[i].idx
  BY NumbersShape
<1>2. k \in 1 .. n
  BY LenProperties
<1>3. /\ Without(k) \in Seq(Frames) /\ Len(Without(k)) = n - 1
      /\ \A i \in 1 .. n - 1 : Without(k)[i] = queue[IF i < k THEN i ELSE i + 1]
  BY WithoutLemma
<1>4. /\ Numbers(Without(k)) \in Seq(Positions) /\ Len(Numbers(Without(k))) = n - 1
      /\ \A i \in 1 .. n - 1 : Numbers(Without(k))[i] = Without(k)[i].idx
  BY <1>3, NumbersShape
<1>5. \A i \in 1 .. n : Numbers(queue)[i] \in Positions
  BY <1>1, ElementOfSeq
<1>6. /\ b \in Seq(Positions) /\ Len(b) = k - 1
      /\ \A i \in 1 .. k - 1 : b[i] = queue[i].idx
  BY <1>1, <1>2, <1>5, SubSeqProperties
<1>7. /\ c \in Seq(Positions) /\ Len(c) = n - k
      /\ \A i \in 1 .. n - k : c[i] = queue[i + k].idx
  BY <1>1, <1>2, <1>5, SubSeqProperties
<1> HIDE DEF b, c, n
<1>8. /\ b \o c \in Seq(Positions) /\ Len(b \o c) = Len(b) + Len(c)
      /\ \A i \in 1 .. Len(b) + Len(c) :
           (b \o c)[i] = IF i <= Len(b) THEN b[i] ELSE c[i - Len(b)]
  BY <1>6, <1>7, ConcatProperties
<1>9. Len(b) + Len(c) = n - 1
  <2>1. k \in Int /\ n \in Int
    BY <1>1, <1>2
  <2> QED
    BY <1>6, <1>7, <2>1
<1>10. ASSUME NEW i \in 1 .. n - 1 PROVE Numbers(Without(k))[i] = (b \o c)[i]
  <2>1. Numbers(Without(k))[i] = queue[IF i < k THEN i ELSE i + 1].idx
    BY <1>3, <1>4, <1>10
  <2>2. (b \o c)[i] = IF i <= k - 1 THEN b[i] ELSE c[i - (k - 1)]
    BY <1>6, <1>8, <1>9, <1>10
  <2>3. CASE i < k
    <3>1. i \in 1 .. k - 1
      BY <1>1, <1>2, <1>10, <2>3
    <3> QED
      BY <1>6, <2>1, <2>2, <2>3, <3>1
  <2>4. CASE ~(i < k)
    <3>1. /\ ~(i <= k - 1)
          /\ i - (k - 1) \in 1 .. n - k /\ (i - (k - 1)) + k = i + 1
      BY <1>1, <1>2, <1>10, <2>4
    <3>2. c[i - (k - 1)] = queue[i + 1].idx
      BY <1>7, <3>1
    <3> QED
      BY <2>1, <2>2, <2>4, <3>1, <3>2
  <2> QED
    BY <2>3, <2>4
<1>11. Numbers(Without(k)) = b \o c
  BY <1>4, <1>8, <1>9, <1>10, SameEntries
<1> QED
  BY <1>1, <1>2, <1>11 DEF b, c

LEMMA ChannelInit == Init => Channel!Init
<1> SUFFICES ASSUME Init PROVE Channel!Init
  OBVIOUS
<1>1. hand = 0 /\ src = 0 /\ state = "idle" /\ queue = << >>
  BY DEF Init
<1>2. [i \in DOMAIN queue |-> queue[i].idx] = << >>
  BY <1>1
<1> QED
  BY <1>1, <1>2 DEF Channel!Init

\* A step that changes none of the three values is a stutter of the channel.
LEMMA ChannelStutter ==
  ASSUME queue' = queue, PlaceOfSource' = PlaceOfSource,
         (state' = "closing") <=> (state = "closing")
  PROVE  [Channel!Next]_(Channel!vars)
<1>1. [i \in DOMAIN queue |-> queue[i].idx]' = [i \in DOMAIN queue |-> queue[i].idx]
  OBVIOUS
<1>2. (state # "closing")' = (state # "closing")
  OBVIOUS
<1> QED
  BY <1>1, <1>2 DEF PlaceOfSource, Channel!vars

LEMMA DepositIsPut ==
  ASSUME FrameInv, TypeOK', Deposit
  PROVE  Channel!Next
<1>1. queue \in Seq(Frames) /\ hand \in Nat /\ src \in 0 .. Len(Source) /\ Len(Source) \in Nat
  BY QueueShape, PositionsLemma DEF FrameInv, ControlInv, TypeInv, TypeOK
<1>2. hand # 0 /\ hand = src /\ hand' = 0 /\ src' = src /\ state = "running" /\ state' = state
  BY DEF Deposit, ProducerGoes, FrameInv, ControlInv, TypeInv, StateInv
<1>3. PICK rejected \in BOOLEAN :
        IF Discards(rejected)
        THEN queue' = queue /\ (rejected => FpsLimited)
        ELSE queue' = Append(queue, Deposited(rejected))
  BY DEF Deposit, PushedBack
<1>4. /\ src - 1 < Len(Source) /\ src = (src - 1) + 1
      /\ PlaceOfSource = src - 1 /\ PlaceOfSource' = src
  BY <1>1, <1>2 DEF PlaceOfSource
<1>5. CASE Discards(rejected)
  <2>1. queue' = queue /\ ~Lossless
    BY <1>3, <1>5 DEF Discards, Lossless
  <2>2. Channel!Refuse
    BY <1>2, <1>4, <2>1 DEF PlaceOfSource, Channel!Refuse
  <2> QED
    BY <2>2 DEF Channel!Next
<1>6. CASE ~Discards(rejected)
  <2>1. Deposited(rejected) \in Frames /\ Deposited(rejected).idx = hand
    <3>1. hand \in Positions
      BY <1>1, <1>2 DEF Positions
    <3> QED
      BY <3>1, PositionsLemma DEF Deposited, Frames, Media
  <2>2. Numbers(queue') = Append(Numbers(queue), hand)
    BY <1>1, <1>3, <1>6, <2>1, NumbersAppend
  <2>3. Channel!Put
    BY <1>2, <1>4, <2>2 DEF PlaceOfSource, Numbers, Channel!Put
  <2> QED
    BY <2>3 DEF Channel!Next
<1> QED
  BY <1>5, <1>6

LEMMA DropIsDrop ==
  ASSUME FrameInv, DropFrame
  PROVE  [Channel!Next]_(Channel!vars)
<1>1. queue \in Seq(Frames)
  BY QueueShape DEF FrameInv, ControlInv, TypeInv
<1>2. ~Lossless /\ PlaceOfSource' = PlaceOfSource /\ state' = state
  BY DEF DropFrame, MayDrop, Lossless, PlaceOfSource
<1>3. CASE queue' = queue
  BY <1>2, <1>3, ChannelStutter
<1>4. ASSUME NEW k \in DOMAIN queue, queue' = Without(k)
      PROVE  Channel!Next
  <2>1. /\ k \in 1 .. Len(Numbers(queue))
        /\ Numbers(queue') =
             SubSeq(Numbers(queue), 1, k - 1) \o SubSeq(Numbers(queue), k + 1, Len(Numbers(queue)))
    BY <1>1, <1>4, NumbersWithout
  <2>2. Channel!Drop
    BY <1>2, <2>1 DEF PlaceOfSource, Numbers, Channel!Drop
  <2> QED
    BY <2>2 DEF Channel!Next
<1> QED
  BY <1>3, <1>4 DEF DropFrame

LEMMA PopIsGet ==
  ASSUME FrameInv, NEW c \in Clients, PopFrame(c)
  PROVE  Channel!Next
<1>1. queue \in Seq(Frames) /\ queue # << >> /\ Len(queue) \in Nat \ {0}
  BY QueueShape, EmptySeq DEF PopFrame, FrameInv, ControlInv, TypeInv
<1>2. queue' = Tail(queue) /\ PlaceOfSource' = PlaceOfSource /\ state' = state
  BY DEF PopFrame, PlaceOfSource
<1>3. queue' = SubSeq(queue, 2, Len(queue))
  BY <1>1, <1>2
<1>4. Numbers(queue') = SubSeq(Numbers(queue), 2, Len(Numbers(queue)))
  <2>1. 1 \in 0 .. Len(queue) /\ 1 + 1 = 2
    BY <1>1
  <2> QED
    BY <1>1, <1>3, <2>1, NumbersSuffix
<1>5. Numbers(queue) \in Seq(Positions) /\ Numbers(queue) # << >>
  BY <1>1, NumbersShape
<1>6. Numbers(queue') = Tail(Numbers(queue))
  BY <1>4, <1>5
<1>7. Channel!Get
  BY <1>2, <1>5, <1>6 DEF PlaceOfSource, Numbers, Channel!Get
<1> QED
  BY <1>7 DEF Channel!Next

LEMMA SeekIsSkipOrRestart ==
  ASSUME FrameInv, TypeOK', NEW c \in Clients, Seek(c)
  PROVE  [Channel!Next]_(Channel!vars)
<1>1. queue \in Seq(Frames) /\ Len(queue) \in Nat /\ src' \in 0 .. Len(Source)
  BY QueueShape DEF FrameInv, ControlInv, TypeInv, TypeOK
<1>2. hand = 0 /\ hand' = 0
  BY ClientsAssumption DEF Seek, FrameInv, ControlInv, TypeInv, LockInv, ClientGoes
<1>3. PICK p \in Offsets :
        IF IsRunning THEN SeekInQueue(p) \/ SeekSource(p)
                     ELSE UNCHANGED <<state, src, queue, counts, frontier>>
  BY DEF Seek
<1>4. CASE ~IsRunning
  BY <1>2, <1>3, <1>4, ChannelStutter DEF PlaceOfSource
<1>5. CASE IsRunning /\ SeekSource(p)
  <2>1. /\ queue' = << >> /\ state # "closing" /\ state' # "closing"
        /\ PlaceOfSource' = src'
    BY <1>2, <1>5 DEF IsRunning, SeekSource, PlaceOfSource
  <2>2. Numbers(queue') = << >>
    BY <2>1 DEF Numbers
  <2>3. Channel!Restart
    BY <1>1, <2>1, <2>2 DEF PlaceOfSource, Numbers, Channel!Restart
  <2> QED
    BY <2>3 DEF Channel!Next
<1>6. CASE IsRunning /\ SeekInQueue(p)
  <2>1. PICK n \in 0 .. Len(queue) : queue' = SubSeq(queue, n + 1, Len(queue))
    BY <1>6 DEF SeekInQueue
  <2>2. state # "closing" /\ state' = state /\ PlaceOfSource' = PlaceOfSource
    BY <1>2, <1>6 DEF IsRunning, SeekInQueue, PlaceOfSource
  <2>3. CASE n = 0
    <3>1. queue' = queue
      BY <1>1, <2>1, <2>3
    <3> QED
      BY <2>2, <3>1, ChannelStutter
  <2>4. CASE n # 0
    <3>1. /\ n \in 1 .. Len(Numbers(queue))
          /\ Numbers(queue') = SubSeq(Numbers(queue), n + 1, Len(Numbers(queue)))
      BY <1>1, <2>1, <2>4, NumbersSuffix, NumbersShape
    <3>2. Channel!Skip
      BY <2>2, <3>1 DEF PlaceOfSource, Numbers, Channel!Skip
    <3> QED
      BY <3>2 DEF Channel!Next
  <2> QED
    BY <2>3, <2>4
<1> QED
  BY <1>3, <1>4, <1>5, <1>6

LEMMA CloseIsClose ==
  ASSUME FrameInv, NEW c \in Clients, CloseMark(c)
  PROVE  Channel!Next
<1>1. queue' = queue /\ PlaceOfSource' = PlaceOfSource /\ state' = "closing"
  BY DEF CloseMark, PlaceOfSource
<1>2. Numbers(queue') = Numbers(queue)
  BY <1>1
<1>3. Channel!Close
  BY <1>1, <1>2 DEF PlaceOfSource, Numbers, Channel!Close
<1> QED
  BY <1>3 DEF Channel!Next

LEMMA FlushIsClear ==
  ASSUME FrameInv, NEW c \in Clients, CloseFlush(c)
  PROVE  Channel!Next
<1>1. queue' = << >> /\ PlaceOfSource' = PlaceOfSource /\ state = "closing" /\ state' = state
  BY DEF CloseFlush, ClientGoes, PlaceOfSource, FrameInv, ControlInv, StateInv
<1>2. Numbers(queue') = << >>
  BY <1>1 DEF Numbers
<1>3. Channel!Clear
  BY <1>1, <1>2 DEF PlaceOfSource, Numbers, Channel!Clear
<1> QED
  BY <1>3 DEF Channel!Next

LEMMA ChannelStep == FrameInv /\ [Next]_vars => [Channel!Next]_(Channel!vars)
<1> SUFFICES ASSUME FrameInv, [Next]_vars PROVE [Channel!Next]_(Channel!vars)
  OBVIOUS
<1>0. FrameInv' /\ TypeOK' /\ ControlInv
  BY FrameStep DEF FrameInv, ControlInv, TypeInv
<1> USE DEF PlaceOfSource
<1>1. CASE UNCHANGED vars
  BY <1>1, ChannelStutter DEF vars
<1>2. CASE LockForRead \/ CheckRunning \/ SourceEof \/ Unlock \/ EofSignal
  BY <1>2, ChannelStutter DEF LockForRead, CheckRunning, SourceEof, Unlock, EofSignal
<1>3. CASE EofWait \/ EnoughSpace \/ NoSpace \/ FullWait \/ Exit
  BY <1>3, ChannelStutter DEF EofWait, EnoughSpace, NoSpace, FullWait, Exit
<1>4. CASE SourceError \/ MarkEof
  <2>1. state # "closing" /\ state' # "closing"
    BY <1>0, <1>4 DEF SourceError, MarkEof, ProducerGoes, ControlInv, StateInv
  <2> QED
    BY <1>4, <2>1, ChannelStutter DEF SourceError, MarkEof
<1>5. CASE SourceFrame
  <2>1. hand = 0 /\ src \in Nat
    BY <1>0, <1>5, PositionsLemma DEF SourceFrame, ProducerGoes, ControlInv, TypeInv, TypeOK
  <2>2. hand' # 0 /\ src' - 1 = src
    BY <1>5, <2>1 DEF SourceFrame
  <2> QED
    BY <1>5, <2>1, <2>2, ChannelStutter DEF SourceFrame
<1>6. CASE Deposit
  BY <1>0, <1>6, DepositIsPut
<1>7. CASE DropFrame
  BY <1>7, DropIsDrop
<1>8. ASSUME NEW c \in Clients, Client(c) PROVE [Channel!Next]_(Channel!vars)
  <2>1. CASE Open(c)
    BY <2>1, ChannelStutter DEF Open
  <2>2. CASE Begin(c)
    BY <2>2, ChannelStutter DEF Begin, BeginRead, BeginSeek, BeginEdit, BeginClose
  <2>3. CASE ReadState(c) \/ SeekLock(c) \/ EditLock(c)
    BY <2>3, ChannelStutter DEF ReadState, SeekLock, EditLock
  <2>4. CASE CloseMark(c)
    BY <2>4, CloseIsClose
  <2>5. CASE PopEmpty(c) \/ WaitFrame(c) \/ WaitTimeout(c) \/ RecheckEof(c)
    BY <2>5, ChannelStutter DEF PopEmpty, WaitFrame, WaitTimeout, RecheckEof
  <2>6. CASE EditUnlock(c) \/ CloseSignal(c) \/ CloseJoin(c)
    BY <2>6, ChannelStutter DEF EditUnlock, CloseSignal, CloseJoin
  <2>7. CASE PopFrame(c)
    BY <2>7, PopIsGet
  <2>8. CASE Seek(c)
    BY <1>0, <2>8, SeekIsSkipOrRestart
  <2>9. CASE CloseFlush(c)
    BY <2>9, FlushIsClear
  <2> QED
    BY <1>8, <2>1, <2>2, <2>3, <2>4, <2>5, <2>6, <2>7, <2>8, <2>9
       DEF Client, ClientLocks, ClientSteps
<1> QED
  BY <1>1, <1>2, <1>3, <1>4, <1>5, <1>6, <1>7, <1>8
     DEF Next, Producer, ProducerLocks, ProducerSteps

\* The connector, with its threads, locks, events and counters, is the channel
\* its callers are promised: whatever overlaps, frames enter behind one another
\* and leave in order, and a seek leaves nothing of the earlier position behind.
THEOREM ConnectorIsChannelHolds == Spec => ConnectorIsChannel
BY FrameInit, FrameStep, ChannelInit, ChannelStep, PTL DEF Spec, ConnectorIsChannel, Channel!Spec

(***************************************************************************)
(* The end of the file, and the end of the stream.  A stream is at its end *)
(* only while the source is at its last frame, because a seek needs the    *)
(* lock the producer holds from the read of the source to the mark.  A     *)
(* closed stream is at rest, or some client still has to join and flush.   *)
(***************************************************************************)
EofInv == state = "eof" \/ ppc = "eofmark" => src = Len(Source)

QuietInv ==
  state = "closing" =>
    \/ \E c \in Clients : cpc[c] \in {"c_signal", "c_join", "c_flush"}
    \/ ppc \in {"off", "done"} /\ queue = << >>

EndInv == EofInv /\ QuietInv

LEMMA EndInit == Init => EndInv
  BY DEF Init, EndInv, EofInv, QuietInv

LEMMA EndStep == FrameInv /\ EndInv /\ [Next]_vars => EndInv'
<1> SUFFICES ASSUME FrameInv, EndInv, [Next]_vars PROVE EndInv'
  OBVIOUS
<1>0. ControlInv /\ TypeInv /\ TypeOK /\ TypeInv'
  BY TypeStep DEF FrameInv, ControlInv, TypeInv
<1> USE <1>0 DEF EndInv, EofInv, QuietInv, ProducerGoes, ClientGoes
<1>1. CASE UNCHANGED vars
  BY <1>1 DEF vars
<1>2. CASE LockForRead \/ CheckRunning \/ SourceEof \/ MarkEof
  BY <1>2 DEF LockForRead, CheckRunning, SourceEof, MarkEof, IsRunning
<1>3. CASE SourceError \/ SourceFrame \/ Deposit
  BY <1>3 DEF SourceError, SourceFrame, Deposit, ControlInv, StateInv
<1>4. CASE Unlock \/ EofSignal \/ EofWait \/ EnoughSpace
  BY <1>4 DEF Unlock, EofSignal, EofWait, EnoughSpace
<1>5. CASE DropFrame \/ NoSpace \/ FullWait \/ Exit
  BY <1>5 DEF DropFrame, NoSpace, FullWait, Exit
<1>6. ASSUME NEW c \in Clients, Client(c) PROVE EndInv'
  <2> USE DEF TypeInv, TypeOK
  <2>1. CASE Open(c)
    BY <2>1 DEF Open
  <2>2. CASE Begin(c)
    BY <2>2 DEF Begin, BeginRead, BeginSeek, BeginEdit, BeginClose, MayCall
  <2>3. CASE ReadState(c) \/ SeekLock(c) \/ EditLock(c) \/ CloseMark(c)
    BY <2>3 DEF ReadState, SeekLock, EditLock, CloseMark
  <2>4. CASE PopFrame(c)
    BY <2>4 DEF PopFrame
  <2>5. CASE PopEmpty(c) \/ WaitFrame(c) \/ WaitTimeout(c) \/ RecheckEof(c)
    BY <2>5 DEF PopEmpty, WaitFrame, WaitTimeout, RecheckEof
  <2>6. CASE EditUnlock(c) \/ CloseSignal(c) \/ CloseJoin(c)
    BY <2>6 DEF EditUnlock, CloseSignal, CloseJoin
  <2>7. CASE CloseFlush(c)
    BY <2>7 DEF CloseFlush, ControlInv, StateInv
  <2>8. CASE Seek(c)
    <3>1. /\ ppc' = ppc /\ cpc[c] = "k_seek" /\ cpc' = [cpc EXCEPT ![c] = "idle"]
          /\ ppc # "eofmark"
      BY <2>8, ClientsAssumption DEF Seek, ControlInv, LockInv
    <3>2. \/ IsRunning /\ state' = "running"
          \/ state' = state /\ src' = src /\ (queue' = queue \/ IsRunning)
      BY <2>8 DEF Seek, SeekInQueue, SeekSource
    <3> QED
      BY <3>1, <3>2 DEF IsRunning
  <2> QED
    BY <1>6, <2>1, <2>2, <2>3, <2>4, <2>5, <2>6, <2>7, <2>8 DEF Client, ClientLocks, ClientSteps
<1> QED
  BY <1>1, <1>2, <1>3, <1>4, <1>5, <1>6 DEF Next, Producer, ProducerLocks, ProducerSteps

\* A reader of a connector that gives up no frame is told of the end of the file
\* only when every frame of it was delivered or skipped, although the empty queue
\* and the state were looked at in sections of their own.
THEOREM EofReadMeansDrainedHolds ==
  ASSUME Lossless
  PROVE  Spec => EofReadMeansDrained
<1>1. ASSUME FrameInv, EndInv, [Next]_vars, NEW c \in Clients,
             cpc[c] = "r_eof", cpc'[c] = "idle", state = "eof"
      PROVE  frontier = Len(Source)
  <2>1. TypeOK /\ hand = 0 /\ src = Len(Source)
    BY <1>1 DEF FrameInv, ControlInv, TypeInv, StateInv, EndInv, EofInv
  <2>2. queue = << >>
    <3>1. cpc' # cpc
      BY <1>1
    <3>2. ~Producer
      BY <3>1 DEF Producer, ProducerLocks, ProducerSteps, LockForRead, CheckRunning,
             SourceFrame, SourceEof, SourceError, Deposit, MarkEof, Unlock, EofSignal, EofWait,
             EnoughSpace, DropFrame, NoSpace, FullWait, Exit
    <3>3. PICK d \in Clients : Client(d)
      BY <1>1, <3>1, <3>2 DEF Next, vars
    <3>4. ~Open(d) /\ ~Begin(d) /\ ~ClientLocks(d)
      BY <1>1, <2>1, <3>1
         DEF TypeOK, Open, Begin, BeginRead, BeginSeek, BeginEdit, BeginClose, MayCall, ClientLocks,
             ReadState, SeekLock, EditLock, CloseMark, ClientGoes
    <3>5. RecheckEof(d) /\ d = c
      BY <1>1, <2>1, <3>3, <3>4
         DEF TypeOK, Client, ClientSteps, PopFrame, PopEmpty, WaitFrame, WaitTimeout, RecheckEof,
             Seek, EditUnlock, CloseSignal, CloseJoin, CloseFlush, ClientGoes
    <3> QED
      BY <1>1, <2>1, <3>5 DEF RecheckEof, Refilled, ClientGoes, TypeOK
  <2>3. src - frontier = 0 /\ src \in Nat /\ frontier \in Nat
    <3>1. Len(queue) = 0
      BY <2>2
    <3> QED
      BY <1>1, <2>1, <3>1, QueueShape DEF FrameInv, PlaceInv
  <2> QED
    BY <2>1, <2>3
<1>2. FrameInv /\ EndInv /\ [Next]_vars =>
        [\A c \in Clients :
           cpc[c] = "r_eof" /\ cpc'[c] = "idle" /\ state = "eof" => frontier = Len(Source)]_vars
  BY <1>1
<1> QED
  BY <1>2, FrameInit, FrameStep, EndInit, EndStep, PTL DEF Spec, EofReadMeansDrained

\* When every close has returned the producer has stopped, nothing is in its hand
\* or in the queue, and it does not hold the lock, although the queue is flushed
\* under no lock.
THEOREM ClosedIsQuietHolds == Spec => []ClosedIsQuiet
<1>1. FrameInv /\ EndInv => ClosedIsQuiet
  BY DEF FrameInv, ControlInv, TypeInv, LockInv, EndInv, QuietInv, ClosedIsQuiet, ClosePCs
<1> QED
  BY <1>1, FrameInit, FrameStep, EndInit, EndStep, PTL DEF Spec

(***************************************************************************)
(* The depth of the queue.  The counter framesInQueue, which the check for *)
(* space reads, counts the frames of the queue as long as all of them are  *)
(* video: a seek that finds its frame in the queue takes one off for every *)
(* frame it removes, whatever its media.                                   *)
(***************************************************************************)
VideoOnly     == \A i \in Positions : Source[i].media = "video"
LeavesNoTrace == FpsLimited => SilentFpsLimiter

\* No two frames are so far apart that _tc_check_queue_size drops neither.
GapsAreSmall == \A i, j \in Positions : Source[i].pts - Source[j].pts < MaxDropGap

Counted ==
  /\ framesInQueue = Len(queue)
  /\ \A i \in 1 .. Len(queue) : queue[i].media = "video"
  /\ ppc = "off" => queue = << >>

\* The producer makes room after every deposit and before the next one.
MadeRoom ==
  \/ ppc \in {"loop", "read", "deposit", "eofmark", "eofset", "eofwait"}
  \/ ppc = "unlock" /\ eof

DepthInv ==
  /\ Counted
  /\ ppc \in {"read", "deposit"} => ~eof
  /\ MaxQueueSize # 0 =>
       Len(queue) <= MaxQueueSize + 1 /\ (MadeRoom => Len(queue) <= MaxQueueSize)

LEMMA LeastNumber ==
  ASSUME NEW S \in SUBSET Nat, S # {} PROVE \E x \in S : \A y \in S : x <= y
<1>1. PICK x \in S : \A y \in S : ~ (<<y, x>> \in OpToRel(<, Nat))
  BY WFMin, NatLessThanWellFounded, Zenon
<1>2. \A y \in S : ~ (y < x)
  BY <1>1, Zenon DEF OpToRel
<1> QED
  BY <1>2

\* In a queue of video the frame before a frame is the one at the place before it.
LEMMA PrevIsBefore ==
  ASSUME TypeOK, Counted, NEW i \in 1 .. Len(queue)
  PROVE  PrevVideoPts(i) = IF i = 1 THEN lastPtsRead ELSE Pts(queue[i - 1])
<1> DEFINE before == {j \in 1 .. i - 1 : queue[j].media = "video"}
<1>1. before = 1 .. i - 1 /\ i \in Nat
  BY QueueShape DEF Counted
<1>2. CASE i = 1
  <2>1. before = {}
    BY <1>1, <1>2
  <2> QED
    BY <1>2, <2>1 DEF PrevVideoPts
<1>3. CASE i # 1
  <2>1. i - 1 \in before /\ \A k \in before : k <= i - 1
    BY <1>1, <1>3, QueueShape
  <2>2. \A j \in before : (\A k \in before : k <= j) => j = i - 1
    BY <1>1, <2>1
  <2>3. (CHOOSE j \in before : \A k \in before : k <= j) = i - 1
    BY <2>1, <2>2
  <2>4. before # {}
    BY <2>1
  <2>5. PrevVideoPts(i) =
          IF before = {} THEN lastPtsRead
          ELSE Pts(queue[CHOOSE j \in before : \A k \in before : k <= j])
    BY DEF PrevVideoPts
  <2> HIDE DEF before
  <2> QED
    BY <1>3, <2>3, <2>4, <2>5
<1> QED
  BY <1>2, <1>3

\* A queue of two video frames or more has one to drop.
LEMMA VictimExists ==
  ASSUME TypeOK, Counted, GapsAreSmall, Len(queue) >= 2
  PROVE  \E i \in DOMAIN queue : IsVictim(i)
<1> DEFINE Gap(j) == Pts(queue[j]) - PrevVideoPts(j)
           Base   == MaxDropGap + (IF lastPtsRead > 0 THEN lastPtsRead ELSE 0)
           Gaps   == {Gap(j) + Base : j \in 1 .. Len(queue)}
<1>0. /\ Len(queue) \in Nat /\ DOMAIN queue = 1 .. Len(queue)
      /\ \A j \in 1 .. Len(queue) : queue[j] \in Frames /\ Pts(queue[j]) \in Nat
      /\ lastPtsRead \in Int /\ MaxDropGap \in Nat /\ Base \in Nat
  BY QueueShape, PositionsLemma, LimitsAssumption DEF TypeOK
<1>1. ASSUME NEW j \in 1 .. Len(queue), NEW k \in 1 .. Len(queue)
      PROVE  Pts(queue[j]) - Pts(queue[k]) < MaxDropGap
  <2>1. queue[j].idx \in Positions /\ queue[k].idx \in Positions
    BY <1>0 DEF Frames
  <2> QED
    BY <2>1 DEF GapsAreSmall, Pts
<1>2. ASSUME NEW j \in 1 .. Len(queue)
      PROVE  Gap(j) \in Int /\ Gap(j) + Base \in Nat
  <2>1. CASE j = 1
    <3>1. Gap(j) = Pts(queue[j]) - lastPtsRead
      BY <2>1, PrevIsBefore
    <3> QED
      BY <1>0, <3>1
  <2>2. CASE j # 1
    <3>1. j - 1 \in 1 .. Len(queue)
      BY <1>0, <2>2
    <3>2. Gap(j) = Pts(queue[j]) - Pts(queue[j - 1])
      BY <2>2, PrevIsBefore
    <3>3. Pts(queue[j - 1]) - Pts(queue[j]) < MaxDropGap /\ Pts(queue[j - 1]) \in Nat
      BY <1>0, <1>1, <3>1
    <3> HIDE DEF Gap
    <3>4. Pts(queue[j]) \in Nat
      BY <1>0
    <3> QED
      BY <1>0, <3>2, <3>3, <3>4
  <2> QED
    BY <2>1, <2>2
<1>3. Gap(2) < MaxDropGap /\ 2 \in 1 .. Len(queue)
  <2>1. 1 \in 1 .. Len(queue) /\ 2 \in 1 .. Len(queue) /\ 2 - 1 = 1
    BY <1>0
  <2>2. Gap(2) = Pts(queue[2]) - Pts(queue[1])
    BY <2>1, PrevIsBefore
  <2> QED
    BY <1>1, <2>1, <2>2
<1> HIDE DEF Gap, Base
<1>4. PICK g \in Gaps : \A h \in Gaps : g <= h
  <2>1. Gaps \in SUBSET Nat /\ Gaps # {}
    BY <1>2, <1>3
  <2> QED
    BY <2>1, LeastNumber
<1>5. PICK a \in 1 .. Len(queue) : g = Gap(a) + Base
  BY <1>4
<1>6. ASSUME NEW j \in 1 .. Len(queue) PROVE Gap(a) <= Gap(j)
  <2>1. Gap(a) + Base <= Gap(j) + Base
    BY <1>4, <1>5
  <2>2. Gap(a) \in Int /\ Gap(j) \in Int
    BY <1>2
  <2> QED
    BY <1>0, <2>1, <2>2
<1> DEFINE Best == {j \in 1 .. Len(queue) : Gap(j) = Gap(a)}
<1>7. PICK i \in Best : \A j \in Best : i <= j
  <2>1. Best \in SUBSET Nat /\ a \in Best
    BY <1>0
  <2> QED
    BY <2>1, LeastNumber
<1>8. /\ i \in 1 .. Len(queue) /\ Gap(i) < MaxDropGap
      /\ \A j \in 1 .. Len(queue) : Gap(i) <= Gap(j) /\ (Gap(i) = Gap(j) => i <= j)
  <2>1. Gap(i) = Gap(a) /\ Gap(a) \in Int /\ Gap(2) \in Int /\ Gap(a) <= Gap(2)
    BY <1>2, <1>3, <1>6, <1>7
  <2>2. Gap(i) < MaxDropGap
    BY <1>0, <1>3, <2>1
  <2>3. ASSUME NEW j \in 1 .. Len(queue), Gap(i) = Gap(j) PROVE i <= j
    BY <1>7, <2>1, <2>3
  <2> QED
    BY <1>6, <1>7, <2>1, <2>2, <2>3
<1>9. {j \in DOMAIN queue : queue[j].media = "video"} = 1 .. Len(queue)
  BY <1>0 DEF Counted
<1>10. IsVictim(i)
  BY <1>8, <1>9 DEF IsVictim, Gap
<1> QED
  BY <1>0, <1>8, <1>10

\* Steps that leave the queue and its counter alone.
LEMMA DepthUnchanged ==
  ASSUME DepthInv, UNCHANGED <<queue, framesInQueue>>,
         ppc' = "off" => ppc = "off", ppc' \in {"read", "deposit"} => ~eof',
         MadeRoom' => MadeRoom \/ Len(queue) <= MaxQueueSize \/ MaxQueueSize = 0
  PROVE  DepthInv'
BY DEF DepthInv, Counted

\* Frames leave the front of the queue, all of them counted.
LEMMA PrefixUncounted ==
  ASSUME TypeOK, DepthInv, NEW n \in 0 .. Len(queue),
         queue' = SubSeq(queue, n + 1, Len(queue)), framesInQueue' = framesInQueue - n,
         UNCHANGED <<ppc, eof>>
  PROVE  DepthInv'
<1>1. /\ Len(queue) \in Nat /\ n \in Nat /\ n <= Len(queue) /\ MaxQueueSize \in Nat
      /\ Len(queue') = Len(queue) - n
      /\ \A i \in 1 .. Len(queue) - n : queue'[i] = queue[i + n] /\ i + n \in 1 .. Len(queue)
  <2>1. queue \in Seq(Frames) /\ Len(queue) \in Nat /\ MaxQueueSize \in Nat
    BY QueueShape, LimitsAssumption
  <2>2. n \in Nat /\ n <= Len(queue) /\ \A i \in 1 .. Len(queue) - n : i + n \in 1 .. Len(queue)
    BY <2>1
  <2> QED
    BY <2>1, <2>2, FlushLemma
<1>2. ppc' = "off" => queue' = << >>
  BY QueueShape DEF DepthInv, Counted
<1>3. Counted'
  BY <1>1, <1>2 DEF DepthInv, Counted
<1> QED
  BY <1>1, <1>3 DEF DepthInv, MadeRoom

LEMMA DepositDepth ==
  ASSUME FrameInv, DepthInv, VideoOnly, LeavesNoTrace, Deposit
  PROVE  DepthInv'
<1>1. /\ TypeOK /\ queue \in Seq(Frames) /\ Len(queue) \in Nat /\ MaxQueueSize \in Nat
      /\ ppc = "deposit" /\ ppc' = "unlock" /\ ~eof /\ eof' = eof
  BY QueueShape, LimitsAssumption
     DEF FrameInv, ControlInv, TypeInv, DepthInv, Deposit, ProducerGoes
<1>2. hand \in Positions /\ Source[hand].media = "video"
  BY <1>1, PositionsLemma DEF FrameInv, ControlInv, TypeInv, TypeOK, Positions, VideoOnly
<1>3. \/ UNCHANGED <<queue, framesInQueue>>
      \/ /\ queue' = Append(queue, Deposited(FALSE))
         /\ framesInQueue' = framesInQueue + 1
  BY <1>2 DEF Deposit, Discards, LeavesNoTrace, PushedBack
<1>4. ~MadeRoom' /\ MadeRoom
  BY <1>1 DEF MadeRoom
<1>5. CASE UNCHANGED <<queue, framesInQueue>>
  BY <1>1, <1>4, <1>5, DepthUnchanged
<1>6. CASE queue' = Append(queue, Deposited(FALSE)) /\ framesInQueue' = framesInQueue + 1
  <2>1. Deposited(FALSE) \in Frames /\ Deposited(FALSE).media = "video"
    BY <1>2, PositionsLemma DEF Deposited, Frames, Media
  <2>2. /\ Len(queue') = Len(queue) + 1
        /\ \A i \in 1 .. Len(queue) : queue'[i] = queue[i]
        /\ queue'[Len(queue) + 1].media = "video"
    <3> DEFINE f == Deposited(FALSE)
    <3>1. queue' = Append(queue, f) /\ f \in Frames /\ f.media = "video"
      BY <1>6, <2>1
    <3> HIDE DEF f
    <3> QED
      BY <1>1, <3>1, AppendProperties
  <2>3. framesInQueue' = Len(queue') /\ ppc' # "off"
    BY <1>1, <1>6, <2>2 DEF DepthInv, Counted
  <2>4. ASSUME NEW i \in 1 .. Len(queue') PROVE queue'[i].media = "video"
    <3>1. i \in 1 .. Len(queue) \/ i = Len(queue) + 1
      BY <1>1, <2>2
    <3> QED
      BY <2>2, <3>1 DEF DepthInv, Counted
  <2> QED
    BY <1>1, <1>4, <2>2, <2>3, <2>4 DEF DepthInv, Counted
<1> QED
  BY <1>3, <1>5, <1>6

LEMMA DropDepth ==
  ASSUME TypeOK, DepthInv, GapsAreSmall, DropFrame
  PROVE  DepthInv'
<1>1. /\ queue \in Seq(Frames) /\ Len(queue) \in Nat /\ DOMAIN queue = 1 .. Len(queue)
      /\ MaxQueueSize \in Nat /\ ppc' = "loop" /\ eof' = eof
      /\ MaxQueueSize # 0 /\ framesInQueue > MaxQueueSize
  BY QueueShape, LimitsAssumption DEF DropFrame, HasSpace, ProducerGoes, TypeOK
<1>2. Len(queue) > MaxQueueSize /\ Len(queue) <= MaxQueueSize + 1 /\ Len(queue) >= 2
  BY <1>1 DEF DepthInv, Counted
<1>3. PICK i \in DOMAIN queue : queue' = Without(i) /\ framesInQueue' = framesInQueue - 1
  BY <1>2, VictimExists DEF DropFrame, DepthInv
<1>4. /\ Len(queue') = Len(queue) - 1
      /\ \A k \in 1 .. Len(queue) - 1 : queue'[k] = queue[IF k < i THEN k ELSE k + 1]
  BY <1>1, <1>3, WithoutLemma
<1>5. \A k \in 1 .. Len(queue) - 1 : (IF k < i THEN k ELSE k + 1) \in 1 .. Len(queue)
  BY <1>1
<1>6. Counted'
  BY <1>1, <1>3, <1>4, <1>5 DEF DepthInv, Counted
<1> QED
  BY <1>1, <1>2, <1>4, <1>6 DEF DepthInv

LEMMA SeekDepth ==
  ASSUME TypeOK, DepthInv, NEW c \in Clients, Seek(c)
  PROVE  DepthInv'
<1>1. UNCHANGED <<ppc, eof>>
  BY DEF Seek
<1>2. PICK p \in Offsets :
        IF IsRunning THEN SeekInQueue(p) \/ SeekSource(p)
                     ELSE UNCHANGED <<state, src, queue, counts, frontier>>
  BY DEF Seek
<1>3. CASE ~IsRunning
  BY <1>1, <1>2, <1>3, DepthUnchanged DEF counts, DepthInv, MadeRoom
<1>4. CASE SeekSource(p)
  <2>1. queue' = << >> /\ Len(queue') = 0 /\ framesInQueue' = 0
    BY <1>4 DEF SeekSource
  <2>2. Counted'
    BY <2>1 DEF Counted
  <2> QED
    BY <1>1, <2>1, <2>2, LimitsAssumption DEF DepthInv
<1>5. CASE SeekInQueue(p)
  <2>1. PICK n \in 0 .. Len(queue) :
          queue' = SubSeq(queue, n + 1, Len(queue)) /\ framesInQueue' = framesInQueue - n
    BY <1>5 DEF SeekInQueue
  <2> QED
    BY <1>1, <2>1, PrefixUncounted
<1> QED
  BY <1>2, <1>3, <1>4, <1>5

LEMMA DepthStep ==
  ASSUME FrameInv, DepthInv, VideoOnly, LeavesNoTrace, Lossy => GapsAreSmall, [Next]_vars
  PROVE  DepthInv'
<1>0. /\ TypeOK /\ TypeInv /\ Len(queue) \in Nat /\ MaxQueueSize \in Nat
  BY QueueShape, LimitsAssumption DEF FrameInv, ControlInv, TypeInv
<1> USE DEF ProducerGoes, ClientGoes, counts, history
<1>1. CASE UNCHANGED vars
  BY <1>1, DepthUnchanged DEF vars, DepthInv, MadeRoom
<1>2. CASE LockForRead
  BY <1>2, DepthUnchanged DEF LockForRead, MadeRoom
<1>3. CASE CheckRunning \/ NoSpace \/ FullWait \/ Exit
  BY <1>3, DepthUnchanged DEF CheckRunning, NoSpace, FullWait, Exit, MadeRoom
<1>4. CASE SourceFrame
  BY <1>4, DepthUnchanged DEF SourceFrame, DepthInv, MadeRoom
<1>5. CASE SourceEof \/ SourceError \/ MarkEof
  BY <1>5, DepthUnchanged DEF SourceEof, SourceError, MarkEof, MadeRoom
<1>6. CASE Unlock
  BY <1>6, DepthUnchanged DEF Unlock, MadeRoom
<1>7. CASE EofSignal \/ EofWait
  BY <1>7, DepthUnchanged DEF EofSignal, EofWait, MadeRoom
<1>8. CASE EnoughSpace
  <2>1. MaxQueueSize = 0 \/ Len(queue) <= MaxQueueSize
    BY <1>8 DEF EnoughSpace, HasSpace, DepthInv, Counted
  <2> QED
    BY <1>8, <2>1, DepthUnchanged DEF EnoughSpace
<1>9. CASE Deposit
  BY <1>9, DepositDepth
<1>10. CASE DropFrame
  BY <1>0, <1>10, DropDepth DEF DropFrame, MayDrop
<1>11. ASSUME NEW c \in Clients, Client(c) PROVE DepthInv'
  <2>1. CASE Open(c)
    <3>1. UNCHANGED <<queue, eof>> /\ framesInQueue' = 0 /\ queue = << >> /\ Len(queue) = 0
      BY <2>1 DEF Open, DepthInv, Counted
    <3>2. framesInQueue' = framesInQueue /\ ppc' \in {"loop", "off"} /\ ppc = "off"
      BY <2>1, <3>1 DEF Open, DepthInv, Counted
    <3> QED
      BY <1>0, <3>1, <3>2, DepthUnchanged
  <2>2. CASE Begin(c)
    BY <2>2, DepthUnchanged
       DEF Begin, BeginRead, BeginSeek, BeginEdit, BeginClose, DepthInv, MadeRoom
  <2>3. CASE ReadState(c) \/ SeekLock(c) \/ EditLock(c) \/ CloseMark(c)
    BY <2>3, DepthUnchanged DEF ReadState, SeekLock, EditLock, CloseMark, DepthInv, MadeRoom
  <2>4. CASE PopEmpty(c) \/ WaitFrame(c) \/ WaitTimeout(c) \/ RecheckEof(c)
    BY <2>4, DepthUnchanged DEF PopEmpty, WaitFrame, WaitTimeout, RecheckEof, DepthInv, MadeRoom
  <2>5. CASE EditUnlock(c) \/ CloseSignal(c) \/ CloseJoin(c)
    BY <2>5, DepthUnchanged DEF EditUnlock, CloseSignal, CloseJoin, DepthInv, MadeRoom
  <2>6. CASE PopFrame(c)
    <3>1. queue # << >> /\ queue \in Seq(Frames) /\ 1 \in 1 .. Len(queue) /\ 1 \in 0 .. Len(queue)
      BY <1>0, <2>6, QueueShape, EmptySeq DEF PopFrame
    <3>2. Head(queue).media = "video"
      BY <3>1 DEF DepthInv, Counted
    <3>3. queue' = SubSeq(queue, 1 + 1, Len(queue)) /\ framesInQueue' = framesInQueue - 1
      BY <2>6, <3>1, <3>2, HeadTailProperties DEF PopFrame
    <3> QED
      BY <1>0, <2>6, <3>1, <3>3, PrefixUncounted DEF PopFrame
  <2>7. CASE Seek(c)
    BY <1>0, <2>7, SeekDepth
  <2>8. CASE CloseFlush(c)
    <3>1. queue' = << >> /\ Len(queue') = 0 /\ framesInQueue' = 0 /\ UNCHANGED <<ppc, eof>>
      BY <1>0, <2>8 DEF CloseFlush, DepthInv, Counted
    <3>2. Counted'
      BY <3>1 DEF Counted
    <3> QED
      BY <1>0, <3>1, <3>2 DEF DepthInv
  <2> QED
    BY <1>11, <2>1, <2>2, <2>3, <2>4, <2>5, <2>6, <2>7, <2>8 DEF Client, ClientLocks, ClientSteps
<1> QED
  BY <1>1, <1>2, <1>3, <1>4, <1>5, <1>6, <1>7, <1>8, <1>9, <1>10, <1>11
     DEF Next, Producer, ProducerLocks, ProducerSteps

\* A stream of video holds one frame more than its limit at most and nothing once it is closed,
\* for any callers, seeks and sources: a clip waits for the reader, and a live stream whose
\* frames are less than MaxDropGap apart always finds one to drop.
THEOREM LiveQueueBoundedHolds ==
  ASSUME VideoOnly, LeavesNoTrace, Lossy => GapsAreSmall
  PROVE  Spec => []LiveQueueBounded
<1>1. Init => DepthInv
  BY LimitsAssumption DEF Init, DepthInv, Counted, MadeRoom
<1>2. FrameInv /\ DepthInv /\ [Next]_vars => DepthInv'
  BY DepthStep
<1>3. FrameInv /\ DepthInv => DepthBounded
  <2> SUFFICES ASSUME FrameInv, DepthInv PROVE DepthBounded
    OBVIOUS
  <2>1. Len(queue) \in Nat /\ DOMAIN queue = 1 .. Len(queue) /\ MaxQueueSize \in Nat
    BY QueueShape, LimitsAssumption DEF FrameInv, ControlInv, TypeInv
  <2>2. IsFiniteSet(1 .. Len(queue)) /\ Cardinality(1 .. Len(queue)) = Len(queue)
    <3>1. 1 \in Int /\ Len(queue) \in Int
      BY <2>1
    <3>2. Cardinality(1 .. Len(queue)) = IF 1 > Len(queue) THEN 0 ELSE Len(queue) - 1 + 1
      BY <3>1, FS_Interval
    <3>3. IsFiniteSet(1 .. Len(queue))
      BY <3>1, FS_Interval
    <3> QED
      BY <2>1, <3>2, <3>3
  <2>3. VideoInQueue \in Nat /\ VideoInQueue <= Len(queue)
    <3>1. {i \in DOMAIN queue : queue[i].media = "video"} \subseteq 1 .. Len(queue)
      BY <2>1
    <3> QED
      BY <2>2, <3>1, FS_Subset, FS_CardinalityType DEF VideoInQueue
  <2> QED
    BY <2>1, <2>3 DEF DepthInv, DepthBounded
<1>4. FrameInv /\ EndInv => ClosedIsQuiet
  BY DEF FrameInv, ControlInv, TypeInv, LockInv, EndInv, QuietInv, ClosedIsQuiet, ClosePCs
<1> QED
  BY <1>1, <1>2, <1>3, <1>4, FrameInit, FrameStep, EndInit, EndStep, PTL
     DEF Spec, LiveQueueBounded
=============================================================================
