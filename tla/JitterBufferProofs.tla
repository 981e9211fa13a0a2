------------------------- MODULE JitterBufferProofs -------------------------
(***************************************************************************)
(* Proofs about JitterBuffer, for every length of the buffer, every source *)
(* and every sequence of pauses.  First what the three changes of a queue  *)
(* (insert, drop, put back) do to a sorted sequence, then an invariant     *)
(* that relates the history, the queue and what was returned last to the   *)
(* newest timestamp read.                                                  *)
(***************************************************************************)
EXTENDS JitterBuffer, SequenceTheorems, TLAPS

(***************************************************************************)
(* Sorted queues                                                           *)
(***************************************************************************)

LEMMA FrameAt ==
  ASSUME NEW q \in Seq(Frame), NEW i \in 1..Len(q)
  PROVE  q[i] \in Frame /\ q[i].pts \in Nat /\ q[i].video \in BOOLEAN
<1>1. q[i] \in Frame
  BY LenProperties
<1> QED
  BY <1>1 DEF Frame

\* What is left when the first k frames are dropped.
LEMMA DropProperties ==
  ASSUME NEW q \in Seq(Frame), NEW k \in 0..Len(q)
  PROVE  /\ Drop(q, k) \in Seq(Frame) /\ Len(Drop(q, k)) = Len(q) - k
         /\ \A i \in 1..(Len(q) - k) : Drop(q, k)[i] = q[k + i]
<1>1. Len(q) \in Nat /\ \A i \in 1..Len(q) : q[i] \in Frame
  BY LenProperties, FrameAt
<1>2. /\ SubSeq(q, k + 1, Len(q)) \in Seq(Frame)
      /\ Len(SubSeq(q, k + 1, Len(q)))
           = IF k + 1 <= Len(q) THEN Len(q) - (k + 1) + 1 ELSE 0
      /\ \A i \in 1..(Len(q) - (k + 1) + 1) : SubSeq(q, k + 1, Len(q))[i] = q[k + 1 + i - 1]
  BY <1>1, SubSeqProperties
<1> QED
  BY <1>1, <1>2 DEF Drop

LEMMA DropInOrder ==
  ASSUME NEW q \in Seq(Frame), NEW k \in 0..Len(q), InOrder(q)
  PROVE  InOrder(Drop(q, k))
<1> DEFINE d == Drop(q, k)
<1>1. /\ Len(q) \in Nat /\ Len(d) = Len(q) - k
      /\ \A i \in 1..(Len(q) - k) : d[i] = q[k + i]
  BY LenProperties, DropProperties
<1> HIDE DEF d
<1>2. ASSUME NEW i \in 1..Len(d), NEW j \in 1..Len(d), i < j
      PROVE  d[i].pts <= d[j].pts
  <2>1. /\ k + i \in 1..Len(q) /\ k + j \in 1..Len(q) /\ k + i < k + j
        /\ d[i] = q[k + i] /\ d[j] = q[k + j]
    BY <1>1, <1>2
  <2> QED
    BY <2>1 DEF InOrder
<1> QED
  BY <1>2 DEF InOrder, d

\* The queue keeps its last frame when it is reduced.
LEMMA ReductionKeepsLast ==
  ASSUME NEW q \in Seq(Frame), q # << >>, NEW k \in Reductions(q, q[Len(q)].pts)
  PROVE  k \in 0..Len(q) /\ k < Len(q)
<1>1. Len(q) \in Nat \ {0}
  BY LenProperties, EmptySeq
<1>2. k \in 0..Len(q) /\ \A i \in 1..k : q[Len(q)].pts - q[i].pts > PausedTime
  BY DEF Reductions
<1>3. q[Len(q)].pts \in Nat
  BY <1>1, FrameAt
<1> QED
  BY <1>1, <1>2, <1>3, TimesAssumption

\* Putting a history back in front of a queue that continues it.
LEMMA ConcatInOrder ==
  ASSUME NEW p \in Seq(Frame), NEW q \in Seq(Frame), InOrder(p), InOrder(q),
         \A i \in 1..Len(p), j \in 1..Len(q) : p[i].pts <= q[j].pts
  PROVE  InOrder(p \o q)
<1>1. /\ Len(p) \in Nat /\ Len(q) \in Nat /\ Len(p \o q) = Len(p) + Len(q)
      /\ \A i \in 1..(Len(p) + Len(q)) :
           (p \o q)[i] = IF i <= Len(p) THEN p[i] ELSE q[i - Len(p)]
  BY LenProperties, ConcatProperties
<1>2. SUFFICES ASSUME NEW i \in 1..(Len(p) + Len(q)), NEW j \in 1..(Len(p) + Len(q)), i < j
               PROVE  (p \o q)[i].pts <= (p \o q)[j].pts
  BY <1>1 DEF InOrder
<1>3. CASE j <= Len(p)
  BY <1>1, <1>2, <1>3 DEF InOrder
<1>4. CASE i <= Len(p) /\ j > Len(p)
  <2>1. j - Len(p) \in 1..Len(q) /\ i \in 1..Len(p)
    BY <1>1, <1>4
  <2> QED
    BY <1>1, <1>4, <2>1
<1>5. CASE i > Len(p)
  <2>1. /\ i - Len(p) \in 1..Len(q) /\ j - Len(p) \in 1..Len(q)
        /\ i - Len(p) < j - Len(p)
    BY <1>1, <1>2, <1>5
  <2>2. (p \o q)[i] = q[i - Len(p)] /\ (p \o q)[j] = q[j - Len(p)]
    BY <1>1, <1>2, <1>5
  <2> QED
    BY <2>1, <2>2 DEF InOrder
<1> QED
  BY <1>1, <1>3, <1>4, <1>5

\* The queue after an insertion, place by place.
LEMMA InsertProperties ==
  ASSUME NEW q \in Seq(Frame), NEW k \in 0..Len(q), NEW f \in Frame
  PROVE  /\ InsertAfter(q, k, f) \in Seq(Frame)
         /\ Len(InsertAfter(q, k, f)) = Len(q) + 1
         /\ \A i \in 1..k : InsertAfter(q, k, f)[i] = q[i]
         /\ InsertAfter(q, k, f)[k + 1] = f
         /\ \A i \in (k + 2)..(Len(q) + 1) : InsertAfter(q, k, f)[i] = q[i - 1]
<1> DEFINE a == SubSeq(q, 1, k)
           b == SubSeq(q, k + 1, Len(q))
           r == a \o <<f>>
<1>1. Len(q) \in Nat /\ \A i \in 1..Len(q) : q[i] \in Frame
  BY LenProperties, FrameAt
<1>2. a \in Seq(Frame) /\ Len(a) = k /\ \A i \in 1..k : a[i] = q[i]
  <2>1. \A i \in 1..k : q[i] \in Frame
    BY <1>1
  <2>2. /\ a \in Seq(Frame) /\ Len(a) = IF 1 <= k THEN k - 1 + 1 ELSE 0
        /\ \A i \in 1..(k - 1 + 1) : a[i] = q[1 + i - 1]
    BY <2>1, SubSeqProperties
  <2> QED
    BY <2>2
<1>3. b \in Seq(Frame) /\ Len(b) = Len(q) - k /\ \A i \in 1..(Len(q) - k) : b[i] = q[k + i]
  BY DropProperties DEF Drop
<1>4. <<f>> \in Seq(Frame) /\ Len(<<f>>) = 1 /\ <<f>>[1] = f
  OBVIOUS
<1> HIDE DEF a, b
<1>5. /\ r \in Seq(Frame) /\ Len(r) = k + 1
      /\ \A i \in 1..(k + 1) : r[i] = IF i <= k THEN a[i] ELSE <<f>>[i - k]
  BY <1>2, <1>4, ConcatProperties
<1>6. r[k + 1] = f /\ \A i \in 1..k : r[i] = q[i]
  BY <1>2, <1>4, <1>5
<1> HIDE DEF r
<1>7. /\ r \o b \in Seq(Frame) /\ Len(r \o b) = Len(q) + 1
      /\ \A i \in 1..(Len(q) + 1) :
           (r \o b)[i] = IF i <= k + 1 THEN r[i] ELSE b[i - (k + 1)]
  <2>1. (k + 1) + (Len(q) - k) = Len(q) + 1
    BY <1>1
  <2>2. /\ r \o b \in Seq(Frame) /\ Len(r \o b) = Len(r) + Len(b)
        /\ \A i \in 1..(Len(r) + Len(b)) :
             (r \o b)[i] = IF i <= Len(r) THEN r[i] ELSE b[i - Len(r)]
    BY <1>3, <1>5, ConcatProperties
  <2>3. Len(r) = k + 1 /\ Len(b) = Len(q) - k
    BY <1>3, <1>5
  <2> QED
    BY <2>1, <2>2, <2>3
<1>8. InsertAfter(q, k, f) = r \o b
  BY DEF InsertAfter, r, a, b
<1>9. \A i \in (k + 2)..(Len(q) + 1) : (r \o b)[i] = q[i - 1]
  <2> SUFFICES ASSUME NEW i \in (k + 2)..(Len(q) + 1) PROVE (r \o b)[i] = q[i - 1]
    OBVIOUS
  <2>1. i - (k + 1) \in 1..(Len(q) - k) /\ (r \o b)[i] = b[i - (k + 1)]
    BY <1>1, <1>7
  <2>2. b[i - (k + 1)] = q[k + (i - (k + 1))] /\ k + (i - (k + 1)) = i - 1
    BY <1>1, <1>3, <2>1
  <2> QED
    BY <2>1, <2>2
<1>10. (r \o b)[k + 1] = f /\ \A i \in 1..k : (r \o b)[i] = q[i]
  <2>1. k + 1 \in 1..(Len(q) + 1) /\ \A i \in 1..k : i \in 1..(Len(q) + 1) /\ i <= k + 1
    BY <1>1
  <2>2. (r \o b)[k + 1] = r[k + 1]
    BY <1>7, <2>1
  <2>3. \A i \in 1..k : (r \o b)[i] = r[i]
    BY <1>7, <2>1
  <2> QED
    BY <1>6, <2>2, <2>3
<1> QED
  BY <1>1, <1>7, <1>8, <1>9, <1>10

\* Every frame of the new queue is f or was in the old one, and the other way.
LEMMA InsertElements ==
  ASSUME NEW q \in Seq(Frame), NEW k \in 0..Len(q), NEW f \in Frame
  PROVE  /\ \A i \in 1..(Len(q) + 1) :
              \/ InsertAfter(q, k, f)[i] = f
              \/ \E j \in 1..Len(q) : InsertAfter(q, k, f)[i] = q[j]
         /\ \A j \in 1..Len(q) : \E i \in 1..(Len(q) + 1) : InsertAfter(q, k, f)[i] = q[j]
<1>1. Len(q) \in Nat
  BY LenProperties
<1> DEFINE r == InsertAfter(q, k, f)
<1>2. /\ \A i \in 1..k : r[i] = q[i]
      /\ r[k + 1] = f
      /\ \A i \in (k + 2)..(Len(q) + 1) : r[i] = q[i - 1]
  BY InsertProperties
<1> HIDE DEF r
<1>3. ASSUME NEW i \in 1..(Len(q) + 1)
      PROVE  r[i] = f \/ \E j \in 1..Len(q) : r[i] = q[j]
  <2>1. CASE i \in 1..k
    BY <1>1, <1>2, <2>1
  <2>2. CASE i = k + 1
    BY <1>2, <2>2
  <2>3. CASE i \in (k + 2)..(Len(q) + 1)
    <3>1. i - 1 \in 1..Len(q) /\ r[i] = q[i - 1]
      BY <1>1, <1>2, <2>3
    <3> QED
      BY <3>1
  <2> QED
    BY <1>1, <2>1, <2>2, <2>3
<1>4. ASSUME NEW j \in 1..Len(q) PROVE \E i \in 1..(Len(q) + 1) : r[i] = q[j]
  <2>1. CASE j <= k
    BY <1>1, <1>2, <2>1
  <2>2. CASE j > k
    <3>1. j + 1 \in (k + 2)..(Len(q) + 1) /\ (j + 1) - 1 = j
      BY <1>1, <2>2
    <3>2. r[j + 1] = q[j] /\ j + 1 \in 1..(Len(q) + 1)
      BY <1>1, <1>2, <3>1
    <3> QED
      BY <3>2
  <2> QED
    BY <1>1, <2>1, <2>2
<1> QED
  BY <1>3, <1>4 DEF r

\* _jitbuf_append keeps a queue sorted.
LEMMA InsertInOrder ==
  ASSUME NEW q \in Seq(Frame), NEW f \in Frame, NEW k \in InsertPlaces(q, f.pts), InOrder(q)
  PROVE  InOrder(InsertAfter(q, k, f))
<1>1. /\ Len(q) \in Nat /\ k \in 0..Len(q) /\ f.pts \in Nat
      /\ k > 0 => q[k].pts <= f.pts
      /\ \A i \in (k + 1)..Len(q) : q[i].pts > f.pts
  BY LenProperties DEF InsertPlaces, Frame
<1>2. \A i \in 1..Len(q) : q[i].pts \in Nat
  BY FrameAt
<1> DEFINE r == InsertAfter(q, k, f)
<1>3. /\ Len(r) = Len(q) + 1
      /\ \A i \in 1..k : r[i] = q[i]
      /\ r[k + 1] = f
      /\ \A i \in (k + 2)..(Len(q) + 1) : r[i] = q[i - 1]
  BY <1>1, InsertProperties
<1> HIDE DEF r
<1>4. \A i \in 1..k : q[i].pts <= f.pts
  <2> SUFFICES ASSUME NEW i \in 1..k PROVE q[i].pts <= f.pts
    OBVIOUS
  <2>1. k > 0 /\ k \in 1..Len(q) /\ i \in 1..Len(q)
    BY <1>1
  <2>2. i = k \/ q[i].pts <= q[k].pts
    BY <1>1, <2>1 DEF InOrder
  <2> QED
    BY <1>1, <1>2, <2>1, <2>2
<1>5. SUFFICES ASSUME NEW i \in 1..(Len(q) + 1), NEW j \in 1..(Len(q) + 1), i < j
               PROVE  r[i].pts <= r[j].pts
  BY <1>3 DEF InOrder, r
<1>6. CASE j <= k
  <2>1. i \in 1..Len(q) /\ j \in 1..Len(q) /\ r[i] = q[i] /\ r[j] = q[j]
    BY <1>1, <1>3, <1>5, <1>6
  <2> QED
    BY <1>5, <2>1 DEF InOrder
<1>7. CASE j = k + 1
  <2>1. i \in 1..k
    BY <1>1, <1>5, <1>7
  <2> QED
    BY <1>3, <1>4, <1>7, <2>1
<1>8. CASE j > k + 1
  <2>1. j - 1 \in (k + 1)..Len(q) /\ j - 1 \in 1..Len(q) /\ r[j] = q[j - 1]
    BY <1>1, <1>3, <1>5, <1>8
  <2>2. CASE i <= k
    <3>1. i \in 1..Len(q) /\ i < j - 1 /\ r[i] = q[i]
      BY <1>1, <1>3, <1>8, <2>2
    <3> QED
      BY <2>1, <3>1 DEF InOrder
  <2>3. CASE i = k + 1
    BY <1>1, <1>2, <1>3, <2>1, <2>3
  <2>4. CASE i > k + 1
    <3>1. i - 1 \in 1..Len(q) /\ i - 1 < j - 1 /\ r[i] = q[i - 1]
      BY <1>1, <1>3, <1>5, <2>4
    <3> QED
      BY <2>1, <3>1 DEF InOrder
  <2> QED
    BY <1>1, <2>2, <2>3, <2>4
<1> QED
  BY <1>1, <1>6, <1>7, <1>8

(***************************************************************************)
(* Types.  The sequences are typed apart from the numbers.                 *)
(***************************************************************************)

LEMMA InitTyped == Init => TypeOK
<1>1. << >> \in Seq(Frame)
  BY EmptySeq
<1>2. Init => last \in [BOOLEAN -> Nat \cup {Never}]
  BY Zenon DEF Init
<1>3. Init => frameQueue \in Seq(Frame) /\ pastFrameQueue \in Seq(Frame)
  BY <1>1 DEF Init
<1>4. Init => /\ bufferTime \in Nat /\ determinedEncoderDelay \in BOOLEAN /\ paused \in BOOLEAN
              /\ lastVideoPastFramePts \in Nat /\ lastVideoServedFramePts \in Nat
              /\ prebufferEndPts \in Nat /\ framesRead \in Nat /\ newest \in Nat
  <2>1. Init => /\ bufferTime = BufferTime
                /\ lastVideoPastFramePts = 0 /\ lastVideoServedFramePts = 0
                /\ prebufferEndPts = 0 /\ framesRead = 0 /\ newest = 0
    BY Zenon DEF Init
  <2>2. Init => determinedEncoderDelay \in BOOLEAN /\ paused \in BOOLEAN
    BY Zenon DEF Init
  <2>3. BufferTime \in Nat
    BY TimesAssumption
  <2> QED
    BY <2>1, <2>2, <2>3
<1>5. Init => /\ pc \in {"idle", "get", "source"} /\ result \in {"frame", "none"}
              /\ waiting \subseteq Frame /\ waited \in Nat \cup {Never} /\ late \in BOOLEAN
  BY DEF Init
<1> QED
  BY <1>2, <1>3, <1>4, <1>5 DEF TypeOK

LEMMA GetPausedTyped == TypeOK /\ GetPaused => TypeOK'
<1> SUFFICES ASSUME TypeOK, GetPaused PROVE TypeOK'
  OBVIOUS
<1> USE DEF TypeOK
<1>1. Restored \in Seq(Frame)
  BY ConcatProperties DEF Restored
<1>2. PICK k \in Reductions(Restored, Newest.pts) : frameQueue' = Drop(Restored, k)
  BY DEF GetPaused
<1>3. frameQueue' \in Seq(Frame)
  BY <1>1, <1>2, DropProperties DEF Reductions
<1>4. pastFrameQueue' \in Seq(Frame)
  BY EmptySeq, Zenon DEF GetPaused, ClearHistory, served
<1>5. last' \in [BOOLEAN -> Nat \cup {Never}]
  BY DEF GetPaused, ClearHistory
<1>6. /\ lastVideoPastFramePts' \in Nat /\ lastVideoServedFramePts' \in Nat
      /\ prebufferEndPts' \in Nat
  BY DEF GetPaused, ClearHistory, served
<1> QED
  BY <1>3, <1>4, <1>5, <1>6 DEF GetPaused, config, input

\* The two ends of a queue that is not empty.
LEMMA Ends ==
  ASSUME TypeOK, frameQueue # << >>
  PROVE  /\ Len(frameQueue) \in Nat \ {0}
         /\ Oldest = frameQueue[1] /\ Oldest \in Frame /\ Newest \in Frame
         /\ Oldest.pts \in Nat /\ Newest.pts \in Nat /\ Oldest.video \in BOOLEAN
         /\ Span = Newest.pts - Oldest.pts
<1>1. Len(frameQueue) \in Nat \ {0} /\ Oldest = frameQueue[1]
  BY LenProperties, EmptySeq DEF TypeOK, Oldest
<1>2. frameQueue[1] \in Frame /\ frameQueue[Len(frameQueue)] \in Frame
  BY <1>1, FrameAt DEF TypeOK
<1>3. frameQueue[1].pts \in Nat /\ frameQueue[Len(frameQueue)].pts \in Nat
      /\ frameQueue[1].video \in BOOLEAN
  BY <1>2 DEF Frame
<1> QED
  BY <1>1, <1>2, <1>3 DEF Oldest, Newest, Span

LEMMA GetTooSoonTyped == TypeOK /\ GetTooSoon => TypeOK'
<1> SUFFICES ASSUME TypeOK, GetTooSoon PROVE TypeOK'
  OBVIOUS
<1>1. prebufferEndPts' \in Nat
  BY Ends DEF GetTooSoon, Ready, NotePrebufferEnd, TypeOK
<1> QED
  BY <1>1 DEF TypeOK, GetTooSoon, config, input, history

LEMMA GetFillerTyped == TypeOK /\ GetFiller => TypeOK'
<1> SUFFICES ASSUME TypeOK, GetFiller PROVE TypeOK'
  OBVIOUS
<1>1. lastVideoServedFramePts' \in Nat
  BY TimesAssumption DEF GetFiller, TypeOK
<1>2. last' \in [BOOLEAN -> Nat \cup {Never}]
  BY <1>1 DEF GetFiller, TypeOK
<1> QED
  BY <1>1, <1>2 DEF TypeOK, GetFiller, Return, config, input

LEMMA SaveTyped ==
  ASSUME TypeOK, NEW f \in Frame, SaveForJumpstart(f)
  PROVE  pastFrameQueue' \in Seq(Frame) /\ lastVideoPastFramePts' \in Nat
<1>1. CASE Jumpstart /\ ShouldSave(f)
  <2>1. PICK k \in Reductions(Append(pastFrameQueue, f), Newest.pts) :
          pastFrameQueue' = Drop(Append(pastFrameQueue, f), k)
    BY <1>1 DEF SaveForJumpstart
  <2>2. Append(pastFrameQueue, f) \in Seq(Frame)
    BY AppendProperties DEF TypeOK
  <2>3. pastFrameQueue' \in Seq(Frame)
    BY <2>1, <2>2, DropProperties DEF Reductions
  <2>4. lastVideoPastFramePts' \in Nat
    BY <1>1 DEF SaveForJumpstart, TypeOK, Frame
  <2> QED
    BY <2>3, <2>4
<1>2. CASE ~(Jumpstart /\ ShouldSave(f))
  BY <1>2 DEF SaveForJumpstart, TypeOK
<1> QED
  BY <1>1, <1>2

LEMMA GetFrameTyped == TypeOK /\ GetFrame => TypeOK'
<1> SUFFICES ASSUME TypeOK, GetFrame PROVE TypeOK'
  OBVIOUS
<1>1. frameQueue # << >>
  BY DEF GetFrame, Due, Ready
<1>2. pastFrameQueue' \in Seq(Frame) /\ lastVideoPastFramePts' \in Nat
  BY <1>1, Ends, SaveTyped DEF GetFrame
<1>3. frameQueue' \in Seq(Frame)
  BY <1>1, HeadTailProperties DEF GetFrame, TypeOK
<1>4. lastVideoServedFramePts' \in Nat /\ prebufferEndPts' \in Nat
  BY <1>1, Ends DEF GetFrame, NotePrebufferEnd, TypeOK
<1>5. last' \in [BOOLEAN -> Nat \cup {Never}]
  BY <1>1, Ends DEF GetFrame, TypeOK
<1>6. waited' \in Nat \cup {Never} /\ late' \in BOOLEAN
  BY DEF GetFrame, TypeOK
<1> QED
  BY <1>2, <1>3, <1>4, <1>5, <1>6 DEF TypeOK, GetFrame, Return, config, input

\* What a frame from the source does, with its timestamp and its place named.
LEMMA SourceFrameSteps ==
  ASSUME TypeOK, SourceFrame
  PROVE  \E f \in Frame : \E k \in InsertPlaces(frameQueue, f.pts) :
           /\ f.n = framesRead + 1
           /\ frameQueue' = InsertAfter(frameQueue, k, f)
           /\ waiting' = waiting \cup {f}
           /\ newest' = IF f.pts > newest THEN f.pts ELSE newest
           /\ late' = (late \/ (waited # Never /\ f.pts < newest - waited))
<1>1. PICK p \in 0..MaxPts, v \in BOOLEAN :
        /\ \E k \in InsertPlaces(frameQueue, p) :
             frameQueue' = InsertAfter(frameQueue, k, [n |-> framesRead + 1, pts |-> p, video |-> v])
        /\ late' = (late \/ (waited # Never /\ p < newest - waited))
        /\ waiting' = waiting \cup {[n |-> framesRead + 1, pts |-> p, video |-> v]}
        /\ newest' = IF p > newest THEN p ELSE newest
  BY DEF SourceFrame
<1> DEFINE f == [n |-> framesRead + 1, pts |-> p, video |-> v]
<1>2. f \in Frame /\ f.pts = p /\ f.n = framesRead + 1
  BY TimesAssumption DEF TypeOK, Frame
<1> HIDE DEF f
<1> QED
  BY <1>1, <1>2 DEF f

LEMMA DelayStep ==
  ASSUME TypeOK, NEW d \in Delays, DetermineDelay(d)
  PROVE  bufferTime' \in Nat /\ bufferTime' >= bufferTime /\ determinedEncoderDelay' \in BOOLEAN
<1>1. CASE d = NoParam
  BY <1>1 DEF DetermineDelay, TypeOK
<1>2. CASE d # NoParam
  <2>1. d \in Int
    BY <1>2, DelaysAssumption
  <2> QED
    BY <2>1 DEF DetermineDelay, TypeOK
<1> QED
  BY <1>1, <1>2

LEMMA SourceFrameTyped == TypeOK /\ SourceFrame => TypeOK'
<1> SUFFICES ASSUME TypeOK, SourceFrame PROVE TypeOK'
  OBVIOUS
<1>1. PICK f \in Frame : \E k \in InsertPlaces(frameQueue, f.pts) :
        /\ frameQueue' = InsertAfter(frameQueue, k, f)
        /\ waiting' = waiting \cup {f}
        /\ newest' = IF f.pts > newest THEN f.pts ELSE newest
        /\ late' = (late \/ (waited # Never /\ f.pts < newest - waited))
  BY SourceFrameSteps
<1>2. frameQueue' \in Seq(Frame)
  BY <1>1, InsertProperties DEF TypeOK, InsertPlaces
<1>3. bufferTime' \in Nat /\ determinedEncoderDelay' \in BOOLEAN
  <2>1. PICK d \in Delays : DetermineDelay(d)
    BY DEF SourceFrame
  <2> QED
    BY <2>1, DelayStep
<1>4. newest' \in Nat /\ waiting' \subseteq Frame /\ framesRead' \in Nat
  BY <1>1 DEF SourceFrame, TypeOK, Frame
<1>5. late' \in BOOLEAN /\ waited' = waited
  BY <1>1 DEF SourceFrame
<1> QED
  BY <1>2, <1>3, <1>4, <1>5 DEF TypeOK, SourceFrame, served

LEMMA OtherTyped ==
  TypeOK /\ (SetPaused \/ SetReset \/ ReadFrame \/ GetNotReady \/ SourceEmpty \/ UNCHANGED vars)
    => TypeOK'
BY DEF TypeOK, SetPaused, SetReset, ReadFrame, GetNotReady, SourceEmpty, vars, config, served,
       input, history

LEMMA NextTyped == TypeOK /\ [Next]_vars => TypeOK'
BY GetPausedTyped, GetTooSoonTyped, GetFillerTyped, GetFrameTyped, SourceFrameTyped, OtherTyped
   DEF Next, InCall

(* The variables of the jitter buffer keep their types: the queues hold     *)
(* frames, and the buffer time stays a time whatever the encoder answers.   *)
THEOREM JitterTypeCorrect == Spec => []TypeOK
BY InitTyped, NextTyped, PTL DEF Spec

(***************************************************************************)
(* The invariant.  A frame leaves the queue when the newest timestamp is   *)
(* more than bufferTime ahead, and bufferTime never gets shorter, so what  *)
(* left is no later than anything that is not late.                        *)
(***************************************************************************)

HistoryFirst ==
  /\ InOrder(pastFrameQueue) /\ InOrder(frameQueue)
  /\ \A i \in 1..Len(pastFrameQueue), j \in 1..Len(frameQueue) :
       pastFrameQueue[i].pts <= frameQueue[j].pts

NothingBeforeReturned ==
  \A v \in BOOLEAN, j \in 1..Len(frameQueue) : last[v] <= frameQueue[j].pts

\* what a late frame breaks
Sorted == HistoryFirst /\ NothingBeforeReturned

ServedIsLast == lastVideoServedFramePts = 0 \/ last[TRUE] = lastVideoServedFramePts

NothingReturned ==
  pastFrameQueue = << >> /\ lastVideoServedFramePts = 0 /\ \A v \in BOOLEAN : last[v] = Never

OlderThan(t) ==
  /\ \A i \in 1..Len(pastFrameQueue) : pastFrameQueue[i].pts <= t
  /\ \A v \in BOOLEAN : last[v] = Never \/ last[v] <= t

ReturnedIsOld == IF waited = Never THEN NothingReturned ELSE OlderThan(newest - waited)

NewestQueued ==
  IF frameQueue = << >> THEN newest = 0 ELSE frameQueue[Len(frameQueue)].pts = newest

WaitsAsLong == waited = Never \/ waited <= bufferTime

JitterInv ==
  /\ TypeOK /\ ServedIsLast /\ ReturnedIsOld /\ NewestQueued /\ WaitsAsLong
  /\ late \/ Sorted

\* Steps that change none of the variables the invariant relates.
LEMMA QuietStep ==
  ASSUME JitterInv, TypeOK',
         UNCHANGED <<frameQueue, pastFrameQueue, last, lastVideoServedFramePts, newest, bufferTime,
                     waited, late>>
  PROVE  JitterInv'
BY DEF JitterInv, Sorted, HistoryFirst, NothingBeforeReturned, ServedIsLast, ReturnedIsOld,
       NothingReturned, OlderThan, NewestQueued, WaitsAsLong, InOrder

LEMMA InitInv == Init => JitterInv
<1> SUFFICES ASSUME Init PROVE JitterInv
  OBVIOUS
<1>1. Len(frameQueue) = 0 /\ Len(pastFrameQueue) = 0
  BY DEF Init
<1>2. \A v \in BOOLEAN : last[v] = Never
  BY DEF Init
<1> QED
  BY <1>1, <1>2, InitTyped, TimesAssumption
     DEF Init, JitterInv, Sorted, HistoryFirst, NothingBeforeReturned, ServedIsLast, ReturnedIsOld,
         NothingReturned, NewestQueued, WaitsAsLong, InOrder

LEMMA AtMostTransitive ==
  ASSUME NEW a \in Int, NEW b \in Int, NEW c \in Int, a <= b, b <= c
  PROVE  a <= c
OBVIOUS

\* The frames of a sorted queue lie between its ends.
LEMMA BetweenEnds ==
  ASSUME NEW q \in Seq(Frame), q # << >>, InOrder(q), NEW i \in 1..Len(q)
  PROVE  q[1].pts <= q[i].pts /\ q[i].pts <= q[Len(q)].pts
<1>1. Len(q) \in Nat \ {0} /\ 1 \in 1..Len(q) /\ Len(q) \in 1..Len(q)
  BY LenProperties, EmptySeq
<1>2. q[1].pts \in Nat /\ q[i].pts \in Nat /\ q[Len(q)].pts \in Nat
  BY <1>1, FrameAt
<1>3. i = 1 \/ q[1].pts <= q[i].pts
  BY <1>1 DEF InOrder
<1>4. i = Len(q) \/ q[i].pts <= q[Len(q)].pts
  BY <1>1 DEF InOrder
<1> QED
  BY <1>2, <1>3, <1>4

LEMMA GetPausedKeeps == JitterInv /\ GetPaused => JitterInv'
<1> SUFFICES ASSUME JitterInv, GetPaused PROVE JitterInv'
  OBVIOUS
<1>1. TypeOK /\ TypeOK' /\ frameQueue # << >>
  BY GetPausedTyped DEF JitterInv, GetPaused, Ready
<1>2. /\ pastFrameQueue \in Seq(Frame) /\ frameQueue \in Seq(Frame)
      /\ newest \in Nat /\ last \in [BOOLEAN -> Nat \cup {Never}]
      /\ Len(pastFrameQueue) \in Nat /\ Len(frameQueue) \in Nat \ {0}
  BY <1>1, LenProperties, EmptySeq DEF TypeOK
<1>3. PICK k \in Reductions(Restored, Newest.pts) : frameQueue' = Drop(Restored, k)
  BY DEF GetPaused
<1>4. /\ Restored \in Seq(Frame) /\ Len(Restored) = Len(pastFrameQueue) + Len(frameQueue)
      /\ \A i \in 1..(Len(pastFrameQueue) + Len(frameQueue)) :
           Restored[i] = IF i <= Len(pastFrameQueue)
                         THEN pastFrameQueue[i] ELSE frameQueue[i - Len(pastFrameQueue)]
  BY <1>2, ConcatProperties DEF Restored
<1>5. ~late => InOrder(Restored)
  BY <1>2, ConcatInOrder DEF Restored, JitterInv, Sorted, HistoryFirst
<1>6. Restored[Len(Restored)] = Newest /\ Restored # << >>
  <2>1. Len(Restored) \in 1..(Len(pastFrameQueue) + Len(frameQueue))
        /\ Len(Restored) > Len(pastFrameQueue)
        /\ Len(Restored) - Len(pastFrameQueue) = Len(frameQueue)
    BY <1>2, <1>4
  <2> QED
    BY <1>4, <2>1 DEF Newest
<1>7. k \in 0..Len(Restored) /\ k < Len(Restored)
  BY <1>3, <1>4, <1>6, ReductionKeepsLast
<1>8. /\ frameQueue' \in Seq(Frame) /\ Len(frameQueue') = Len(Restored) - k
      /\ \A i \in 1..Len(frameQueue') : frameQueue'[i] = Restored[k + i]
  BY <1>3, <1>4, <1>7, DropProperties
<1>9. ~late => InOrder(frameQueue')
  BY <1>3, <1>4, <1>5, <1>7, DropInOrder
<1>10. frameQueue' # << >> /\ frameQueue'[Len(frameQueue')] = Newest
  <2>1. Len(frameQueue') \in 1..Len(frameQueue') /\ k + Len(frameQueue') = Len(Restored)
    BY <1>2, <1>4, <1>7, <1>8
  <2> QED
    BY <1>6, <1>8, <2>1
<1>11. NewestQueued'
  BY <1>1, <1>10 DEF NewestQueued, JitterInv, GetPaused, input, Newest
<1>12. WaitsAsLong' /\ late' = late /\ waited' = waited /\ newest' = newest
  BY DEF WaitsAsLong, JitterInv, GetPaused, config, input
<1>13. CASE pastFrameQueue = << >>
  <2>1. /\ Restored = frameQueue /\ pastFrameQueue' = pastFrameQueue /\ last' = last
        /\ lastVideoServedFramePts' = lastVideoServedFramePts /\ newest' = newest
    BY <1>2, <1>13, ConcatEmptySeq DEF Restored, GetPaused, ClearHistory, served, input
  <2>2. Len(pastFrameQueue') = 0
    BY <1>13, <2>1
  <2>3. ASSUME ~late PROVE HistoryFirst'
    BY <1>9, <2>2, <2>3 DEF HistoryFirst, InOrder
  <2>4. ASSUME ~late PROVE NothingBeforeReturned'
    <3>1. ASSUME NEW v \in BOOLEAN, NEW j \in 1..Len(frameQueue')
          PROVE  last[v] <= frameQueue'[j].pts
      <4>1. k + j \in 1..Len(frameQueue) /\ frameQueue'[j] = frameQueue[k + j]
        <5>1. k \in 0..Len(frameQueue) /\ Len(frameQueue') = Len(frameQueue) - k
          BY <1>7, <1>8, <2>1
        <5>2. k + j \in 1..Len(frameQueue)
          BY <1>2, <5>1
        <5> QED
          BY <1>8, <2>1, <5>2
      <4> QED
        BY <2>4, <4>1 DEF JitterInv, Sorted, NothingBeforeReturned
    <3> QED
      BY <2>1, <3>1 DEF NothingBeforeReturned
  <2>5. ReturnedIsOld' /\ ServedIsLast'
    BY <1>12, <2>1 DEF JitterInv, ServedIsLast, ReturnedIsOld, NothingReturned, OlderThan
  <2>6. late' \/ Sorted'
    BY <1>12, <2>3, <2>4 DEF Sorted
  <2> QED
    BY <1>1, <1>11, <1>12, <2>5, <2>6 DEF JitterInv
<1>14. CASE pastFrameQueue # << >>
  <2>1. /\ pastFrameQueue' = << >> /\ lastVideoServedFramePts' = 0
        /\ \A v \in BOOLEAN : last'[v] = Never
    BY <1>14 DEF GetPaused, ClearHistory
  <2>2. Len(pastFrameQueue') = 0
    BY <2>1
  <2>3. ASSUME ~late PROVE HistoryFirst'
    BY <1>9, <2>2, <2>3 DEF HistoryFirst, InOrder
  <2>4. NothingBeforeReturned'
    <3>1. \A j \in 1..Len(frameQueue') : frameQueue'[j].pts \in Nat
      BY <1>8, FrameAt
    <3> QED
      BY <2>1, <3>1 DEF NothingBeforeReturned, Never
  <2>5. ReturnedIsOld' /\ ServedIsLast'
    BY <2>1, <2>2 DEF ServedIsLast, ReturnedIsOld, NothingReturned, OlderThan
  <2>6. late' \/ Sorted'
    BY <1>12, <2>3, <2>4 DEF Sorted
  <2> QED
    BY <1>1, <1>11, <1>12, <2>5, <2>6 DEF JitterInv
<1> QED
  BY <1>13, <1>14

LEMMA GetFillerKeeps == JitterInv /\ GetFiller => JitterInv'
<1> SUFFICES ASSUME JitterInv, GetFiller PROVE JitterInv'
  OBVIOUS
<1>1. TypeOK /\ TypeOK' /\ frameQueue # << >>
  BY GetFillerTyped DEF JitterInv, GetFiller, Due, Ready
<1>2. /\ frameQueue \in Seq(Frame) /\ newest \in Nat /\ bufferTime \in Nat
      /\ lastVideoServedFramePts \in Nat /\ last \in [BOOLEAN -> Nat \cup {Never}]
  BY <1>1 DEF TypeOK
<1>3. /\ Oldest = frameQueue[1] /\ Oldest.pts \in Nat /\ Newest.pts = newest
      /\ newest - Oldest.pts > bufferTime
  BY <1>1, Ends DEF GetFiller, Due, JitterInv, NewestQueued, Newest
<1>4. Oldest.pts - lastVideoServedFramePts > TargetGap
  BY DEF GetFiller, NeedsFiller
<1>5. waited \in Nat /\ waited <= bufferTime
  BY <1>1 DEF GetFiller, NeedsFiller, StartingUp, JitterInv, TypeOK, WaitsAsLong, ReturnedIsOld,
     NothingReturned
<1>6. /\ last'[TRUE] = lastVideoServedFramePts + TargetGap /\ last'[FALSE] = last[FALSE]
      /\ lastVideoServedFramePts' = lastVideoServedFramePts + TargetGap
  BY <1>2 DEF GetFiller
<1>7. last'[TRUE] <= Oldest.pts /\ last'[TRUE] <= newest - waited
  BY <1>2, <1>3, <1>4, <1>5, <1>6, TimesAssumption
<1>8. ASSUME ~late
      PROVE  \A j \in 1..Len(frameQueue) : Oldest.pts <= frameQueue[j].pts /\ frameQueue[j].pts \in Nat
  BY <1>1, <1>2, <1>3, <1>8, BetweenEnds, FrameAt DEF JitterInv, Sorted, HistoryFirst
<1>9. /\ frameQueue' = frameQueue /\ pastFrameQueue' = pastFrameQueue /\ newest' = newest
      /\ bufferTime' = bufferTime /\ waited' = waited /\ late' = late
  BY DEF GetFiller, config, input
<1>10. ASSUME ~late PROVE NothingBeforeReturned'
  <2>1. \A j \in 1..Len(frameQueue) : last'[TRUE] <= frameQueue[j].pts
    <3>1. last'[TRUE] \in Int /\ Oldest.pts \in Int /\ last'[TRUE] <= Oldest.pts
      BY <1>2, <1>3, <1>6, <1>7, TimesAssumption
    <3>2. ASSUME NEW j \in 1..Len(frameQueue) PROVE last'[TRUE] <= frameQueue[j].pts
      <4>1. Oldest.pts <= frameQueue[j].pts /\ frameQueue[j].pts \in Nat
        BY <1>8, <1>10
      <4>2. frameQueue[j].pts \in Int
        BY <4>1
      <4> QED
        BY <3>1, <4>1, <4>2, AtMostTransitive
    <3> QED
      BY <3>2
  <2>2. \A j \in 1..Len(frameQueue) : last'[FALSE] <= frameQueue[j].pts
    BY <1>6, <1>10 DEF JitterInv, Sorted, NothingBeforeReturned
  <2> QED
    BY <1>6, <1>9, <2>1, <2>2 DEF NothingBeforeReturned
<1>11. ReturnedIsOld' /\ ServedIsLast'
  <2>1. OlderThan(newest - waited) /\ waited # Never
    BY <1>5 DEF JitterInv, ReturnedIsOld, Never
  <2>2. \A v \in BOOLEAN : last'[v] = Never \/ last'[v] <= newest - waited
    BY <1>6, <1>7, <2>1 DEF OlderThan
  <2> QED
    BY <1>6, <1>9, <2>1, <2>2 DEF ReturnedIsOld, OlderThan, ServedIsLast
<1>12. NewestQueued' /\ WaitsAsLong' /\ (~late => HistoryFirst')
  BY <1>9 DEF JitterInv, Sorted, HistoryFirst, NewestQueued, WaitsAsLong, InOrder
<1> QED
  BY <1>1, <1>9, <1>10, <1>11, <1>12 DEF JitterInv, Sorted

\* The history after a frame was returned, wherever the frame went.
LEMMA SavedHistory ==
  ASSUME NEW p \in Seq(Frame), NEW f \in Frame, NEW k \in 0..Len(Append(p, f)), InOrder(p),
         \A i \in 1..Len(p) : p[i].pts <= f.pts
  PROVE  LET r == Drop(Append(p, f), k)
         IN  InOrder(r) /\ \A i \in 1..Len(r) : r[i].pts <= f.pts
<1> DEFINE a == Append(p, f)
<1>1. /\ a \in Seq(Frame) /\ Len(a) = Len(p) + 1 /\ Len(p) \in Nat
      /\ \A i \in 1..Len(p) : a[i] = p[i]
      /\ a[Len(p) + 1] = f
  BY AppendProperties, LenProperties
<1> HIDE DEF a
<1>2. f.pts \in Nat
  BY DEF Frame
<1>3. InOrder(a)
  <2>1. ASSUME NEW i \in 1..Len(a), NEW j \in 1..Len(a), i < j PROVE a[i].pts <= a[j].pts
    <3>1. CASE j <= Len(p)
      <4>1. i \in 1..Len(p) /\ j \in 1..Len(p)
        BY <1>1, <2>1, <3>1
      <4> QED
        BY <1>1, <2>1, <4>1 DEF InOrder
    <3>2. CASE j = Len(p) + 1
      <4>1. i \in 1..Len(p)
        BY <1>1, <2>1, <3>2
      <4> QED
        BY <1>1, <3>2, <4>1
    <3> QED
      BY <1>1, <3>1, <3>2
  <2> QED
    BY <2>1 DEF InOrder
<1>4. \A i \in 1..Len(a) : a[i].pts <= f.pts
  <2> SUFFICES ASSUME NEW i \in 1..Len(a) PROVE a[i].pts <= f.pts
    OBVIOUS
  <2>1. CASE i \in 1..Len(p)
    BY <1>1, <2>1
  <2>2. CASE i = Len(p) + 1
    BY <1>1, <1>2, <2>2
  <2> QED
    BY <1>1, <2>1, <2>2
<1>5. k \in 0..Len(a)
  BY DEF a
<1> DEFINE r == Drop(a, k)
<1>6. Len(r) = Len(a) - k /\ \A i \in 1..(Len(a) - k) : r[i] = a[k + i]
  BY <1>1, <1>5, DropProperties
<1>7. InOrder(r)
  BY <1>1, <1>3, <1>5, DropInOrder
<1> HIDE DEF r
<1>8. \A i \in 1..Len(r) : k + i \in 1..Len(a) /\ r[i] = a[k + i]
  BY <1>1, <1>5, <1>6
<1>9. \A i \in 1..Len(r) : r[i].pts <= f.pts
  BY <1>4, <1>8
<1> QED
  BY <1>7, <1>9 DEF a, r

\* Nor is it later than any bound of what was there and what was added.
LEMMA SavedBefore ==
  ASSUME NEW p \in Seq(Frame), NEW f \in Frame, NEW k \in 0..Len(Append(p, f)), NEW t,
         \A i \in 1..Len(p) : p[i].pts <= t, f.pts <= t
  PROVE  \A i \in 1..Len(Drop(Append(p, f), k)) : Drop(Append(p, f), k)[i].pts <= t
<1> DEFINE a == Append(p, f)
<1>1. /\ a \in Seq(Frame) /\ Len(a) = Len(p) + 1 /\ Len(p) \in Nat
      /\ \A i \in 1..Len(p) : a[i] = p[i]
      /\ a[Len(p) + 1] = f
  BY AppendProperties, LenProperties
<1> HIDE DEF a
<1>2. \A i \in 1..Len(a) : i \in 1..Len(p) \/ i = Len(p) + 1
  BY <1>1
<1>3. \A i \in 1..Len(a) : a[i].pts <= t
  BY <1>1, <1>2
<1>4. k \in 0..Len(a)
  BY DEF a
<1>5. Len(Drop(a, k)) = Len(a) - k /\ \A i \in 1..(Len(a) - k) : Drop(a, k)[i] = a[k + i]
  BY <1>1, <1>4, DropProperties
<1>6. \A i \in 1..(Len(a) - k) : k + i \in 1..Len(a)
  BY <1>1, <1>4
<1>7. \A i \in 1..Len(Drop(a, k)) : Drop(a, k)[i].pts <= t
  BY <1>3, <1>5, <1>6
<1> QED
  BY <1>7 DEF a

LEMMA GetFrameKeeps == JitterInv /\ GetFrame => JitterInv'
<1> SUFFICES ASSUME JitterInv, GetFrame PROVE JitterInv'
  OBVIOUS
<1>1. TypeOK /\ TypeOK' /\ frameQueue # << >>
  BY GetFrameTyped DEF JitterInv, GetFrame, Due, Ready
<1>2. /\ frameQueue \in Seq(Frame) /\ pastFrameQueue \in Seq(Frame)
      /\ newest \in Nat /\ bufferTime \in Nat /\ last \in [BOOLEAN -> Nat \cup {Never}]
      /\ pastFrameQueue' \in Seq(Frame)
  BY <1>1 DEF TypeOK
<1>3. /\ Len(frameQueue) \in Nat \ {0} /\ Oldest = frameQueue[1] /\ Oldest \in Frame
      /\ Oldest.pts \in Nat /\ Oldest.video \in BOOLEAN
      /\ Newest.pts = newest /\ newest - Oldest.pts > bufferTime
  BY <1>1, Ends DEF GetFrame, Due, JitterInv, NewestQueued, Newest
<1>4. waited' \in Nat /\ waited' <= bufferTime /\ (waited # Never => waited' = waited)
  BY <1>2 DEF GetFrame, JitterInv, TypeOK, WaitsAsLong
<1>5. Oldest.pts <= newest - waited'
  BY <1>2, <1>3, <1>4
<1>6. Len(frameQueue) > 1
  <2>1. Newest.pts # Oldest.pts
    BY <1>2, <1>3
  <2>2. Len(frameQueue) # 1
    BY <1>3, <2>1 DEF Newest
  <2>3. Len(frameQueue) \in Nat \ {0}
    BY <1>3
  <2>4. \A n \in Nat \ {0} : n # 1 => n > 1
    OBVIOUS
  <2> QED
    BY <2>2, <2>3, <2>4
<1>7. /\ frameQueue' = Tail(frameQueue) /\ Len(frameQueue') = Len(frameQueue) - 1
      /\ \A i \in 1..Len(frameQueue') : frameQueue'[i] = frameQueue[i + 1]
  BY <1>1, <1>2, HeadTailProperties DEF GetFrame
<1>8. ASSUME ~late PROVE \A j \in 1..Len(frameQueue) : Oldest.pts <= frameQueue[j].pts
  BY <1>1, <1>2, <1>3, <1>8, BetweenEnds DEF JitterInv, Sorted, HistoryFirst
<1>9. \A i \in 1..Len(frameQueue') : i + 1 \in 1..Len(frameQueue)
  BY <1>3, <1>7
<1>10. ASSUME ~late PROVE InOrder(frameQueue')
  <2>1. ASSUME NEW i \in 1..Len(frameQueue'), NEW j \in 1..Len(frameQueue'), i < j
        PROVE  frameQueue[i + 1].pts <= frameQueue[j + 1].pts
    BY <1>9, <1>10, <2>1 DEF JitterInv, Sorted, HistoryFirst, InOrder
  <2> QED
    BY <1>7, <2>1 DEF InOrder
<1>11. ASSUME ~late
       PROVE  /\ InOrder(pastFrameQueue')
              /\ \A i \in 1..Len(pastFrameQueue') : pastFrameQueue'[i].pts <= Oldest.pts
  <2>1. /\ InOrder(pastFrameQueue)
        /\ \A i \in 1..Len(pastFrameQueue) : pastFrameQueue[i].pts <= Oldest.pts
    BY <1>3, <1>11 DEF JitterInv, Sorted, HistoryFirst
  <2>2. CASE Jumpstart /\ ShouldSave(Oldest)
    <3>1. PICK k \in Reductions(Append(pastFrameQueue, Oldest), Newest.pts) :
            pastFrameQueue' = Drop(Append(pastFrameQueue, Oldest), k)
      BY <2>2 DEF GetFrame, SaveForJumpstart
    <3>2. k \in 0..Len(Append(pastFrameQueue, Oldest))
      BY DEF Reductions
    <3> QED
      BY <1>2, <1>3, <2>1, <3>1, <3>2, SavedHistory
  <2>3. CASE ~(Jumpstart /\ ShouldSave(Oldest))
    BY <2>1, <2>3 DEF GetFrame, SaveForJumpstart
  <2> QED
    BY <2>2, <2>3
<1>12. ASSUME ~late PROVE HistoryFirst'
  <2>1. ASSUME NEW i \in 1..Len(pastFrameQueue'), NEW j \in 1..Len(frameQueue')
        PROVE  pastFrameQueue'[i].pts <= frameQueue'[j].pts
    <3>1. frameQueue'[j] = frameQueue[j + 1] /\ Oldest.pts <= frameQueue[j + 1].pts
      BY <1>7, <1>8, <1>9, <1>12
    <3>2. frameQueue[j + 1].pts \in Nat /\ pastFrameQueue'[i].pts \in Nat
      BY <1>2, <1>9, FrameAt
    <3> QED
      BY <1>3, <1>11, <1>12, <3>1, <3>2, SMTT(30)
  <2> QED
    BY <1>10, <1>11, <1>12, <2>1 DEF HistoryFirst
<1>13. newest' = newest /\ bufferTime' = bufferTime /\ late' = late
  BY DEF GetFrame, config, input
<1>14. \A v \in BOOLEAN : last'[v] = IF v = Oldest.video THEN Oldest.pts ELSE last[v]
  BY <1>2 DEF GetFrame
<1>15. ASSUME ~late PROVE NothingBeforeReturned'
  <2>1. ASSUME NEW v \in BOOLEAN, NEW j \in 1..Len(frameQueue')
        PROVE  last'[v] <= frameQueue'[j].pts
    <3>1. /\ frameQueue'[j] = frameQueue[j + 1] /\ Oldest.pts <= frameQueue[j + 1].pts
          /\ last[v] <= frameQueue[j + 1].pts
      BY <1>7, <1>8, <1>9, <1>15 DEF JitterInv, Sorted, NothingBeforeReturned
    <3> QED
      BY <1>14, <3>1
  <2> QED
    BY <2>1 DEF NothingBeforeReturned
<1>16. ReturnedIsOld' /\ ServedIsLast'
  <2>1. ServedIsLast'
    BY <1>3, <1>14 DEF GetFrame, JitterInv, ServedIsLast
  <2>2. \A i \in 1..Len(pastFrameQueue) : pastFrameQueue[i].pts <= newest - waited'
    BY <1>4, <1>14 DEF JitterInv, ReturnedIsOld, NothingReturned, OlderThan
  <2>3. \A v \in BOOLEAN : last[v] = Never \/ last[v] <= newest - waited'
    BY <1>4 DEF JitterInv, ReturnedIsOld, NothingReturned, OlderThan
  <2>4. \A i \in 1..Len(pastFrameQueue') : pastFrameQueue'[i].pts <= newest - waited'
    <3>1. CASE Jumpstart /\ ShouldSave(Oldest)
      <4>1. PICK k \in Reductions(Append(pastFrameQueue, Oldest), Newest.pts) :
              pastFrameQueue' = Drop(Append(pastFrameQueue, Oldest), k)
        BY <3>1 DEF GetFrame, SaveForJumpstart
      <4>2. k \in 0..Len(Append(pastFrameQueue, Oldest))
        BY DEF Reductions
      <4> DEFINE t == newest - waited'
      <4>3. \A i \in 1..Len(pastFrameQueue) : pastFrameQueue[i].pts <= t
        BY <2>2
      <4>4. Oldest.pts <= t
        BY <1>5
      <4> HIDE DEF t
      <4>5. \A i \in 1..Len(pastFrameQueue') : pastFrameQueue'[i].pts <= t
        BY <1>2, <1>3, <4>1, <4>2, <4>3, <4>4, SavedBefore
      <4> QED
        BY <4>5 DEF t
    <3>2. CASE ~(Jumpstart /\ ShouldSave(Oldest))
      BY <2>2, <3>2 DEF GetFrame, SaveForJumpstart
    <3> QED
      BY <3>1, <3>2
  <2> QED
    BY <1>4, <1>5, <1>13, <1>14, <2>1, <2>3, <2>4 DEF ReturnedIsOld, OlderThan, Never
<1>17. NewestQueued'
  <2>1. /\ frameQueue' # << >> /\ Len(frameQueue') \in 1..Len(frameQueue')
        /\ Len(frameQueue') + 1 = Len(frameQueue)
    BY <1>3, <1>6, <1>7
  <2>2. frameQueue'[Len(frameQueue')] = Newest
    BY <1>7, <2>1 DEF Newest
  <2> QED
    BY <1>3, <1>13, <2>1, <2>2 DEF NewestQueued
<1>18. WaitsAsLong'
  BY <1>4, <1>13 DEF WaitsAsLong
<1> QED
  BY <1>1, <1>12, <1>13, <1>15, <1>16, <1>17, <1>18 DEF JitterInv, Sorted

LEMMA SourceFrameKeeps == JitterInv /\ SourceFrame => JitterInv'
<1> SUFFICES ASSUME JitterInv, SourceFrame PROVE JitterInv'
  OBVIOUS
<1>1. TypeOK /\ TypeOK'
  BY SourceFrameTyped DEF JitterInv
<1>2. /\ frameQueue \in Seq(Frame) /\ pastFrameQueue \in Seq(Frame) /\ Len(frameQueue) \in Nat
      /\ newest \in Nat /\ bufferTime \in Nat /\ last \in [BOOLEAN -> Nat \cup {Never}]
  BY <1>1, LenProperties DEF TypeOK
<1>3. PICK f \in Frame : \E k \in InsertPlaces(frameQueue, f.pts) :
        /\ frameQueue' = InsertAfter(frameQueue, k, f)
        /\ newest' = IF f.pts > newest THEN f.pts ELSE newest
        /\ late' = (late \/ (waited # Never /\ f.pts < newest - waited))
  BY <1>1, SourceFrameSteps
<1>4. PICK k \in InsertPlaces(frameQueue, f.pts) : frameQueue' = InsertAfter(frameQueue, k, f)
  BY <1>3
<1>5. /\ f.pts \in Nat
      /\ newest' = IF f.pts > newest THEN f.pts ELSE newest
      /\ k \in 0..Len(frameQueue) /\ (k > 0 => frameQueue[k].pts <= f.pts)
      /\ \A i \in (k + 1)..Len(frameQueue) : frameQueue[i].pts > f.pts
  BY <1>3, <1>4 DEF Frame, InsertPlaces
<1>6. UNCHANGED <<pastFrameQueue, last, lastVideoServedFramePts, waited>>
  BY DEF SourceFrame, served
<1>7. ASSUME ~late' PROVE ~late /\ (waited = Never \/ (waited \in Nat /\ f.pts >= newest - waited))
  <2>1. late' = (late \/ (waited # Never /\ f.pts < newest - waited))
    BY <1>3, Zenon
  <2>2. ~late /\ ~(waited # Never /\ f.pts < newest - waited)
    BY <1>7, <2>1, Zenon
  <2>3. waited \in Nat \cup {Never}
    BY <1>1, Zenon DEF TypeOK
  <2> QED
    BY <1>2, <1>5, <2>2, <2>3
<1>8. /\ Len(frameQueue') = Len(frameQueue) + 1
      /\ \A i \in 1..Len(frameQueue') :
           frameQueue'[i] = f \/ \E j \in 1..Len(frameQueue) : frameQueue'[i] = frameQueue[j]
      /\ frameQueue'[k + 1] = f
      /\ \A i \in (k + 2)..(Len(frameQueue) + 1) : frameQueue'[i] = frameQueue[i - 1]
  <2>1. k \in 0..Len(frameQueue)
    BY <1>5
  <2>2. /\ Len(frameQueue') = Len(frameQueue) + 1
        /\ frameQueue'[k + 1] = f
        /\ \A i \in (k + 2)..(Len(frameQueue) + 1) : frameQueue'[i] = frameQueue[i - 1]
    BY <1>2, <1>4, <2>1, InsertProperties
  <2>3. \A i \in 1..(Len(frameQueue) + 1) :
          frameQueue'[i] = f \/ \E j \in 1..Len(frameQueue) : frameQueue'[i] = frameQueue[j]
    BY <1>2, <1>4, <2>1, InsertElements
  <2> QED
    BY <2>2, <2>3
<1>9. ASSUME ~late' PROVE HistoryFirst'
  <2>0. HistoryFirst /\ (waited = Never \/ (waited \in Nat /\ f.pts >= newest - waited))
    BY <1>9, <1>7 DEF JitterInv, Sorted
  <2>1. InOrder(frameQueue')
    BY <1>2, <1>4, <2>0, InsertInOrder DEF HistoryFirst
  <2>2. ASSUME NEW i \in 1..Len(pastFrameQueue), NEW j \in 1..Len(frameQueue')
        PROVE  pastFrameQueue[i].pts <= frameQueue'[j].pts
    <3>1. pastFrameQueue[i].pts \in Nat
      BY <1>2, FrameAt
    <3>2. waited \in Nat /\ pastFrameQueue[i].pts <= newest - waited
      BY <1>2, <2>0, EmptySeq DEF JitterInv, ReturnedIsOld, NothingReturned, OlderThan, Never
    <3>3. CASE frameQueue'[j] = f
      BY <1>2, <1>5, <2>0, <3>1, <3>2, <3>3 DEF Never
    <3>4. CASE \E m \in 1..Len(frameQueue) : frameQueue'[j] = frameQueue[m]
      BY <2>0, <3>4 DEF HistoryFirst
    <3> QED
      BY <1>8, <3>3, <3>4
  <2> QED
    BY <1>6, <2>0, <2>1, <2>2 DEF HistoryFirst
<1>10. ASSUME ~late' PROVE NothingBeforeReturned'
  <2>0. NothingBeforeReturned /\ (waited = Never \/ (waited \in Nat /\ f.pts >= newest - waited))
    BY <1>10, <1>7 DEF JitterInv, Sorted
  <2>1. ASSUME NEW v \in BOOLEAN, NEW j \in 1..Len(frameQueue')
        PROVE  last[v] <= frameQueue'[j].pts
    <3>1. CASE frameQueue'[j] = f
      <4>1. last[v] = -1 \/ (waited \in Nat /\ last[v] <= newest - waited /\ last[v] \in Nat)
        BY <1>2, <2>0 DEF JitterInv, ReturnedIsOld, NothingReturned, OlderThan, Never
      <4> QED
        BY <1>2, <1>5, <2>0, <3>1, <4>1 DEF Never
    <3>2. CASE \E m \in 1..Len(frameQueue) : frameQueue'[j] = frameQueue[m]
      BY <2>0, <3>2 DEF NothingBeforeReturned
    <3> QED
      BY <1>8, <3>1, <3>2
  <2> QED
    BY <1>6, <2>1 DEF NothingBeforeReturned
<1>11. ReturnedIsOld' /\ ServedIsLast'
  <2>1. newest' \in Nat /\ newest' >= newest
    BY <1>2, <1>5
  <2>2. CASE waited = Never
    BY <1>6, <2>2 DEF JitterInv, ReturnedIsOld, NothingReturned, ServedIsLast
  <2>3. CASE waited # Never
    <3>1. waited \in Nat /\ OlderThan(newest - waited)
      BY <1>1, <2>3 DEF TypeOK, JitterInv, ReturnedIsOld
    <3>2. ASSUME NEW i \in 1..Len(pastFrameQueue)
          PROVE  pastFrameQueue[i].pts <= newest' - waited
      <4>1. pastFrameQueue[i].pts <= newest - waited /\ pastFrameQueue[i].pts \in Nat
        BY <1>2, <3>1, FrameAt DEF OlderThan
      <4> QED
        BY <1>2, <2>1, <3>1, <4>1
    <3>3. ASSUME NEW v \in BOOLEAN PROVE last[v] = Never \/ last[v] <= newest' - waited
      <4>1. last[v] = Never \/ (last[v] <= newest - waited /\ last[v] \in Nat)
        BY <1>2, <3>1 DEF OlderThan
      <4> QED
        BY <1>2, <2>1, <3>1, <4>1
    <3> QED
      BY <1>6, <2>3, <3>2, <3>3 DEF ReturnedIsOld, OlderThan, ServedIsLast, JitterInv
  <2> QED
    BY <2>2, <2>3
<1>12. NewestQueued'
  <2>1. frameQueue' # << >> /\ Len(frameQueue') = Len(frameQueue) + 1
    BY <1>2, <1>8
  <2>2. CASE k = Len(frameQueue)
    <3>1. frameQueue'[Len(frameQueue')] = f
      BY <1>8, <2>2
    <3>2. newest <= f.pts
      <4>1. CASE frameQueue = << >>
        BY <1>5, <4>1 DEF JitterInv, NewestQueued
      <4>2. CASE frameQueue # << >>
        <5>1. k > 0 /\ frameQueue[k].pts = newest
          BY <1>2, <2>2, <4>2, EmptySeq DEF JitterInv, NewestQueued
        <5> QED
          BY <1>5, <5>1
      <4> QED
        BY <4>1, <4>2
    <3>3. newest' = f.pts
      BY <1>2, <1>5, <3>2
    <3> QED
      BY <2>1, <3>1, <3>3 DEF NewestQueued
  <2>3. CASE k < Len(frameQueue)
    <3>1. Len(frameQueue') \in (k + 2)..(Len(frameQueue) + 1) /\ Len(frameQueue') - 1 = Len(frameQueue)
      BY <1>2, <1>5, <2>1, <2>3
    <3>2. frameQueue'[Len(frameQueue')] = frameQueue[Len(frameQueue)]
      BY <1>8, <2>1, <3>1
    <3>3. Len(frameQueue) \in (k + 1)..Len(frameQueue) /\ frameQueue # << >>
      BY <1>2, <1>5, <2>3
    <3>4. frameQueue[Len(frameQueue)].pts = newest /\ newest > f.pts
      BY <1>5, <3>3 DEF JitterInv, NewestQueued
    <3>5. newest' = newest
      BY <1>2, <1>5, <3>4
    <3> QED
      BY <2>1, <3>2, <3>4, <3>5 DEF NewestQueued
  <2> QED
    BY <1>2, <1>5, <2>2, <2>3
<1>13. WaitsAsLong'
  <2>1. PICK d \in Delays : DetermineDelay(d)
    BY DEF SourceFrame
  <2>2. bufferTime' \in Nat /\ bufferTime' >= bufferTime
    BY <1>1, <2>1, DelayStep
  <2>3. waited = Never \/ (waited \in Nat /\ waited <= bufferTime)
    BY <1>1 DEF TypeOK, JitterInv, WaitsAsLong
  <2> QED
    BY <1>2, <1>6, <2>2, <2>3 DEF WaitsAsLong
<1>14. late' \/ Sorted'
  BY <1>9, <1>10 DEF Sorted
<1> QED
  BY <1>1, <1>11, <1>12, <1>13, <1>14 DEF JitterInv

LEMMA OtherKeeps ==
  JitterInv /\ (SetPaused \/ SetReset \/ ReadFrame \/ GetNotReady \/ GetTooSoon \/ SourceEmpty
                  \/ UNCHANGED vars) => JitterInv'
<1> SUFFICES ASSUME JitterInv, SetPaused \/ SetReset \/ ReadFrame \/ GetNotReady \/ GetTooSoon
                                 \/ SourceEmpty \/ UNCHANGED vars
             PROVE  JitterInv'
  OBVIOUS
<1>1. TypeOK'
  BY OtherTyped, GetTooSoonTyped DEF JitterInv
<1>2. UNCHANGED <<frameQueue, pastFrameQueue, last, lastVideoServedFramePts, newest, bufferTime,
                  waited, late>>
  BY DEF SetPaused, SetReset, ReadFrame, GetNotReady, GetTooSoon, SourceEmpty, vars, config, served,
         input, history
<1> QED
  BY <1>1, <1>2, QuietStep

LEMMA NextKeeps == JitterInv /\ [Next]_vars => JitterInv'
BY GetPausedKeeps, GetFillerKeeps, GetFrameKeeps, SourceFrameKeeps, OtherKeeps DEF Next, InCall

LEMMA InvHolds == Spec => []JitterInv
BY InitInv, NextKeeps, PTL DEF Spec

(* The history followed by the queue stays sorted until a frame comes too   *)
(* late: putting the history back needs no second sort.                     *)
THEOREM QueuesSortedHolds == Spec => []QueuesSorted
<1>1. JitterInv => QueuesSorted
  BY ConcatInOrder DEF JitterInv, TypeOK, Sorted, HistoryFirst, QueuesSorted
<1> QED
  BY <1>1, InvHolds, PTL

(* Each medium leaves the buffer by increasing timestamp between pauses,    *)
(* clones included, whatever the source delivers and the encoder answers,   *)
(* until a frame is further behind than the buffer waited when it began.    *)
THEOREM MediaOrderedHolds == Spec => MediaOrdered
<1> DEFINE Step == late \/ \A v \in BOOLEAN : last'[v] >= last[v] \/ last'[v] = Never
<1>1. ASSUME JitterInv, GetFiller PROVE Step
  <2>1. /\ last \in [BOOLEAN -> Nat \cup {Never}] /\ lastVideoServedFramePts \in Nat
        /\ lastVideoServedFramePts # 0
    BY <1>1 DEF JitterInv, TypeOK, GetFiller, NeedsFiller, StartingUp
  <2>2. last[TRUE] = lastVideoServedFramePts
    BY <1>1, <2>1 DEF JitterInv, ServedIsLast
  <2>3. last'[TRUE] = lastVideoServedFramePts + TargetGap /\ last'[FALSE] = last[FALSE]
    BY <1>1, <2>1 DEF GetFiller
  <2>4. last'[TRUE] >= last[TRUE]
    BY <2>1, <2>2, <2>3, TimesAssumption
  <2>5. \A v \in BOOLEAN : last[v] >= last[v] \/ last[v] = Never
    BY <2>1
  <2>6. last'[FALSE] >= last[FALSE] \/ last'[FALSE] = Never
    BY <2>3, <2>5
  <2> QED
    BY <2>4, <2>6
<1>2. ASSUME JitterInv, GetFrame, ~late PROVE Step
  <2>1. /\ last \in [BOOLEAN -> Nat \cup {Never}] /\ frameQueue # << >>
    BY <1>2 DEF JitterInv, TypeOK, GetFrame, Due, Ready
  <2>2. /\ Oldest = frameQueue[1] /\ 1 \in 1..Len(frameQueue) /\ Oldest.video \in BOOLEAN
    BY <1>2, <2>1, Ends DEF JitterInv
  <2>3. \A v \in BOOLEAN : last[v] <= Oldest.pts
    BY <1>2, <2>2 DEF JitterInv, Sorted, NothingBeforeReturned
  <2>4. \A v \in BOOLEAN : last'[v] = IF v = Oldest.video THEN Oldest.pts ELSE last[v]
    BY <1>2, <2>1 DEF GetFrame
  <2>5. \A v \in BOOLEAN : last[v] >= last[v] \/ last[v] = Never
    BY <2>1
  <2> QED
    BY <2>3, <2>4, <2>5
<1>3. ASSUME JitterInv, GetPaused \/ UNCHANGED last PROVE Step
  <2>1. \A v \in BOOLEAN : last[v] >= last[v] \/ last[v] = Never
    BY <1>3 DEF JitterInv, TypeOK
  <2> QED
    BY <1>3, <2>1 DEF GetPaused, ClearHistory
<1>4. JitterInv /\ [Next]_vars => [Step]_vars
  BY <1>1, <1>2, <1>3
     DEF Next, InCall, SetPaused, SetReset, ReadFrame, GetNotReady, GetTooSoon, SourceEmpty,
         SourceFrame, vars, history
<1> QED
  BY <1>4, InvHolds, PTL DEF Spec, MediaOrdered

(***************************************************************************)
(* Nothing is lost                                                         *)
(***************************************************************************)

LEMMA GetPausedLosesNothing == JitterInv /\ Kept /\ GetPaused => Kept'
<1> SUFFICES ASSUME JitterInv, Kept, GetPaused, NEW f \in waiting
             PROVE  \/ \E i \in 1..Len(frameQueue') : frameQueue'[i] = f
                    \/ newest - f.pts > PausedTime
  BY DEF Kept, GetPaused, input
<1>1. /\ pastFrameQueue \in Seq(Frame) /\ frameQueue \in Seq(Frame) /\ frameQueue # << >>
      /\ Len(pastFrameQueue) \in Nat /\ Len(frameQueue) \in Nat
      /\ Newest.pts = newest
  BY LenProperties DEF JitterInv, TypeOK, NewestQueued, Newest, GetPaused, Ready
<1>2. PICK k \in Reductions(Restored, Newest.pts) : frameQueue' = Drop(Restored, k)
  BY DEF GetPaused
<1>3. /\ Restored \in Seq(Frame) /\ Len(Restored) = Len(pastFrameQueue) + Len(frameQueue)
      /\ \A i \in 1..(Len(pastFrameQueue) + Len(frameQueue)) :
           Restored[i] = IF i <= Len(pastFrameQueue)
                         THEN pastFrameQueue[i] ELSE frameQueue[i - Len(pastFrameQueue)]
  BY <1>1, ConcatProperties DEF Restored
<1>4. /\ k \in 0..Len(Restored) /\ \A i \in 1..k : newest - Restored[i].pts > PausedTime
  BY <1>1, <1>2 DEF Reductions
<1>5. /\ Len(frameQueue') = Len(Restored) - k
      /\ \A i \in 1..(Len(Restored) - k) : frameQueue'[i] = Restored[k + i]
  BY <1>2, <1>3, <1>4, DropProperties
<1>6. CASE \E i \in 1..Len(frameQueue) : frameQueue[i] = f
  <2>1. PICK i \in 1..Len(frameQueue) : frameQueue[i] = f
    BY <1>6
  <2> DEFINE m == Len(pastFrameQueue) + i
  <2>2. m \in 1..Len(Restored) /\ m > Len(pastFrameQueue) /\ m - Len(pastFrameQueue) = i
    BY <1>1, <1>3
  <2>3. Restored[m] = f
    BY <1>3, <2>1, <2>2
  <2> HIDE DEF m
  <2>4. CASE m <= k
    BY <1>4, <2>2, <2>3, <2>4
  <2>5. CASE m > k
    <3>1. m - k \in 1..(Len(Restored) - k) /\ k + (m - k) = m
      BY <1>1, <1>3, <1>4, <2>2, <2>5
    <3> QED
      BY <1>5, <2>3, <3>1
  <2> QED
    BY <1>4, <2>2, <2>4, <2>5
<1>7. CASE newest - f.pts > PausedTime
  BY <1>7
<1> QED
  BY <1>6, <1>7 DEF Kept

LEMMA GetFrameLosesNothing == JitterInv /\ Kept /\ GetFrame => Kept'
<1> SUFFICES ASSUME JitterInv, Kept, GetFrame, NEW f \in waiting, f # Oldest
             PROVE  \/ \E i \in 1..Len(frameQueue') : frameQueue'[i] = f
                    \/ newest - f.pts > PausedTime
  BY DEF Kept, GetFrame, input
<1>1. /\ frameQueue \in Seq(Frame) /\ frameQueue # << >> /\ Len(frameQueue) \in Nat
      /\ Oldest = frameQueue[1]
  BY LenProperties DEF JitterInv, TypeOK, GetFrame, Due, Ready, Oldest
<1>2. /\ Len(frameQueue') = Len(frameQueue) - 1
      /\ \A i \in 1..Len(frameQueue') : frameQueue'[i] = frameQueue[i + 1]
  BY <1>1, HeadTailProperties DEF GetFrame
<1>3. ASSUME NEW i \in 1..Len(frameQueue), frameQueue[i] = f
      PROVE  \E j \in 1..Len(frameQueue') : frameQueue'[j] = f
  <2>1. i # 1
    BY <1>1, <1>3
  <2>2. i - 1 \in 1..Len(frameQueue') /\ (i - 1) + 1 = i
    BY <1>1, <1>2, <2>1
  <2> QED
    BY <1>2, <1>3, <2>2
<1> QED
  BY <1>3 DEF Kept

LEMMA SourceFrameLosesNothing == JitterInv /\ Kept /\ SourceFrame => Kept'
<1> SUFFICES ASSUME JitterInv, Kept, SourceFrame PROVE Kept'
  OBVIOUS
<1>1. /\ TypeOK /\ frameQueue \in Seq(Frame) /\ Len(frameQueue) \in Nat /\ newest \in Nat
      /\ waiting \subseteq Frame
  BY LenProperties DEF JitterInv, TypeOK
<1>2. PICK g \in Frame : \E k \in InsertPlaces(frameQueue, g.pts) :
        /\ frameQueue' = InsertAfter(frameQueue, k, g)
        /\ waiting' = waiting \cup {g}
        /\ newest' = IF g.pts > newest THEN g.pts ELSE newest
  BY <1>1, SourceFrameSteps
<1>3. PICK k \in 0..Len(frameQueue) : frameQueue' = InsertAfter(frameQueue, k, g)
  BY <1>2 DEF InsertPlaces
<1>4. Len(frameQueue') = Len(frameQueue) + 1 /\ frameQueue'[k + 1] = g
  BY <1>1, <1>3, InsertProperties
<1>5. \A j \in 1..Len(frameQueue) : \E i \in 1..Len(frameQueue') : frameQueue'[i] = frameQueue[j]
  BY <1>1, <1>3, <1>4, InsertElements, SMTT(30)
<1>6. newest' \in Nat /\ newest' >= newest
  BY <1>1, <1>2 DEF Frame
<1>7. ASSUME NEW f \in waiting'
      PROVE  \/ \E i \in 1..Len(frameQueue') : frameQueue'[i] = f
             \/ newest' - f.pts > PausedTime
  <2>1. CASE f = g
    <3>1. k + 1 \in 1..Len(frameQueue')
      BY <1>1, <1>4
    <3> QED
      BY <1>4, <2>1, <3>1
  <2>2. CASE f \in waiting
    <3>1. CASE \E j \in 1..Len(frameQueue) : frameQueue[j] = f
      BY <1>5, <3>1
    <3>2. CASE newest - f.pts > PausedTime
      <4>1. f.pts \in Nat
        BY <1>1, <2>2 DEF Frame
      <4> QED
        BY <1>1, <1>6, <3>2, <4>1, TimesAssumption
    <3> QED
      BY <2>2, <3>1, <3>2 DEF Kept
  <2> QED
    BY <1>2, <1>7, <2>1, <2>2
<1> QED
  BY <1>7 DEF Kept

(* No pause, resumption or change of the delay loses a frame that was not   *)
(* returned, except one that a pause found older than PausedTime.           *)
THEOREM KeptHolds == Spec => []Kept
<1>1. Init => Kept
  BY DEF Init, Kept
<1>2. JitterInv /\ Kept /\ [Next]_vars => Kept'
  <2>1. ASSUME Kept, UNCHANGED <<frameQueue, newest, waiting>> PROVE Kept'
    BY <2>1 DEF Kept
  <2> QED
    BY <2>1, GetPausedLosesNothing, GetFrameLosesNothing, SourceFrameLosesNothing
       DEF Next, InCall, SetPaused, SetReset, ReadFrame, GetNotReady, GetTooSoon, GetFiller,
           SourceEmpty, vars, config, served, input, history
<1> QED
  BY <1>1, <1>2, InvHolds, PTL DEF Spec

(***************************************************************************)
(* What is held when a read comes back empty.  Before it asks its source   *)
(* the buffer has looked at its queue, and the loop that reads the source  *)
(* ends only there.                                                        *)
(***************************************************************************)
Window == IF paused THEN PausedTime ELSE bufferTime

SourceAfterLook == pc = "source" /\ determinedEncoderDelay => Span <= Window

LEMMA GetPausedShortens ==
  ASSUME JitterInv, JitterInv', GetPaused
  PROVE  Span' <= PausedTime
<1>1. CASE frameQueue' = << >>
  BY <1>1, TimesAssumption DEF Span
<1>2. CASE frameQueue' # << >>
  <2>1. TypeOK /\ TypeOK' /\ frameQueue # << >> /\ newest' = newest
    BY DEF JitterInv, GetPaused, Ready, input
  <2>2. PICK k \in Reductions(Restored, Newest.pts) : frameQueue' = Drop(Restored, k)
    BY DEF GetPaused
  <2>3. Restored \in Seq(Frame) /\ k \in 0..Len(Restored) /\ Len(Restored) \in Nat
    BY <2>1, ConcatProperties, LenProperties DEF Restored, TypeOK, Reductions
  <2>4. /\ Len(frameQueue') = Len(Restored) - k /\ frameQueue' \in Seq(Frame)
        /\ \A i \in 1..(Len(Restored) - k) : frameQueue'[i] = Restored[k + i]
    BY <2>2, <2>3, DropProperties
  <2>5. Len(frameQueue') \in Nat \ {0} /\ k < Len(Restored)
    <3> DEFINE q == frameQueue'
    <3>1. q \in Seq(Frame) /\ q # << >>
      BY <1>2, <2>4
    <3> HIDE DEF q
    <3>2. Len(q) \in Nat \ {0}
      BY <3>1, EmptySeq, LenProperties
    <3>3. Len(q) = Len(Restored) - k
      BY <2>4 DEF q
    <3>4. k < Len(Restored)
      BY <2>3, <3>2, <3>3
    <3> QED
      BY <3>2, <3>4 DEF q
  <2>6. frameQueue'[1] = Restored[k + 1]
    <3>1. 1 \in 1..(Len(Restored) - k) /\ k + 1 = 1 + k
      BY <2>3, <2>5
    <3>2. frameQueue'[1] = Restored[k + 1]
      BY <2>4, <3>1
    <3> QED
      BY <3>2
  <2>7. Newest.pts - Restored[k + 1].pts <= PausedTime
    BY <2>2, <2>5 DEF Reductions
  <2>8. frameQueue'[Len(frameQueue')].pts = newest /\ Newest.pts = newest
    BY <1>2, <2>1 DEF JitterInv, NewestQueued, Newest
  <2>9. Span' = frameQueue'[Len(frameQueue')].pts - frameQueue'[1].pts
    BY <1>2, <2>4 DEF Span, Newest, Oldest
  <2> QED
    BY <2>6, <2>7, <2>8, <2>9
<1> QED
  BY <1>1, <1>2

LEMMA LookStep ==
  ASSUME JitterInv, JitterInv', SourceAfterLook, [Next]_vars
  PROVE  SourceAfterLook'
<1> USE DEF SourceAfterLook, Window
<1>1. CASE UNCHANGED vars
  BY <1>1 DEF vars, config, Span, Newest, Oldest
<1>2. CASE ReadFrame \/ SetPaused \/ SetReset \/ GetFiller \/ GetFrame \/ SourceEmpty \/ SourceFrame
  BY <1>2 DEF ReadFrame, SetPaused, SetReset, GetFiller, GetFrame, Return, SourceEmpty, SourceFrame
<1>3. CASE GetNotReady
  <2>1. determinedEncoderDelay' => frameQueue' = << >>
    BY <1>3 DEF GetNotReady, config
  <2>2. bufferTime' \in Nat /\ PausedTime \in Nat
    BY TimesAssumption DEF JitterInv, TypeOK
  <2> QED
    BY <2>1, <2>2 DEF Span
<1>4. CASE GetPaused
  <2>1. Span' <= PausedTime
    BY <1>4, GetPausedShortens
  <2>2. paused'
    BY <1>4 DEF GetPaused
  <2> QED
    BY <2>1, <2>2
<1>5. CASE GetTooSoon
  BY <1>5 DEF GetTooSoon, config, Span, Newest, Oldest
<1> QED
  BY <1>1, <1>2, <1>3, <1>4, <1>5 DEF Next, InCall

\* A read that comes back empty leaves no frame that is due, and while paused nothing that is
\* older than PausedTime, however long the pause and whatever the encoder answers.
THEOREM HeldWithinWindowHolds == Spec => HeldWithinWindow
<1>1. Init => SourceAfterLook
  BY DEF Init, SourceAfterLook
<1>2. JitterInv /\ JitterInv' /\ SourceAfterLook /\ [Next]_vars => SourceAfterLook'
  BY LookStep
<1>3. SourceAfterLook =>
        [pc = "source" /\ pc' = "idle" /\ determinedEncoderDelay =>
           Span <= IF paused THEN PausedTime ELSE bufferTime]_vars
  BY DEF SourceAfterLook, Window
<1> QED
  BY <1>1, <1>2, <1>3, InvHolds, PTL DEF Spec, HeldWithinWindow

\* However long a pause, the buffer keeps what the mode asks for and no more.
THEOREM WindowKeptHolds == Spec => WindowKept
BY KeptHolds, HeldWithinWindowHolds, PTL DEF WindowKept
=============================================================================
