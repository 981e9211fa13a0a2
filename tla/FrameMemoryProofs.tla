------------------------- MODULE FrameMemoryProofs -------------------------
(***************************************************************************)
(* Who may use the memory of a frame: a pool of frames between threads,    *)
(* the packets in them, and a frame in the memory a camera's server shares *)
(* with its client.                                                        *)
(*                                                                         *)
(* Proofs about FrameAllocator for every pool of frames and any number of  *)
(* threads.  The inductive invariant has three parts: the free list        *)
(* (PoolInv), who destroys the allocator (DestroyInv), and, as long as no  *)
(* two updates of allocListCount met, that it is the number of frames      *)
(* handed out (CountInv).  Then about the packets in its frames: a session *)
(* uses the pool as FrameAllocator has it (PacketStep), and what it holds  *)
(* is described by PacketInv.                                              *)
(*                                                                         *)
(* Then about LocalCamera: however the two processes interleave and        *)
(* whichever of them dies, an answer is that of the request                *)
(* (OneServerAnswers), and no frame comes torn or twice (FramesAreFresh),  *)
(* for any number of frames and attempts.                                  *)
(***************************************************************************)
EXTENDS PacketBuffers, LocalCamera, SequenceTheorems, FiniteSetTheorems, TLAPS

USE DEF fa

(***************************************************************************)
(* The free list                                                           *)
(***************************************************************************)

\* A list of n frames without repetition, none of which is in o.
Apart(l, n, o) ==
  /\ n = Len(l)
  /\ \A i, j \in 1..Len(l) : l[i] = l[j] => i = j
  /\ \A i \in 1..Len(l) : l[i] \notin o

LEMMA ApartCounts ==
  ASSUME NEW l \in Seq(Frames), NEW n, NEW o, Apart(l, n, o) PROVE n \in Nat
BY LenProperties DEF Apart

\* Taking the head off such a list, which may be handed out.
LEMMA ApartTail ==
  ASSUME NEW l \in Seq(Frames), NEW n, NEW o, l # << >>, Apart(l, n, o)
  PROVE  /\ Head(l) \in Frames /\ Head(l) \notin o
         /\ Tail(l) \in Seq(Frames) /\ Apart(Tail(l), n - 1, o \cup {Head(l)})
<1>1. /\ Tail(l) \in Seq(Frames) /\ Head(l) \in Frames
      /\ Len(Tail(l)) = Len(l) - 1 /\ Len(l) \in Nat /\ Len(l) > 0
      /\ \A i \in 1..Len(Tail(l)) : Tail(l)[i] = l[i+1]
  BY HeadTailProperties, LenProperties, EmptySeq
<1>2. Head(l) = l[1]
  BY <1>1
<1> QED
  BY <1>1, <1>2 DEF Apart

\* The list stays apart from a smaller set.
LEMMA ApartSubset ==
  ASSUME NEW l \in Seq(Frames), NEW n, NEW o, NEW p \in SUBSET o, Apart(l, n, o)
  PROVE  Apart(l, n, p)
BY DEF Apart

\* Putting a frame that was handed out in front.
LEMMA ApartPush ==
  ASSUME NEW l \in Seq(Frames), NEW n, NEW o, NEW f \in o, f \in Frames, Apart(l, n, o)
  PROVE  <<f>> \o l \in Seq(Frames) /\ Apart(<<f>> \o l, n + 1, o \ {f})
<1>1. <<f>> \in Seq(Frames) /\ Len(<<f>>) = 1 /\ <<f>>[1] = f
  OBVIOUS
<1> DEFINE m == <<f>> \o l
<1>2. /\ m \in Seq(Frames) /\ Len(m) = 1 + Len(l) /\ Len(l) \in Nat
      /\ \A i \in 1..(1 + Len(l)) : m[i] = IF i <= 1 THEN <<f>>[i] ELSE l[i - 1]
  BY <1>1, ConcatProperties, LenProperties
<1> HIDE DEF m
<1>3. m[1] = f /\ \A i \in 2..(1 + Len(l)) : m[i] = l[i - 1] /\ i - 1 \in 1..Len(l)
  BY <1>1, <1>2
<1>4. \A i \in 1..Len(l) : l[i] # f
  BY DEF Apart
<1>5. \A i, j \in 1..Len(m) : m[i] = m[j] => i = j
  <2> SUFFICES ASSUME NEW i \in 1..Len(m), NEW j \in 1..Len(m), m[i] = m[j]
               PROVE  i = j
    OBVIOUS
  <2>1. CASE i = 1 /\ j # 1
    BY <2>1, <1>2, <1>3, <1>4
  <2>2. CASE i # 1 /\ j = 1
    BY <2>2, <1>2, <1>3, <1>4
  <2>3. CASE i # 1 /\ j # 1
    <3>1. /\ i - 1 \in 1..Len(l) /\ j - 1 \in 1..Len(l)
          /\ l[i - 1] = l[j - 1]
      BY <2>3, <1>2, <1>3
    <3> QED
      BY <3>1, <1>2 DEF Apart
  <2> QED
    BY <2>1, <2>2, <2>3
<1>6. \A i \in 1..Len(m) : m[i] \notin o \ {f}
  BY <1>2, <1>3 DEF Apart
<1>7. n + 1 = Len(m)
  BY <1>2 DEF Apart
<1> QED
  BY <1>2, <1>5, <1>6, <1>7 DEF Apart, m

PoolInv == TypeOK /\ Apart(freeList, freeListCount, out)

LEMMA PoolInit == Init => PoolInv
<1>1. << >> \in Seq(Frames) /\ Len(<< >>) = 0
  BY EmptySeq
<1>2. Init => TypeOK
  <2>1. Init => freeList \in Seq(Frames)
    BY <1>1, Zenon DEF Init
  <2>2. Init => /\ freeListCount \in Nat /\ allocListCount \in Int
                /\ loaded \in [Threads -> Int]
    BY DEF Init
  <2>3. Init => /\ freed \in BOOLEAN /\ gone \in BOOLEAN
                /\ mutex \in Threads \cup {NoThread}
                /\ pc \in [Threads -> {"idle", "register", "registerStore", "returnStore", "destroy", "free"}]
                /\ out \subseteq Frames /\ raced \in BOOLEAN
    BY DEF Init
  <2> QED
    BY <2>1, <2>2, <2>3, Zenon DEF TypeOK
<1>3. Init => Apart(freeList, freeListCount, out)
  BY <1>1 DEF Init, Apart
<1> QED
  BY <1>2, <1>3 DEF PoolInv

LEMMA PoolGet == PoolInv /\ Get => PoolInv'
<1> SUFFICES ASSUME PoolInv, Get PROVE PoolInv'
  OBVIOUS
<1> DEFINE f == Head(freeList)
           rest == Tail(freeList)
<1>1. /\ f \in Frames /\ rest \in Seq(Frames)
      /\ Apart(rest, freeListCount - 1, out \cup {f})
  BY ApartTail DEF PoolInv, TypeOK, Get
<1>2. out' = out \cup {f} /\ out' \subseteq Frames
  BY <1>1 DEF PoolInv, TypeOK, Get
<1>3. /\ freeList' \in Seq(Frames) /\ freeListCount' \in Nat
      /\ Apart(freeList', freeListCount', out')
  <2>1. CASE freeList' = rest /\ freeListCount' = freeListCount - 1
    BY <2>1, <1>1, <1>2, ApartCounts
  <2>2. CASE rest # << >> /\ freeList' = Tail(rest)
             /\ freeListCount' = (freeListCount - 1) - 1
    <3>1. /\ Tail(rest) \in Seq(Frames)
          /\ Apart(Tail(rest), (freeListCount - 1) - 1, (out \cup {f}) \cup {Head(rest)})
      BY <2>2, <1>1, ApartTail
    <3>2. Apart(Tail(rest), (freeListCount - 1) - 1, out \cup {f})
      BY <3>1, ApartSubset
    <3> QED
      BY <2>2, <1>2, <3>1, <3>2, ApartCounts
  <2> QED
    BY <2>1, <2>2 DEF Get, Reduces
<1> QED
  BY <1>2, <1>3 DEF PoolInv, TypeOK, Get

LEMMA PoolAllocate == PoolInv /\ Allocate => PoolInv'
<1> SUFFICES ASSUME PoolInv, Allocate PROVE PoolInv'
  OBVIOUS
<1>1. PICK f \in Frames \ Allocated : out' = out \cup {f}
  BY DEF Allocate
<1>2. Apart(freeList', freeListCount', out')
  BY <1>1 DEF PoolInv, Apart, Allocate, Allocated
<1>3. pc' \in [Threads -> {"idle", "register", "registerStore", "returnStore", "destroy", "free"}]
  BY DEF Allocate, PoolInv, TypeOK
<1> QED
  BY <1>1, <1>2, <1>3 DEF PoolInv, TypeOK, Allocate

LEMMA PoolReturn ==
  ASSUME PoolInv, NEW t \in Threads, ReturnFrame(t) PROVE PoolInv'
<1>1. PICK f \in out :
        /\ out' = out \ {f}
        /\ \/ freeList' = <<f>> \o freeList /\ freeListCount' = freeListCount + 1
           \/ /\ freeList # << >> /\ freeList' = Tail(freeList)
              /\ freeListCount' = freeListCount - 1
  BY DEF ReturnFrame, Reduces
<1>2. f \in Frames /\ out' \subseteq Frames
  BY <1>1 DEF PoolInv, TypeOK
<1>3. /\ freeList' \in Seq(Frames) /\ freeListCount' \in Nat
      /\ Apart(freeList', freeListCount', out')
  <2>1. CASE freeList' = <<f>> \o freeList /\ freeListCount' = freeListCount + 1
    <3>1. /\ <<f>> \o freeList \in Seq(Frames)
          /\ Apart(<<f>> \o freeList, freeListCount + 1, out \ {f})
      BY <1>2, ApartPush DEF PoolInv, TypeOK
    <3> QED
      <4>1. freeListCount' \in Nat
        BY <2>1 DEF PoolInv, TypeOK
      <4> QED
        BY <1>1, <2>1, <3>1, <4>1, Zenon
  <2>2. CASE freeList # << >> /\ freeList' = Tail(freeList)
             /\ freeListCount' = freeListCount - 1
    <3>1. /\ Tail(freeList) \in Seq(Frames)
          /\ Apart(Tail(freeList), freeListCount - 1, out \cup {Head(freeList)})
      BY <2>2, ApartTail DEF PoolInv, TypeOK
    <3>2. Apart(Tail(freeList), freeListCount - 1, out')
      <4>1. out' \in SUBSET (out \cup {Head(freeList)})
        BY <1>1
      <4> QED
        BY <3>1, <4>1, ApartSubset
    <3> QED
      BY <2>2, <3>1, <3>2, ApartCounts
  <2> QED
    BY <1>1, <2>1, <2>2
<1>4. /\ pc' \in [Threads -> {"idle", "register", "registerStore", "returnStore", "destroy", "free"}]
      /\ loaded' \in [Threads -> Int] /\ mutex' \in Threads
  BY DEF ReturnFrame, PoolInv, TypeOK
<1> QED
  BY <1>2, <1>3, <1>4 DEF PoolInv, TypeOK, ReturnFrame

LEMMA PoolFree ==
  ASSUME PoolInv, NEW t \in Threads, Free(t) PROVE PoolInv'
<1>1. freeList' \in Seq(Frames) /\ Apart(freeList', freeListCount', out')
  BY EmptySeq DEF Free, Apart
<1>2. pc' \in [Threads -> {"idle", "register", "registerStore", "returnStore", "destroy", "free"}]
  BY DEF Free, PoolInv, TypeOK
<1> QED
  BY <1>1, <1>2 DEF PoolInv, TypeOK, Free

LEMMA PoolNext == PoolInv /\ [Next]_vars => PoolInv'
<1> SUFFICES ASSUME PoolInv, [Next]_vars PROVE PoolInv'
  OBVIOUS
<1> USE DEF PoolInv, TypeOK
<1>1. CASE RegisterLoad
  BY <1>1 DEF RegisterLoad, Apart, Threads
<1>2. CASE RegisterStore
  BY <1>2 DEF RegisterStore, Apart, Threads
<1>3. CASE BeginDestroy
  BY <1>3 DEF BeginDestroy, Apart, Threads
<1>4. ASSUME NEW t \in Threads, ReturnStore(t) PROVE PoolInv'
  BY <1>4 DEF ReturnStore, Apart
<1>5. ASSUME NEW t \in Threads, Destroy(t) PROVE PoolInv'
  BY <1>5 DEF Destroy, Apart
<1>6. CASE UNCHANGED vars
  BY <1>6 DEF vars, Apart
<1> QED
  BY <1>1, <1>2, <1>3, <1>4, <1>5, <1>6, PoolGet, PoolAllocate, PoolReturn, PoolFree DEF Next

\* The types of the allocator's fields, for every pool and any number of threads.
THEOREM AllocatorTypeCorrect == Spec => []TypeOK
<1>1. PoolInv => TypeOK
  BY DEF PoolInv
<1> QED
  BY <1>1, PoolInit, PoolNext, PTL DEF Spec

\* The free list never holds a frame twice or a frame that is in use, and freeListCount
\* is its length, whichever threads release frames: all its users hold the mutex.
THEOREM ListExactHolds == Spec => []ListExact
<1>1. PoolInv => ListExact
  BY DEF PoolInv, Apart, ListExact
<1> QED
  BY <1>1, PoolInit, PoolNext, PTL DEF Spec

(***************************************************************************)
(* The destruction                                                         *)
(***************************************************************************)

\* A thread on its way through destroy_frame_allocator
Destroying(t) == pc[t] \in {"destroy", "free"}

\* Once the allocator is marked its count only goes down, one thread at a time, so it
\* reaches zero once; before that only the owner can destroy it.
DestroyInv ==
  /\ TypeOK
  /\ \A t \in Threads : pc[t] = "returnStore" => mutex = t
  /\ \A t \in Threads : pc[t] \in {"register", "registerStore"} => t = Owner /\ ~freed /\ ~gone
  /\ \A t \in Threads : freed /\ pc[t] = "returnStore" => loaded[t] = allocListCount
  /\ \A t, u \in Threads : Destroying(t) /\ Destroying(u) => t = u
  /\ \A t \in Threads : Destroying(t) => ~gone /\ (~freed => t = Owner)
  /\ freed /\ (gone \/ \E t \in Threads : Destroying(t)) => allocListCount <= 0

LEMMA DestroyInit == Init => DestroyInv
BY PoolInit DEF Init, DestroyInv, PoolInv, Destroying

LEMMA DestroyNext == PoolInv /\ DestroyInv /\ [Next]_vars => DestroyInv'
<1> SUFFICES ASSUME PoolInv, DestroyInv, [Next]_vars PROVE DestroyInv'
  OBVIOUS
<1>0. TypeOK'
  BY PoolNext DEF PoolInv
<1> USE <1>0 DEF DestroyInv, TypeOK, Destroying
<1>1. CASE Get
  BY <1>1 DEF Get, OwnerReady, Threads
<1>2. CASE Allocate
  BY <1>2 DEF Allocate, OwnerReady, Threads
<1>3. CASE RegisterLoad
  BY <1>3 DEF RegisterLoad, Threads
<1>4. CASE RegisterStore
  BY <1>4 DEF RegisterStore, Threads
<1>5. CASE BeginDestroy
  BY <1>5 DEF BeginDestroy, OwnerReady, Threads
<1>6. ASSUME NEW t \in Threads, ReturnFrame(t) PROVE DestroyInv'
  BY <1>6, ThreadsAssumption DEF ReturnFrame
<1>7. ASSUME NEW t \in Threads, ReturnStore(t) PROVE DestroyInv'
  BY <1>7 DEF ReturnStore, LastBack
<1>8. ASSUME NEW t \in Threads, Destroy(t) PROVE DestroyInv'
  BY <1>8, ThreadsAssumption, SMTT(30) DEF Destroy
<1>9. ASSUME NEW t \in Threads, Free(t) PROVE DestroyInv'
  BY <1>9 DEF Free
<1>10. CASE UNCHANGED vars
  BY <1>10 DEF vars
<1> QED
  BY <1>1, <1>2, <1>3, <1>4, <1>5, <1>6, <1>7, <1>8, <1>9, <1>10 DEF Next

\* destroy_frame_allocator gets past its check at most once, although any number of
\* threads release frames and the count may be wrong.
THEOREM DestroyedOnceHolds == Spec => []DestroyedOnce
<1>1. DestroyInv => DestroyedOnce
  BY DEF DestroyInv, DestroyedOnce, Destroying
<1>2. PoolInv /\ DestroyInv /\ [Next]_vars => (PoolInv /\ DestroyInv)'
  BY PoolNext, DestroyNext
<1> QED
  BY <1>1, <1>2, PoolInit, DestroyInit, PTL DEF Spec

(***************************************************************************)
(* The count of the frames handed out                                      *)
(***************************************************************************)

\* What the steps in progress have changed in out but not yet in the count
Returning   == IF mutex # NoThread THEN 1 ELSE 0
Registering == IF pc[Owner] \in {"register", "registerStore"} THEN 1 ELSE 0

\* While no two updates of it met, allocListCount is the number of frames handed out, up
\* to the steps in progress.  So the allocator is freed only when none is out, and once
\* it is marked and none is out a thread is on its way to free it.
Exact ==
  /\ allocListCount = Cardinality(out) + Returning - Registering
  /\ pc[Owner] = "registerStore" => mutex = NoThread /\ loaded[Owner] = allocListCount
  /\ mutex # NoThread => loaded[mutex] = allocListCount
  /\ gone \/ (\E t \in Threads : pc[t] = "free") => out = {} /\ mutex = NoThread
  /\ freed /\ out = {} /\ mutex = NoThread /\ (\A t \in Threads : ~Destroying(t)) => gone

CountInv ==
  /\ IsFiniteSet(out)
  /\ mutex # NoThread => pc[mutex] = "returnStore"
  /\ ~raced => Exact

LEMMA CountInit == Init => CountInv
BY FS_EmptySet DEF Init, CountInv, Exact, Returning, Registering, Threads

\* A frame is handed out.
LEMMA CountGet == PoolInv /\ DestroyInv /\ CountInv /\ Get => CountInv'
<1> SUFFICES ASSUME PoolInv, DestroyInv, CountInv, Get PROVE CountInv'
  OBVIOUS
<1>1. Head(freeList) \notin out
  BY ApartTail DEF PoolInv, TypeOK, Get
<1>2. IsFiniteSet(out') /\ Cardinality(out') = Cardinality(out) + 1 /\ Cardinality(out) \in Nat
  BY <1>1, FS_AddElement, FS_CardinalityType DEF Get, CountInv
<1>3. out' # {} /\ mutex = NoThread
  BY DEF Get
<1> QED
  BY <1>2, <1>3 DEF Get, OwnerReady, CountInv, Exact, Returning, Registering, DestroyInv,
     Destroying, TypeOK, Threads

LEMMA CountAllocate == PoolInv /\ DestroyInv /\ CountInv /\ Allocate => CountInv'
<1> SUFFICES ASSUME PoolInv, DestroyInv, CountInv, Allocate PROVE CountInv'
  OBVIOUS
<1>1. PICK f \in Frames \ Allocated : out' = out \cup {f}
  BY DEF Allocate
<1>2. IsFiniteSet(out') /\ Cardinality(out') = Cardinality(out) + 1 /\ Cardinality(out) \in Nat
  BY <1>1, FS_AddElement, FS_CardinalityType DEF Allocated, CountInv
<1>3. out' # {} /\ mutex = NoThread
  BY <1>1 DEF Allocate
<1> QED
  BY <1>2, <1>3 DEF Allocate, OwnerReady, CountInv, Exact, Returning, Registering, DestroyInv,
     Destroying, TypeOK, Threads

\* A frame is returned: the thread takes the mutex.
LEMMA CountReturn ==
  ASSUME PoolInv, DestroyInv, CountInv, NEW t \in Threads, ReturnFrame(t) PROVE CountInv'
<1>1. PICK f \in out : out' = out \ {f}
  BY DEF ReturnFrame
<1>2. /\ IsFiniteSet(out') /\ Cardinality(out') = Cardinality(out) - 1
      /\ Cardinality(out) \in Nat /\ Cardinality(out') \in Nat
  BY <1>1, FS_RemoveElement, FS_CardinalityType DEF CountInv
<1>3. mutex' = t /\ t # NoThread /\ mutex = NoThread /\ pc'[t] = "returnStore" /\ loaded'[t] = allocListCount
  BY ThreadsAssumption DEF ReturnFrame, DestroyInv, TypeOK
<1>4. out # {}
  BY <1>1
<1>5. ~raced' => ~raced /\ pc[Owner] # "registerStore"
  BY DEF ReturnFrame
<1>6. ~raced' => Exact'
  BY <1>2, <1>3, <1>4, <1>5 DEF ReturnFrame, CountInv, Exact, Returning, Registering, DestroyInv,
     Destroying, TypeOK, Threads
<1> QED
  BY <1>2, <1>3, <1>6 DEF CountInv

LEMMA CountNext == PoolInv /\ DestroyInv /\ CountInv /\ [Next]_vars => CountInv'
<1> SUFFICES ASSUME PoolInv, DestroyInv, CountInv, [Next]_vars PROVE CountInv'
  OBVIOUS
<1>1. Cardinality(out) \in Nat /\ (Cardinality(out) = 0 <=> out = {})
  BY FS_CardinalityType, FS_EmptySet DEF CountInv
<1> USE DEF CountInv, Exact, Returning, Registering, DestroyInv, Destroying, TypeOK, Threads
<1>2. CASE RegisterLoad
  BY <1>1, <1>2 DEF RegisterLoad
<1>3. CASE RegisterStore
  BY <1>1, <1>3 DEF RegisterStore
<1>4. CASE BeginDestroy
  BY <1>1, <1>4 DEF BeginDestroy, OwnerReady
<1>5. ASSUME NEW t \in Threads, ReturnStore(t) PROVE CountInv'
  BY <1>1, <1>5, ThreadsAssumption, SMTT(30) DEF ReturnStore, LastBack
<1>6. ASSUME NEW t \in Threads, Destroy(t) PROVE CountInv'
  BY <1>1, <1>6, ThreadsAssumption DEF Destroy
<1>7. ASSUME NEW t \in Threads, Free(t) PROVE CountInv'
  BY <1>1, <1>7, ThreadsAssumption DEF Free
<1>8. CASE UNCHANGED vars
  BY <1>8 DEF vars
<1> QED
  BY <1>2, <1>3, <1>4, <1>5, <1>6, <1>7, <1>8, CountGet, CountAllocate, CountReturn DEF Next

Inv == PoolInv /\ DestroyInv /\ CountInv

LEMMA Invariance == Spec => []Inv
<1>1. Init => Inv
  BY PoolInit, DestroyInit, CountInit DEF Inv
<1>2. Inv /\ [Next]_vars => Inv'
  BY PoolNext, DestroyNext, CountNext DEF Inv
<1> QED
  BY <1>1, <1>2, PTL DEF Spec

\* The allocator is freed only when every frame is back, unless two updates of its count
\* met, for any number of threads.
THEOREM NoFrameOutlivesHolds == Spec => []NoFrameOutlives
<1>1. Inv => NoFrameOutlives
  BY DEF Inv, CountInv, Exact, NoFrameOutlives
<1> QED
  BY <1>1, Invariance, PTL

\* ... and it is freed as soon as the last frame is back: it does not leak.
THEOREM FreedWithLastFrameHolds == Spec => []FreedWithLastFrame
<1>1. Inv => FreedWithLastFrame
  BY DEF Inv, CountInv, Exact, FreedWithLastFrame, DestroyInv, TypeOK, Destroying
<1> QED
  BY <1>1, Invariance, PTL

\* The allocator is destroyed once, and with its last frame.
THEOREM GoneWithLastFrameHolds == Spec => []GoneWithLastFrame
BY DestroyedOnceHolds, NoFrameOutlivesHolds, FreedWithLastFrameHolds, PTL DEF GoneWithLastFrame

(***************************************************************************)
(* The packets: what a step of the session is for the pool                 *)
(***************************************************************************)
LEMMA ReleasedStep ==
  ASSUME NEW t \in Threads, NEW f, Released(t, f) PROVE [Next]_vars
BY DEF Released, Next

LEMMA PacketStep == [PacketNext]_allVars => [Next]_vars
<1> SUFFICES ASSUME [PacketNext]_allVars PROVE [Next]_vars
  OBVIOUS
<1>1. ASSUME NEW size \in Sizes, NewBuffer(size) PROVE [Next]_vars
  BY <1>1 DEF NewBuffer, Next
<1>2. ASSUME NEW i \in 1..Len(buffers), Shrink(i) PROVE [Next]_vars
  BY <1>2 DEF Shrink, Next, Threads
<1>3. ASSUME NEW i \in 1..Len(buffers), NEW n \in Chunks, Write(i, n) PROVE [Next]_vars
  BY <1>3 DEF Write
<1>4. CASE Merge \/ Drop
  BY <1>4, ReleasedStep DEF Merge, Drop, Threads
<1>5. CASE Give
  BY <1>5 DEF Give
<1>6. CASE EndSession \/ PoolSteps
  BY <1>6 DEF EndSession, PoolSteps, Next
<1>7. ASSUME NEW t \in Threads, Unref(t) PROVE [Next]_vars
  BY <1>7, ReleasedStep DEF Unref
<1>8. CASE UNCHANGED allVars
  BY <1>8 DEF allVars
<1> QED
  BY <1>1, <1>2, <1>3, <1>4, <1>5, <1>6, <1>7, <1>8 DEF PacketNext

\* A session uses its pool as FrameAllocator describes: it implements that specification.
THEOREM PacketsUsePool == PacketSpec => Spec
<1>1. PacketInit => Init
  BY DEF PacketInit
<1> QED
  BY <1>1, PacketStep, PTL DEF PacketSpec, Spec

\* So the allocator of a session, too, goes exactly with its last frame.
THEOREM GoneWithLastPacket == PacketSpec => []GoneWithLastFrame
BY PacketsUsePool, GoneWithLastFrameHolds, PTL

(***************************************************************************)
(* What the frames hold                                                    *)
(***************************************************************************)
Buffer == [frame : Frames, asked : Nat, received : Nat]

\* The buffers b have frames of their own among those in use, with room for what was asked
\* for and received; the other frames in use hold what g has for them, in the room a.
Keeps(b, a, d, g, used) ==
  /\ \A i, j \in 1..Len(b) : b[i].frame = b[j].frame => i = j
  /\ \A i \in 1..Len(b) : /\ b[i].frame \in used /\ d[b[i].frame] = b[i].received
                          /\ b[i].asked <= a[b[i].frame] /\ b[i].received <= a[b[i].frame]
  /\ \A f \in used : \/ \E i \in 1..Len(b) : b[i].frame = f
                     \/ d[f] = g[f] /\ d[f] <= a[f]

InPool == {freeList[i] : i \in 1..Len(freeList)}

PacketInv ==
  /\ buffers \in Seq(Buffer)
  /\ allocSize \in [Frames -> Nat] /\ dataSize \in [Frames -> Nat] /\ given \in [Frames -> Nat]
  /\ unpooled \subseteq Frames /\ unpooled \cap Allocated = {}
  /\ \A f \in InPool : dataSize[f] = 0
  /\ Keeps(buffers, allocSize, dataSize, given, out \cup unpooled)

\* What the pool does with its frames: one comes out of it, new or used before, ...
LEMMA TakesOne ==
  ASSUME PoolInv, Get \/ Allocate, NEW f, out' \ out = {f}
  PROVE  /\ out' = out \cup {f} /\ f \in Frames /\ f \notin out /\ InPool' \subseteq InPool
         /\ Get => f = Head(freeList) /\ f \in InPool
         /\ Allocate => f \notin InPool
<1>1. CASE Get
  <2>1. /\ Tail(freeList) \in Seq(Frames) /\ Head(freeList) \in Frames /\ Head(freeList) \notin out
        /\ Head(freeList) = freeList[1] /\ Len(freeList) \in Nat /\ Len(freeList) > 0
        /\ Len(Tail(freeList)) = Len(freeList) - 1
        /\ \A i \in 1..Len(Tail(freeList)) : Tail(freeList)[i] = freeList[i+1]
    BY <1>1, ApartTail, HeadTailProperties, LenProperties, EmptySeq, SMTT(30) DEF Get, PoolInv, TypeOK
  <2>2. f = Head(freeList)
    BY <1>1, <2>1 DEF Get
  <2>3. InPool' \subseteq InPool
    <3>1. CASE freeList' = Tail(freeList)
      BY <3>1, <2>1 DEF InPool
    <3>2. CASE Tail(freeList) # << >> /\ freeList' = Tail(Tail(freeList))
      <4> DEFINE r == Tail(freeList)
      <4>1. /\ Len(Tail(r)) = Len(r) - 1 /\ Len(r) \in Nat
            /\ \A i \in 1..Len(Tail(r)) : Tail(r)[i] = r[i+1]
        BY <3>2, <2>1, HeadTailProperties, LenProperties, EmptySeq
      <4> QED
        BY <3>2, <4>1, <2>1 DEF InPool
    <3> QED
      BY <1>1, <3>1, <3>2 DEF Get, Reduces
  <2>4. ~Allocate
    BY <1>1 DEF Get, Allocate
  <2>5. f \in InPool
    BY <2>1, <2>2 DEF InPool
  <2> QED
    BY <1>1, <2>1, <2>2, <2>3, <2>4, <2>5 DEF Get
<1>2. CASE Allocate
  <2>1. f \in Frames \ Allocated /\ out' = out \cup {f} /\ ~Get /\ freeList' = freeList
    BY <1>2 DEF Allocate, Get, fa
  <2> QED
    BY <2>1 DEF Allocated, InPool
<1> QED
  BY <1>1, <1>2

\* ... or goes back to it, or the pool goes.
LEMMA TakesBack ==
  ASSUME PoolInv, NEW t \in Threads, NEW f \in out, ReturnFrame(t), out' = out \ {f}
  PROVE  InPool' \subseteq InPool \cup {f}
<1>1. PICK g \in out :
        /\ out' = out \ {g}
        /\ \/ freeList' = <<g>> \o freeList
           \/ freeList # << >> /\ freeList' = Tail(freeList)
  BY DEF ReturnFrame, Reduces
<1>2. f = g /\ f \in Frames /\ freeList \in Seq(Frames)
  BY <1>1 DEF PoolInv, TypeOK
<1>3. CASE freeList' = <<f>> \o freeList
  <2>1. <<f>> \in Seq(Frames) /\ Len(<<f>>) = 1 /\ <<f>>[1] = f
    BY <1>2
  <2>2. /\ Len(<<f>> \o freeList) = 1 + Len(freeList) /\ Len(freeList) \in Nat
        /\ \A i \in 1..(1 + Len(freeList)) :
             (<<f>> \o freeList)[i] = IF i <= 1 THEN <<f>>[i] ELSE freeList[i - 1]
    BY <2>1, <1>2, ConcatProperties, LenProperties
  <2> QED
    BY <1>3, <2>1, <2>2 DEF InPool
<1>4. CASE freeList # << >> /\ freeList' = Tail(freeList)
  BY <1>4, <1>2, HeadTailProperties, LenProperties, EmptySeq DEF InPool
<1> QED
  BY <1>1, <1>2, <1>3, <1>4

LEMMA PoolTakesNone ==
  ASSUME PoolInv, PoolSteps \/ EndSession
  PROVE  out' = out /\ InPool' \subseteq InPool
BY DEF PoolSteps, EndSession, RegisterLoad, RegisterStore, ReturnStore, Destroy, Free, BeginDestroy,
   InPool

\* What a call of the session does to the buffers.
\* The new buffers c have one more than b, with the frame f of its own and nothing in it.
Adds(b, a, d, u, f, size, c, a2, d2) ==
  /\ b \in Seq(Buffer) /\ a \in [Frames -> Nat] /\ d \in [Frames -> Nat]
  /\ a2 \in [Frames -> Nat] /\ d2 \in [Frames -> Nat]
  /\ f \in Frames /\ f \notin u /\ u \subseteq Frames /\ size \in Nat
  /\ \A x \in Frames \ {f} : a2[x] = a[x] /\ d2[x] = d[x]
  /\ a2[f] >= size /\ d2[f] = 0
  /\ c = Append(b, [frame |-> f, asked |-> size, received |-> 0])

LEMMA KeepsNew ==
  ASSUME NEW b, NEW a, NEW d, NEW g, NEW u, NEW f, NEW size, NEW c, NEW a2, NEW d2,
         Adds(b, a, d, u, f, size, c, a2, d2), Keeps(b, a, d, g, u)
  PROVE  c \in Seq(Buffer) /\ Keeps(c, a2, d2, g, u \cup {f})
<1> /\ b \in Seq(Buffer) /\ a \in [Frames -> Nat] /\ d \in [Frames -> Nat]
    /\ a2 \in [Frames -> Nat] /\ d2 \in [Frames -> Nat]
    /\ f \in Frames /\ f \notin u /\ u \subseteq Frames /\ size \in Nat
    /\ \A x \in Frames \ {f} : a2[x] = a[x] /\ d2[x] = d[x]
    /\ a2[f] >= size /\ d2[f] = 0
    /\ c = Append(b, [frame |-> f, asked |-> size, received |-> 0])
  BY DEF Adds
<1> DEFINE e == [frame |-> f, asked |-> size, received |-> 0]
<1>1. e \in Buffer /\ e.frame = f /\ e.asked = size /\ e.received = 0
  BY DEF Buffer
<1> HIDE DEF e
<1>2. /\ c \in Seq(Buffer) /\ Len(c) = Len(b) + 1 /\ Len(b) \in Nat
      /\ \A i \in 1..Len(b) : c[i] = b[i] /\ b[i] \in Buffer
      /\ c[Len(b) + 1] = e
  BY <1>1, AppendProperties, LenProperties, ElementOfSeq DEF e
<1>3. \A i \in 1..Len(b) : b[i].frame # f /\ b[i].frame \in Frames
  BY DEF Keeps
<1>4. \A i, j \in 1..Len(c) : c[i].frame = c[j].frame => i = j
  BY <1>1, <1>2, <1>3 DEF Keeps
<1>5. ASSUME NEW i \in 1..Len(c)
      PROVE  /\ c[i].frame \in u \cup {f} /\ d2[c[i].frame] = c[i].received
             /\ c[i].asked <= a2[c[i].frame] /\ c[i].received <= a2[c[i].frame]
  <2>1. CASE i \in 1..Len(b)
    <3>1. /\ c[i] = b[i] /\ b[i].frame # f /\ b[i].frame \in u /\ b[i].frame \in Frames
          /\ d[b[i].frame] = b[i].received
          /\ b[i].asked <= a[b[i].frame] /\ b[i].received <= a[b[i].frame]
      BY <1>2, <1>3, <2>1 DEF Keeps
    <3> QED
      BY <3>1
  <2>2. CASE i = Len(b) + 1
    BY <1>1, <1>2, <2>2
  <2> QED
    BY <1>2, <2>1, <2>2
<1>6. ASSUME NEW x \in u \cup {f}
      PROVE  \/ \E i \in 1..Len(c) : c[i].frame = x
             \/ d2[x] = g[x] /\ d2[x] <= a2[x]
  <2>1. CASE x = f
    <3>1. Len(b) + 1 \in 1..Len(c)
      BY <1>2
    <3> QED
      BY <1>1, <1>2, <2>1, <3>1
  <2>2. ASSUME x # f, NEW i \in 1..Len(b), b[i].frame = x
        PROVE  \E k \in 1..Len(c) : c[k].frame = x
    <3>1. i \in 1..Len(c) /\ c[i].frame = x
      BY <1>2, <2>2
    <3> QED
      BY <3>1
  <2>3. CASE x # f /\ d[x] = g[x] /\ d[x] <= a[x]
    BY <2>3
  <2> QED
    BY <2>1, <2>2, <2>3 DEF Keeps
<1> QED
  BY <1>2, <1>4, <1>5, <1>6 DEF Keeps

\* The first buffer goes, with its frame or without it.
LEMMA KeepsTail ==
  ASSUME NEW b \in Seq(Buffer), NEW a \in [Frames -> Nat], NEW d \in [Frames -> Nat],
         NEW g \in [Frames -> Nat], NEW u \in SUBSET Frames, Keeps(b, a, d, g, u), b # << >>,
         NEW f, f = Head(b).frame
  PROVE  /\ Tail(b) \in Seq(Buffer) /\ f \in u
         /\ Keeps(Tail(b), a, d, [g EXCEPT ![f] = d[f]], u)
         /\ Keeps(Tail(b), a, [d EXCEPT ![f] = 0], g, u \ {f})
<1> DEFINE c == Tail(b)
<1>1. /\ c \in Seq(Buffer) /\ Len(b) \in Nat /\ Len(b) > 0 /\ Len(c) = Len(b) - 1
      /\ \A i \in 1..Len(c) : c[i] = b[i + 1] /\ i + 1 \in 1..Len(b)
      /\ Head(b) = b[1] /\ \A i \in 1..Len(b) : b[i] \in Buffer
  BY HeadTailProperties, LenProperties, EmptySeq, ElementOfSeq
<1> HIDE DEF c
<1>2. f = b[1].frame /\ f \in u /\ f \in Frames
  BY <1>1 DEF Keeps
<1>3. \A i \in 1..Len(c) : c[i].frame # f
  <2> SUFFICES ASSUME NEW i \in 1..Len(c), c[i].frame = f PROVE FALSE
    OBVIOUS
  <2>1. i + 1 \in 1..Len(b) /\ 1 \in 1..Len(b) /\ b[i + 1].frame = b[1].frame
    BY <1>1, <1>2
  <2>2. i + 1 = 1
    BY <2>1 DEF Keeps
  <2> QED
    BY <2>2
<1>4. \A x \in u : x # f => \/ \E i \in 1..Len(c) : c[i].frame = x
                            \/ d[x] = g[x] /\ d[x] <= a[x]
  <2> SUFFICES ASSUME NEW x \in u, x # f, NEW i \in 1..Len(b), b[i].frame = x
               PROVE  \E k \in 1..Len(c) : c[k].frame = x
    BY DEF Keeps
  <2>1. i - 1 \in 1..Len(c) /\ c[i - 1] = b[i]
    BY <1>1, <1>2
  <2> QED
    BY <2>1
<1>5. ASSUME NEW i \in 1..Len(c), NEW j \in 1..Len(c), c[i].frame = c[j].frame PROVE i = j
  <2>1. i + 1 \in 1..Len(b) /\ j + 1 \in 1..Len(b) /\ b[i + 1].frame = b[j + 1].frame
    BY <1>1, <1>5
  <2>2. i + 1 = j + 1
    BY <2>1 DEF Keeps
  <2> QED
    BY <2>2
<1>6. ASSUME NEW i \in 1..Len(c)
      PROVE  /\ c[i].frame \in u /\ d[c[i].frame] = c[i].received
             /\ c[i].asked <= a[c[i].frame] /\ c[i].received <= a[c[i].frame]
  <2>1. i + 1 \in 1..Len(b) /\ c[i] = b[i + 1]
    BY <1>1
  <2> QED
    BY <2>1 DEF Keeps
<1>7. d[f] <= a[f]
  BY <1>2, <1>1 DEF Keeps
<1> QED
  BY <1>1, <1>2, <1>3, <1>4, <1>5, <1>6, <1>7 DEF Keeps, c

\* A frame that no buffer has goes.
LEMMA KeepsGone ==
  ASSUME NEW b \in Seq(Buffer), NEW a \in [Frames -> Nat], NEW d \in [Frames -> Nat],
         NEW g \in [Frames -> Nat], NEW u \in SUBSET Frames, Keeps(b, a, d, g, u),
         NEW f \in u, \A i \in 1..Len(b) : b[i].frame # f
  PROVE  Keeps(b, a, [d EXCEPT ![f] = 0], [g EXCEPT ![f] = 0], u \ {f})
BY DEF Keeps

\* There is room for what is written.
LEMMA RoomIsEnough ==
  ASSUME NEW f \in Frames, NEW n \in Nat, PacketInv, dataSize[f] <= allocSize[f]
  PROVE  RoomFor(f, n) \in Int /\ RoomFor(f, n) >= allocSize[f] /\ RoomFor(f, n) >= dataSize[f] + n
<1>1. allocSize[f] \in Nat /\ dataSize[f] \in Nat
  BY DEF PacketInv
<1>2. allocSize[f] \div GrowFactor \in Int
  BY <1>1, PacketBuffersAssumption
<1>3. /\ Larger(allocSize[f] \div GrowFactor, n) \in Int
      /\ Larger(allocSize[f] \div GrowFactor, n) >= n
  BY <1>2 DEF Larger
<1> QED
  BY <1>1, <1>3 DEF RoomFor

LEMMA PacketInitial == PacketInit => PacketInv
<1> SUFFICES ASSUME PacketInit PROVE PacketInv
  OBVIOUS
<1>1. buffers \in Seq(Buffer) /\ Len(buffers) = 0 /\ InPool = {} /\ out \cup unpooled = {}
  BY EmptySeq DEF PacketInit, Init, InPool
<1> QED
  BY <1>1 DEF PacketInit, Init, PacketInv, Keeps

LEMMA PacketNew ==
  ASSUME PoolInv, PacketInv, NEW size \in Sizes, NewBuffer(size) PROVE PacketInv'
<1>1. PICK f \in out' : /\ out' \ out = {f}
                        /\ buffers' = Append(buffers, [frame |-> f, asked |-> size, received |-> 0])
  BY DEF NewBuffer
<1>2. Get \/ Allocate
  BY DEF NewBuffer
<1>3. /\ out' = out \cup {f} /\ f \in Frames /\ f \notin out /\ InPool' \subseteq InPool
      /\ Get => f = Head(freeList) /\ f \in InPool
      /\ Allocate => f \notin InPool
  BY <1>1, <1>2, TakesOne
<1>4. f \notin unpooled /\ unpooled' = unpooled /\ given' = given
  <2>1. CASE Get
    BY <2>1, <1>3 DEF PacketInv, Allocated, InPool, NewBuffer
  <2>2. CASE ~Get
    <3>1. PICK h \in out' : out' \ out = {h} /\ h \notin unpooled
      BY <2>2 DEF NewBuffer
    <3> QED
      BY <3>1, <1>1 DEF NewBuffer
  <2> QED
    BY <2>1, <2>2
<1>5. /\ allocSize' \in [Frames -> Nat] /\ dataSize' \in [Frames -> Nat]
      /\ \A x \in Frames \ {f} : allocSize'[x] = allocSize[x] /\ dataSize'[x] = dataSize[x]
      /\ allocSize'[f] >= size /\ dataSize'[f] = 0
  <2>1. size \in Nat /\ allocSize[f] \in Nat
    BY <1>3, PacketBuffersAssumption DEF PacketInv
  <2>2. CASE Get
    <3>1. Taken(f, size) /\ dataSize[f] = 0
      BY <2>2, <1>3 DEF NewBuffer, Get, Allocate, PacketInv
    <3>2. allocSize \in [Frames -> Nat] /\ dataSize \in [Frames -> Nat]
      BY DEF PacketInv
    <3>3. CASE allocSize[f] < size
      BY <2>1, <3>1, <3>2, <3>3, <1>3 DEF Taken
    <3>4. CASE ~(allocSize[f] < size)
      BY <2>1, <3>1, <3>2, <3>4, <1>3 DEF Taken, memory
    <3> QED
      BY <3>3, <3>4
  <2>3. CASE ~Get
    <3>1. PICK h \in out' : out' \ out = {h} /\ Created(h, size)
      BY <2>3 DEF NewBuffer
    <3>2. Created(f, size)
      BY <3>1, <1>1
    <3> QED
      BY <2>1, <3>2, <1>3 DEF Created, PacketInv
  <2> QED
    BY <2>2, <2>3
<1>6. size \in Nat /\ out \cup unpooled \in SUBSET Frames /\ f \notin out \cup unpooled
  BY <1>3, <1>4, PacketBuffersAssumption DEF PoolInv, TypeOK, PacketInv
<1>7. /\ buffers' \in Seq(Buffer)
      /\ Keeps(buffers', allocSize', dataSize', given, (out \cup unpooled) \cup {f})
  <2> DEFINE u == out \cup unpooled
  <2>1. /\ buffers \in Seq(Buffer) /\ allocSize \in [Frames -> Nat] /\ dataSize \in [Frames -> Nat]
        /\ Keeps(buffers, allocSize, dataSize, given, u)
    BY DEF PacketInv
  <2>2. u \subseteq Frames /\ f \notin u /\ size \in Nat
    BY <1>6
  <2> HIDE DEF u
  <2>3. /\ buffers' \in Seq(Buffer)
        /\ Keeps(buffers', allocSize', dataSize', given, u \cup {f})
    <3>1. f \in Frames /\ allocSize' \in [Frames -> Nat] /\ dataSize' \in [Frames -> Nat]
      BY <1>3, <1>5
    <3>2. /\ \A x \in Frames \ {f} : allocSize'[x] = allocSize[x] /\ dataSize'[x] = dataSize[x]
          /\ allocSize'[f] >= size /\ dataSize'[f] = 0
      BY <1>5
    <3>3. buffers' = Append(buffers, [frame |-> f, asked |-> size, received |-> 0])
      BY <1>1
    <3>4. Adds(buffers, allocSize, dataSize, u, f, size, buffers', allocSize', dataSize')
      BY <2>1, <2>2, <3>1, <3>2, <3>3 DEF Adds
    <3> QED
      BY <2>1, <3>4, KeepsNew
  <2> QED
    BY <2>3 DEF u
<1>8. (out \cup unpooled) \cup {f} = out' \cup unpooled'
  BY <1>3, <1>4
<1>9. unpooled' \cap Allocated' = {} /\ unpooled' \subseteq Frames
  <2>1. unpooled \cap (out \cup InPool) = {} /\ unpooled \subseteq Frames
    BY DEF PacketInv, Allocated, InPool
  <2>2. Allocated' = out' \cup InPool'
    BY DEF Allocated, InPool
  <2> QED
    BY <2>1, <2>2, <1>3, <1>4
<1>10. \A x \in InPool' : dataSize'[x] = 0
  <2>1. InPool \subseteq Frames
    BY ElementOfSeq DEF PoolInv, TypeOK, InPool
  <2> QED
    BY <2>1, <1>3, <1>5 DEF PacketInv
<1> QED
  BY <1>4, <1>5, <1>7, <1>8, <1>9, <1>10 DEF PacketInv

\* The frames in use and those in the pool.
LEMMA FramesInUse ==
  ASSUME PoolInv, PacketInv
  PROVE  /\ out \cup unpooled \subseteq Frames /\ InPool \subseteq Frames
         /\ InPool \cap (out \cup unpooled) = {} /\ unpooled \cap (out \cup InPool) = {}
<1>1. InPool \subseteq Frames
  BY ElementOfSeq DEF PoolInv, TypeOK, InPool
<1>2. out \subseteq Frames /\ unpooled \subseteq Frames
  BY DEF PoolInv, TypeOK, PacketInv
<1>3. unpooled \cap (out \cup InPool) = {}
  BY DEF PacketInv, Allocated, InPool
<1>4. InPool \cap out = {}
  BY DEF PoolInv, Apart, InPool
<1> QED
  BY <1>1, <1>2, <1>3, <1>4

\* A frame with or without allocator that is given up.
LEMMA ReleasedGone ==
  ASSUME PoolInv, PacketInv, NEW t \in Threads, NEW f \in out \cup unpooled, Released(t, f)
  PROVE  /\ out' \cup unpooled' = (out \cup unpooled) \ {f} /\ InPool' \subseteq InPool \cup {f}
         /\ unpooled' \subseteq Frames /\ unpooled' \cap Allocated' = {}
<1>1. unpooled \cap (out \cup InPool) = {} /\ unpooled \subseteq Frames
  BY DEF PacketInv, Allocated, InPool
<1>2. Allocated' = out' \cup InPool'
  BY DEF Allocated, InPool
<1>3. CASE f \in unpooled
  <2>1. unpooled' = unpooled \ {f} /\ out' = out /\ freeList' = freeList
    BY <1>3 DEF Released, vars
  <2>2. InPool' = InPool
    BY <2>1 DEF InPool
  <2> QED
    BY <1>1, <1>2, <1>3, <2>1, <2>2
<1>4. CASE f \notin unpooled
  <2>1. f \in out /\ ReturnFrame(t) /\ out' = out \ {f} /\ unpooled' = unpooled
    BY <1>4 DEF Released
  <2>2. InPool' \subseteq InPool \cup {f}
    BY <2>1, TakesBack
  <2> QED
    BY <1>1, <1>2, <1>4, <2>1, <2>2
<1> QED
  BY <1>3, <1>4

\* The type of what a buffer's frame has.
LEMMA BufferType ==
  ASSUME PoolInv, PacketInv, NEW i \in 1..Len(buffers)
  PROVE  /\ buffers[i] \in Buffer /\ buffers[i].frame \in out \cup unpooled
         /\ buffers[i].frame \in Frames /\ buffers[i].asked \in Nat /\ buffers[i].received \in Nat
         /\ dataSize[buffers[i].frame] = buffers[i].received
         /\ buffers[i].asked <= allocSize[buffers[i].frame]
         /\ buffers[i].received <= allocSize[buffers[i].frame]
         /\ allocSize[buffers[i].frame] \in Nat
<1>1. buffers[i] \in Buffer
  BY ElementOfSeq DEF PacketInv
<1>2. /\ buffers[i].frame \in Frames /\ buffers[i].asked \in Nat /\ buffers[i].received \in Nat
  BY <1>1 DEF Buffer
<1> QED
  BY <1>1, <1>2 DEF PacketInv, Keeps

\* One buffer has a frame, or another frame, with other contents.
LEMMA KeepsChanged ==
  ASSUME PacketInv, out \cup unpooled \subseteq Frames,
         NEW i \in 1..Len(buffers), NEW f \in Frames, NEW e \in Buffer, e.frame = f,
         f = buffers[i].frame \/ f \notin out \cup unpooled,
         \A x \in Frames \ {f, buffers[i].frame} :
           allocSize'[x] = allocSize[x] /\ dataSize'[x] = dataSize[x],
         dataSize'[f] = e.received, e.received <= allocSize'[f], e.asked <= allocSize'[f],
         buffers' = [buffers EXCEPT ![i] = e], given' = given,
         out' \cup unpooled' = ((out \cup unpooled) \ {buffers[i].frame}) \cup {f}
  PROVE  /\ buffers' \in Seq(Buffer)
         /\ Keeps(buffers', allocSize', dataSize', given', out' \cup unpooled')
<1> DEFINE u == out \cup unpooled
           u2 == out' \cup unpooled'
<1>1. /\ buffers' \in Seq(Buffer) /\ Len(buffers') = Len(buffers) /\ Len(buffers) \in Nat
      /\ buffers'[i] = e
      /\ \A j \in 1..Len(buffers) : buffers[j] \in Buffer /\ (j # i => buffers'[j] = buffers[j])
  BY ExceptSeq, LenProperties, ElementOfSeq DEF PacketInv
<1>2. /\ Keeps(buffers, allocSize, dataSize, given, u)
      /\ u \subseteq Frames /\ u2 = (u \ {buffers[i].frame}) \cup {f}
      /\ f = buffers[i].frame \/ f \notin u
  BY DEF PacketInv
<1> HIDE DEF u, u2
<1>3. \A j \in 1..Len(buffers) :
        j # i => buffers[j].frame # f /\ buffers[j].frame # buffers[i].frame /\ buffers[j].frame \in Frames
  <2> SUFFICES ASSUME NEW j \in 1..Len(buffers), j # i
               PROVE  /\ buffers[j].frame # f /\ buffers[j].frame # buffers[i].frame
                      /\ buffers[j].frame \in Frames
    OBVIOUS
  <2>1. buffers[j].frame # buffers[i].frame /\ buffers[j].frame \in u
    BY <1>2 DEF Keeps
  <2> QED
    BY <1>2, <2>1
<1>4. \A j, k \in 1..Len(buffers') : buffers'[j].frame = buffers'[k].frame => j = k
  <2> SUFFICES ASSUME NEW j \in 1..Len(buffers), NEW k \in 1..Len(buffers),
                      buffers'[j].frame = buffers'[k].frame
               PROVE  j = k
    BY <1>1
  <2>1. CASE j # i /\ k # i
    <3>1. buffers[j].frame = buffers[k].frame
      BY <1>1, <2>1
    <3> QED
      BY <3>1, <1>2 DEF Keeps
  <2> QED
    BY <1>1, <1>3, <2>1
<1>5. ASSUME NEW j \in 1..Len(buffers)
      PROVE  /\ buffers'[j].frame \in u2 /\ dataSize'[buffers'[j].frame] = buffers'[j].received
             /\ buffers'[j].asked <= allocSize'[buffers'[j].frame]
             /\ buffers'[j].received <= allocSize'[buffers'[j].frame]
  <2>1. CASE j = i
    BY <1>1, <1>2, <2>1
  <2>2. CASE j # i
    <3>1. /\ buffers[j].frame \in u /\ dataSize[buffers[j].frame] = buffers[j].received
          /\ buffers[j].asked <= allocSize[buffers[j].frame]
          /\ buffers[j].received <= allocSize[buffers[j].frame]
      BY <1>2 DEF Keeps
    <3>2. buffers'[j] = buffers[j] /\ buffers[j].frame \in Frames \ {f, buffers[i].frame}
      BY <1>1, <1>3, <2>2
    <3> QED
      BY <3>1, <3>2, <1>2
  <2> QED
    BY <2>1, <2>2
<1>6. ASSUME NEW x \in u2, ~ \E j \in 1..Len(buffers) : buffers'[j].frame = x
      PROVE  dataSize'[x] = given[x] /\ dataSize'[x] <= allocSize'[x]
  <2>1. x # f /\ x \in u /\ x # buffers[i].frame /\ x \in Frames
    BY <1>1, <1>2, <1>6
  <2>2. \A j \in 1..Len(buffers) : buffers[j].frame # x
    BY <1>1, <1>6, <2>1
  <2>3. dataSize[x] = given[x] /\ dataSize[x] <= allocSize[x]
    BY <1>2, <2>1, <2>2 DEF Keeps
  <2> QED
    BY <2>1, <2>3
<1>7. Keeps(buffers', allocSize', dataSize', given', u2)
  BY <1>1, <1>4, <1>5, <1>6 DEF Keeps
<1> QED
  BY <1>1, <1>7 DEF u2

LEMMA PacketWrite ==
  ASSUME PoolInv, PacketInv, NEW i \in 1..Len(buffers), NEW n \in Nat, Write(i, n)
  PROVE  PacketInv'
<1> DEFINE f == buffers[i].frame
           e == [buffers[i] EXCEPT !.received = @ + n]
<1>1. /\ buffers[i] \in Buffer /\ f \in out \cup unpooled /\ f \in Frames
      /\ dataSize[f] = buffers[i].received
      /\ buffers[i].asked \in Nat /\ buffers[i].received \in Nat /\ allocSize[f] \in Nat
      /\ buffers[i].asked <= allocSize[f] /\ buffers[i].received <= allocSize[f]
  BY BufferType
<1>2. RoomFor(f, n) \in Int /\ RoomFor(f, n) >= allocSize[f] /\ RoomFor(f, n) >= dataSize[f] + n
  BY <1>1, RoomIsEnough
<1>3. /\ allocSize' = [allocSize EXCEPT ![f] = RoomFor(f, n)]
      /\ dataSize' = [dataSize EXCEPT ![f] = dataSize[f] + n]
      /\ buffers' = [buffers EXCEPT ![i] = e]
      /\ UNCHANGED <<freeList, out, unpooled, given>>
  BY DEF Write, vars
<1>4. allocSize \in [Frames -> Nat] /\ dataSize \in [Frames -> Nat] /\ given \in [Frames -> Nat]
  BY DEF PacketInv
<1>5. /\ e \in Buffer /\ e.frame = f /\ e.received = buffers[i].received + n
      /\ e.asked = buffers[i].asked
  BY <1>1 DEF Buffer
<1>6. out \cup unpooled \subseteq Frames /\ InPool \cap (out \cup unpooled) = {} /\ InPool \subseteq Frames
  BY FramesInUse
<1>7. f = buffers[i].frame
  OBVIOUS
<1> HIDE DEF f, e
<1>8. /\ allocSize' \in [Frames -> Nat] /\ dataSize' \in [Frames -> Nat]
      /\ \A x \in Frames \ {f} : allocSize'[x] = allocSize[x] /\ dataSize'[x] = dataSize[x]
      /\ dataSize'[f] = e.received /\ e.received <= allocSize'[f] /\ e.asked <= allocSize'[f]
  BY <1>1, <1>2, <1>3, <1>4, <1>5, SMTT(30)
<1>9. out' \cup unpooled' = ((out \cup unpooled) \ {buffers[i].frame}) \cup {f}
  BY <1>1, <1>3, <1>7
<1>10. /\ buffers' \in Seq(Buffer)
       /\ Keeps(buffers', allocSize', dataSize', given', out' \cup unpooled')
  BY <1>1, <1>3, <1>5, <1>6, <1>7, <1>8, <1>9, KeepsChanged
<1>11. \A x \in InPool' : dataSize'[x] = 0
  BY <1>1, <1>3, <1>6, <1>8 DEF PacketInv, InPool
<1>12. unpooled' \subseteq Frames /\ unpooled' \cap Allocated' = {}
  BY <1>3 DEF PacketInv, Allocated
<1> QED
  BY <1>3, <1>4, <1>8, <1>10, <1>11, <1>12 DEF PacketInv

LEMMA PacketShrink ==
  ASSUME PoolInv, PacketInv, NEW i \in 1..Len(buffers), Shrink(i) PROVE PacketInv'
<1> DEFINE f == buffers[i].frame
<1>1. /\ buffers[i] \in Buffer /\ f \in out \cup unpooled /\ f \in Frames
      /\ dataSize[f] = buffers[i].received /\ buffers[i].received \in Nat
  BY BufferType
<1>2. PICK copy \in Frames \ (Allocated \cup unpooled) :
        /\ allocSize' = [allocSize EXCEPT ![copy] = dataSize[f]]
        /\ dataSize' = [dataSize EXCEPT ![copy] = dataSize[f], ![f] = 0]
        /\ IF f \in unpooled THEN unpooled' = (unpooled \ {f}) \cup {copy} /\ UNCHANGED vars
                             ELSE ReturnFrame(Owner) /\ out' = out \ {f} /\ unpooled' = unpooled \cup {copy}
        /\ buffers' = [buffers EXCEPT ![i] = [@ EXCEPT !.frame = copy, !.asked = 0]]
  BY DEF Shrink
<1>3. /\ out \cup unpooled \subseteq Frames /\ InPool \subseteq Frames
      /\ InPool \cap (out \cup unpooled) = {} /\ unpooled \cap (out \cup InPool) = {}
  BY FramesInUse
<1>4. copy \notin out \cup unpooled \cup InPool /\ copy \in Frames
  BY <1>2 DEF Allocated, InPool
<1>5. /\ out' \cup unpooled' = ((out \cup unpooled) \ {f}) \cup {copy}
      /\ InPool' \subseteq InPool \cup {f}
      /\ unpooled' \subseteq Frames /\ unpooled' \cap (out' \cup InPool') = {}
  <2>1. CASE f \in unpooled
    <3>1. out' = out /\ InPool' = InPool /\ unpooled' = (unpooled \ {f}) \cup {copy}
      BY <1>2, <2>1 DEF vars, InPool
    <3> QED
      BY <3>1, <1>3, <1>4, <2>1
  <2>2. CASE f \notin unpooled
    <3>1. ReturnFrame(Owner) /\ out' = out \ {f} /\ unpooled' = unpooled \cup {copy} /\ f \in out
      BY <1>1, <1>2, <2>2
    <3>2. InPool' \subseteq InPool \cup {f}
      BY <3>1, TakesBack DEF Threads
    <3> QED
      BY <3>1, <3>2, <1>3, <1>4, <2>2
  <2> QED
    BY <2>1, <2>2
<1> DEFINE e == [buffers[i] EXCEPT !.frame = copy, !.asked = 0]
<1>6. /\ e \in Buffer /\ e.frame = copy /\ e.received = buffers[i].received /\ e.asked = 0
  BY <1>1, <1>4 DEF Buffer
<1>7. buffers' = [buffers EXCEPT ![i] = e] /\ given' = given
  BY <1>2 DEF Shrink
<1>8. allocSize \in [Frames -> Nat] /\ dataSize \in [Frames -> Nat] /\ given \in [Frames -> Nat]
  BY DEF PacketInv
<1>9. f = buffers[i].frame
  OBVIOUS
<1> HIDE DEF f, e
<1>10. /\ allocSize' \in [Frames -> Nat] /\ dataSize' \in [Frames -> Nat] /\ f # copy
       /\ \A x \in Frames \ {copy, f} : allocSize'[x] = allocSize[x] /\ dataSize'[x] = dataSize[x]
       /\ dataSize'[f] = 0 /\ dataSize'[copy] = e.received
       /\ e.received <= allocSize'[copy] /\ e.asked <= allocSize'[copy]
  <2>1. f \in Frames /\ copy \in Frames /\ f # copy /\ dataSize[f] \in Nat /\ dataSize[f] = e.received /\ e.asked = 0
    BY <1>1, <1>4, <1>6
  <2>2. /\ allocSize' = [allocSize EXCEPT ![copy] = dataSize[f]]
        /\ dataSize' = [dataSize EXCEPT ![copy] = dataSize[f], ![f] = 0]
    BY <1>2
  <2> QED
    BY <1>8, <2>1, <2>2
<1>11. /\ buffers' \in Seq(Buffer)
       /\ Keeps(buffers', allocSize', dataSize', given', out' \cup unpooled')
  BY <1>3, <1>4, <1>5, <1>6, <1>7, <1>9, <1>10, KeepsChanged
<1>12. \A x \in InPool' : dataSize'[x] = 0
  BY <1>3, <1>4, <1>5, <1>10 DEF PacketInv
<1>13. Allocated' = out' \cup InPool'
  BY DEF Allocated, InPool
<1> QED
  BY <1>5, <1>7, <1>8, <1>10, <1>11, <1>12, <1>13 DEF PacketInv

LEMMA FirstBuffer ==
  ASSUME PoolInv, PacketInv, buffers # << >>
  PROVE  /\ Len(buffers) \in Nat /\ Len(buffers) > 0 /\ Head(buffers) = buffers[1]
         /\ Head(buffers).frame \in Frames /\ Head(buffers).frame \in out \cup unpooled
         /\ dataSize[Head(buffers).frame] \in Nat
<1>1. Len(buffers) \in Nat /\ Len(buffers) > 0 /\ Head(buffers) = buffers[1]
  BY HeadTailProperties, LenProperties, EmptySeq DEF PacketInv
<1>2. 1 \in 1..Len(buffers)
  BY <1>1
<1> QED
  BY <1>1, <1>2, BufferType

LEMMA PacketGive == PoolInv /\ PacketInv /\ Give => PacketInv'
<1> SUFFICES ASSUME PoolInv, PacketInv, Give PROVE PacketInv'
  OBVIOUS
<1> DEFINE f == Head(buffers).frame
           u == out \cup unpooled
<1>1. f \in Frames /\ dataSize[f] \in Nat /\ f = Head(buffers).frame /\ buffers # << >>
  BY FirstBuffer DEF Give
<1>2. /\ given' = [given EXCEPT ![f] = dataSize[f]] /\ buffers' = Tail(buffers)
      /\ UNCHANGED <<freeList, out, unpooled, allocSize, dataSize>>
  BY DEF Give, vars, memory
<1>3. /\ buffers \in Seq(Buffer) /\ allocSize \in [Frames -> Nat] /\ dataSize \in [Frames -> Nat]
      /\ given \in [Frames -> Nat] /\ u \in SUBSET Frames
      /\ Keeps(buffers, allocSize, dataSize, given, u)
  BY FramesInUse DEF PacketInv
<1> HIDE DEF f, u
<1>4. buffers' \in Seq(Buffer) /\ Keeps(buffers', allocSize, dataSize, given', u)
  BY <1>1, <1>2, <1>3, KeepsTail
<1>5. given' \in [Frames -> Nat]
  BY <1>1, <1>2, <1>3
<1>6. u' = u /\ InPool' = InPool /\ Allocated' = Allocated
  BY <1>2 DEF u, InPool, Allocated
<1> QED
  BY <1>2, <1>4, <1>5, <1>6 DEF PacketInv, u

LEMMA PacketDrop == PoolInv /\ PacketInv /\ Drop => PacketInv'
<1> SUFFICES ASSUME PoolInv, PacketInv, Drop PROVE PacketInv'
  OBVIOUS
<1> DEFINE f == Head(buffers).frame
           u == out \cup unpooled
<1>1. f \in Frames /\ f \in u /\ f = Head(buffers).frame /\ buffers # << >>
  BY FirstBuffer DEF Drop
<1>2. /\ dataSize' = [dataSize EXCEPT ![f] = 0] /\ buffers' = Tail(buffers)
      /\ UNCHANGED <<allocSize, given>>
  BY DEF Drop
<1>3. /\ u' = u \ {f} /\ InPool' \subseteq InPool \cup {f}
      /\ unpooled' \subseteq Frames /\ unpooled' \cap Allocated' = {}
  BY <1>1, ReleasedGone DEF Drop, Threads
<1>4. /\ buffers \in Seq(Buffer) /\ allocSize \in [Frames -> Nat] /\ dataSize \in [Frames -> Nat]
      /\ given \in [Frames -> Nat] /\ u \in SUBSET Frames
      /\ Keeps(buffers, allocSize, dataSize, given, u)
  BY FramesInUse DEF PacketInv
<1>5. InPool \subseteq Frames
  BY FramesInUse
<1> HIDE DEF f, u
<1>6. buffers' \in Seq(Buffer) /\ Keeps(buffers', allocSize, dataSize', given, u \ {f})
  BY <1>1, <1>2, <1>4, KeepsTail
<1>7. dataSize' \in [Frames -> Nat] /\ \A x \in InPool' : dataSize'[x] = 0
  BY <1>1, <1>2, <1>3, <1>4, <1>5 DEF PacketInv
<1> QED
  BY <1>2, <1>3, <1>4, <1>6, <1>7 DEF PacketInv, u

LEMMA PacketUnref ==
  ASSUME PoolInv, PacketInv, NEW t \in Threads, Unref(t) PROVE PacketInv'
<1> DEFINE u == out \cup unpooled
<1>1. PICK f \in Downstream :
        /\ Released(t, f) /\ UNCHANGED <<allocSize, buffers>>
        /\ dataSize' = [dataSize EXCEPT ![f] = 0] /\ given' = [given EXCEPT ![f] = 0]
  BY DEF Unref
<1>2. f \in u /\ \A i \in 1..Len(buffers) : buffers[i].frame # f
  BY DEF Downstream, FramesOf
<1>3. /\ u' = u \ {f} /\ InPool' \subseteq InPool \cup {f}
      /\ unpooled' \subseteq Frames /\ unpooled' \cap Allocated' = {}
  BY <1>1, <1>2, ReleasedGone
<1>4. /\ buffers \in Seq(Buffer) /\ allocSize \in [Frames -> Nat] /\ dataSize \in [Frames -> Nat]
      /\ given \in [Frames -> Nat] /\ u \in SUBSET Frames
      /\ Keeps(buffers, allocSize, dataSize, given, u)
  BY FramesInUse DEF PacketInv
<1>5. InPool \subseteq Frames
  BY FramesInUse
<1> HIDE DEF u
<1>6. Keeps(buffers, allocSize, dataSize', given', u \ {f})
  BY <1>1, <1>2, <1>4, KeepsGone
<1>7. /\ dataSize' \in [Frames -> Nat] /\ given' \in [Frames -> Nat]
      /\ \A x \in InPool' : dataSize'[x] = 0
  BY <1>1, <1>2, <1>3, <1>4, <1>5 DEF PacketInv
<1> QED
  BY <1>1, <1>3, <1>4, <1>6, <1>7 DEF PacketInv, u

LEMMA PacketPool ==
  ASSUME PoolInv, PacketInv,
         (PoolSteps \/ EndSession) \/ UNCHANGED allVars
  PROVE  PacketInv'
<1>1. /\ out' = out /\ InPool' \subseteq InPool
      /\ UNCHANGED <<allocSize, dataSize, unpooled, buffers, given>>
  <2>1. CASE PoolSteps \/ EndSession
    BY <2>1, PoolTakesNone DEF PoolSteps, EndSession, memory
  <2>2. CASE UNCHANGED allVars
    BY <2>2 DEF allVars, vars, memory, InPool
  <2> QED
    BY <2>1, <2>2
<1>2. unpooled \cap (out \cup InPool) = {}
  BY FramesInUse
<1>3. unpooled' \cap Allocated' = {}
  BY <1>1, <1>2 DEF Allocated, InPool
<1> QED
  BY <1>1, <1>3 DEF PacketInv

LEMMA PacketMerge == PoolInv /\ PacketInv /\ Merge => PacketInv'
<1> SUFFICES ASSUME PoolInv, PacketInv, Merge PROVE PacketInv'
  OBVIOUS
<1> DEFINE f == buffers[1].frame
           h == buffers[2].frame
           n == dataSize[h]
           e == [buffers[1] EXCEPT !.received = @ + buffers[2].received]
           u == out \cup unpooled
<1>1. Len(buffers) = 2 /\ 1 \in 1..Len(buffers) /\ 2 \in 1..Len(buffers)
  BY DEF Merge
<1>2. /\ buffers[1] \in Buffer /\ f \in u /\ f \in Frames /\ dataSize[f] = buffers[1].received
      /\ buffers[1].asked \in Nat /\ buffers[1].received \in Nat /\ allocSize[f] \in Nat
      /\ buffers[1].asked <= allocSize[f] /\ buffers[1].received <= allocSize[f]
      /\ h \in u /\ h \in Frames /\ n = buffers[2].received /\ n \in Nat
  BY <1>1, BufferType
<1>3. f # h
  BY <1>1 DEF PacketInv, Keeps
<1>4. n + Padding \in Nat /\ Padding \in Nat
  BY <1>2, PacketBuffersAssumption
<1>5. /\ RoomFor(f, n + Padding) \in Int /\ RoomFor(f, n + Padding) >= allocSize[f]
      /\ RoomFor(f, n + Padding) >= dataSize[f] + n
  <2>1. /\ RoomFor(f, n + Padding) \in Int /\ RoomFor(f, n + Padding) >= allocSize[f]
        /\ RoomFor(f, n + Padding) >= dataSize[f] + (n + Padding)
    BY <1>2, <1>4, RoomIsEnough
  <2> QED
    BY <2>1, <1>2, <1>4
<1>6. /\ allocSize' = [allocSize EXCEPT ![f] = RoomFor(f, n + Padding)]
      /\ dataSize' = [dataSize EXCEPT ![f] = @ + n, ![h] = 0]
      /\ Released(Owner, h) /\ buffers' = <<e>> /\ given' = given
  BY DEF Merge
<1>7. /\ u' = u \ {h} /\ InPool' \subseteq InPool \cup {h}
      /\ unpooled' \subseteq Frames /\ unpooled' \cap Allocated' = {}
  BY <1>2, <1>6, ReleasedGone DEF Threads
<1>8. /\ allocSize \in [Frames -> Nat] /\ dataSize \in [Frames -> Nat] /\ given \in [Frames -> Nat]
      /\ Keeps(buffers, allocSize, dataSize, given, u)
  BY DEF PacketInv
<1>9. InPool \cap u = {} /\ InPool \subseteq Frames /\ u \subseteq Frames
  BY FramesInUse
<1>10. e \in Buffer /\ e.frame = f /\ e.asked = buffers[1].asked /\ e.received = dataSize[f] + n
  BY <1>2 DEF Buffer
<1>11. /\ f = buffers[1].frame /\ h = buffers[2].frame
       /\ \A i \in 1..Len(buffers) : i = 1 \/ i = 2
  BY <1>1
<1> HIDE DEF f, h, n, e, u
<1>12. /\ allocSize' \in [Frames -> Nat] /\ dataSize' \in [Frames -> Nat]
       /\ \A x \in Frames \ {f, h} : allocSize'[x] = allocSize[x] /\ dataSize'[x] = dataSize[x]
       /\ dataSize'[f] = e.received /\ e.received <= allocSize'[f] /\ e.asked <= allocSize'[f]
       /\ dataSize'[h] = 0
  BY <1>2, <1>3, <1>5, <1>6, <1>8, <1>10
<1>13. buffers' \in Seq(Buffer) /\ Len(buffers') = 1 /\ buffers'[1] = e
  BY <1>6, <1>10
<1>14. ASSUME NEW x \in u', x # f
       PROVE  dataSize'[x] = given[x] /\ dataSize'[x] <= allocSize'[x]
  <2>1. x \in u /\ x # h /\ x \in Frames
    BY <1>7, <1>9, <1>14
  <2>2. \A i \in 1..Len(buffers) : buffers[i].frame # x
    BY <2>1, <1>11, <1>14
  <2>3. dataSize[x] = given[x] /\ dataSize[x] <= allocSize[x]
    BY <2>1, <2>2, <1>8 DEF Keeps
  <2> QED
    BY <2>1, <2>3, <1>12, <1>14
<1>15. f \in u'
  BY <1>2, <1>3, <1>7
<1>16. Keeps(buffers', allocSize', dataSize', given', u')
  <2>1. \A i \in 1..Len(buffers') : i = 1
    BY <1>13
  <2>2. \A i, j \in 1..Len(buffers') : buffers'[i].frame = buffers'[j].frame => i = j
    BY <2>1
  <2>3. \A i \in 1..Len(buffers') :
          /\ buffers'[i].frame \in u' /\ dataSize'[buffers'[i].frame] = buffers'[i].received
          /\ buffers'[i].asked <= allocSize'[buffers'[i].frame]
          /\ buffers'[i].received <= allocSize'[buffers'[i].frame]
    BY <2>1, <1>10, <1>12, <1>13, <1>15
  <2>4. 1 \in 1..Len(buffers') /\ buffers'[1].frame = f
    BY <1>13, <1>10
  <2> QED
    BY <2>2, <2>3, <2>4, <1>6, <1>14 DEF Keeps
<1>17. \A x \in InPool' : dataSize'[x] = 0
  BY <1>2, <1>7, <1>9, <1>12 DEF PacketInv
<1> QED
  BY <1>6, <1>7, <1>8, <1>12, <1>13, <1>16, <1>17 DEF PacketInv, u

LEMMA PacketInvNext == PoolInv /\ PacketInv /\ [PacketNext]_allVars => PacketInv'
<1> SUFFICES ASSUME PoolInv, PacketInv, [PacketNext]_allVars PROVE PacketInv'
  OBVIOUS
<1>1. Chunks \subseteq Nat
  BY PacketBuffersAssumption
<1> QED
  BY <1>1, PacketNew, PacketWrite, PacketShrink, PacketMerge, PacketGive, PacketDrop, PacketUnref,
     PacketPool DEF PacketNext

\* The pool never gives a frame to two users, and each user keeps in it what he put there:
\* for every pool, packets of any size, and any number of threads that release frames.
THEOREM PoolServesPacketsHolds == PacketSpec => []PoolServesPackets
<1>1. PoolInv /\ PacketInv => PoolServesPackets
  <2> SUFFICES ASSUME PoolInv, PacketInv PROVE PoolServesPackets
    OBVIOUS
  <2>1. ListExact
    BY DEF PoolInv, Apart, ListExact
  <2>2. ASSUME NEW i \in 1..Len(buffers)
        PROVE  /\ dataSize[buffers[i].frame] = buffers[i].received
               /\ {buffers[i].asked, buffers[i].received} \subseteq 0..allocSize[buffers[i].frame]
    BY <2>2, BufferType
  <2>3. \A f \in Downstream : dataSize[f] = given[f] /\ dataSize[f] <= allocSize[f]
    BY DEF PacketInv, Keeps, Downstream, FramesOf
  <2> QED
    BY <2>1, <2>2, <2>3 DEF PoolServesPackets, PacketsAreKept
<1>2. PacketInit => PoolInv /\ PacketInv
  BY PoolInit, PacketInitial DEF PacketInit
<1>3. PoolInv /\ PacketInv /\ [PacketNext]_allVars => PoolInv' /\ PacketInv'
  BY PacketStep, PoolNext, PacketInvNext
<1> QED
  BY <1>1, <1>2, <1>3, PTL DEF PacketSpec

-----------------------------------------------------------------------------
(***************************************************************************)
(* The local camera, its server and its client.                            *)
(***************************************************************************)
USE LocalCameraAssumption


ServerPlaces == {"read", "handle", "pixels", "copy", "reply"}
PlaceTypes ==
  /\ cpc \in Request \cup {"idle", "listNew", "new", "delete", "dead"}
  /\ afterDelete \in {"idle", "new"}
  /\ server \in {"none", "running", "clone", "exited"}
  /\ spc \in ServerPlaces
  /\ request \in Request \cup {"none"}
  /\ frameLock \in {"none", "server", "camera"}
FlagTypes ==
  /\ sent \in BOOLEAN /\ serverPid \in BOOLEAN
  /\ grabbing \in BOOLEAN /\ frameUpdated \in BOOLEAN /\ capturing \in BOOLEAN
SharedType == shm \in [of : Request \cup {"none"}, answered : BOOLEAN, success : BOOLEAN, frame : Int]
FrameTypes == frames \in Nat /\ got \in Int /\ frameBuffer \in Int
TypeInv == PlaceTypes /\ FlagTypes /\ SharedType /\ FrameTypes

-----------------------------------------------------------------------------
(***************************************************************************)
(* At most one message is under way, and it is the one of the client's     *)
(* request.                                                                *)
(***************************************************************************)
Quiet       == toServer = << >> /\ toClient = << >> /\ spc = "read"
AtServer(r) == toServer = <<r>> /\ toClient = << >> /\ spc = "read"
InHand(r)   == toServer = << >> /\ toClient = << >> /\ spc # "read" /\ request = r
AtClient(r) == toServer = << >> /\ toClient = <<r>> /\ spc = "read"
UnderWay(r) == AtServer(r) \/ InHand(r) \/ AtClient(r)

MessageInv ==
  /\ Quiet \/ \E r \in Request : UnderWay(r)
  /\ ~Running => spc = "read"
  /\ ~Up => toServer = << >>
  /\ cpc # "dead" /\ ~Quiet => sent /\ cpc \in Request /\ UnderWay(cpc)

\* the shared file is the request's from when it is sent, and its result's before it is answered
ResultInv ==
  /\ sent /\ cpc \in Mapped => shm.of = cpc
  /\ cpc \in Mapped /\ (spc = "reply" \/ toClient # << >>) => shm.answered
  /\ spc \in {"pixels", "copy"} => request = "pixels"
  /\ spc = "handle" => request # "pixels"

\* a frame in the buffer that has not been copied is newer than the one copied last
FrameInv ==
  /\ got <= frames /\ shm.frame <= frames
  /\ capturing => got < frames /\ shm.frame < frames
  /\ Running =>
       /\ (frameLock = "camera") <=> capturing
       /\ frameUpdated /\ frameLock # "camera" =>
            frameBuffer <= frames /\ frameBuffer > got /\ frameBuffer > shm.frame
  /\ spc = "copy" => frameLock = "server" /\ frameUpdated
  /\ cpc = "pixels" /\ (spc = "reply" \/ toClient # << >>) /\ shm.success => shm.frame > got

CameraInv == TypeInv /\ OneServer /\ MessageInv /\ ResultInv /\ FrameInv

-----------------------------------------------------------------------------
(***************************************************************************)
(* The client's steps between its requests leave nothing under way, so     *)
(* that the next request finds the pipes empty and the server waiting.     *)
(***************************************************************************)
LEMMA InitHolds == LocalCameraInit => CameraInv
<1> SUFFICES ASSUME LocalCameraInit PROVE CameraInv
  OBVIOUS
<1>1. TypeInv
  <2>1. PlaceTypes /\ FlagTypes
    BY DEF LocalCameraInit, PlaceTypes, FlagTypes, ServerPlaces
  <2>2. SharedType /\ FrameTypes
    BY DEF LocalCameraInit, SharedType, FrameTypes, NoFrame
  <2> QED
    BY <2>1, <2>2 DEF TypeInv
<1>2. OneServer /\ MessageInv /\ ResultInv
  BY DEF LocalCameraInit, OneServer, Running, Up, MessageInv, Quiet, ResultInv, Request, Mapped
<1>3. FrameInv
  BY DEF LocalCameraInit, FrameInv, Running, Up, NoFrame
<1> QED
  BY <1>1, <1>2, <1>3 DEF CameraInv

LEMMA RequestsAreCalls ==
  /\ Mapped \subseteq Request /\ {"verbose", "list", "setup", "width", "height", "pixels", "stop"} \subseteq Request
  /\ {"listTest", "listOnly", "test"} \subseteq Request
  /\ {"idle", "listNew", "new", "delete", "dead"} \cap Request = {}
BY DEF Request, Mapped

\* A client that makes no request, or whose request has ended, finds nothing under way.
LEMMA NoRequestIsQuiet ==
  ASSUME CameraInv, cpc \in {"idle", "listNew", "new", "delete"} PROVE Quiet
BY RequestsAreCalls DEF CameraInv, MessageInv

LEMMA EndIsQuiet ==
  ASSUME CameraInv, NEW r \in Request, NEW ok \in BOOLEAN, Ends(r, ok)
  PROVE  /\ toServer' = << >> /\ toClient' = << >> /\ spc = "read"
         /\ cpc = r /\ (ok => sent /\ toClient # << >>)
<1>1. cpc = r /\ cpc # "dead"
  BY RequestsAreCalls DEF Ends
<1>2. CASE ok
  <2>1. sent /\ toClient # << >> /\ toClient' = Tail(toClient) /\ UNCHANGED toServer
    BY <1>2 DEF Ends, Answered
  <2>2. AtClient(cpc)
    BY <1>1, <2>1 DEF CameraInv, MessageInv, Quiet, UnderWay, AtServer, InHand, AtClient
  <2> QED
    BY <1>1, <2>1, <2>2 DEF AtClient
<1>3. CASE ~ok
  BY <1>1, <1>3 DEF Ends, Fails, CameraInv, MessageInv, Running, Up, pipes
<1> QED
  BY <1>2, <1>3

\* The client goes on without a message under way, and the server is as it was.
LEMMA ClientGoesOn ==
  ASSUME CameraInv,
         toServer' = << >>, toClient' = << >>, spc = "read",
         sent' = FALSE,
         cpc' \in Request \cup {"idle", "listNew", "new", "delete"},
         cpc # "dead",
         afterDelete' \in {"idle", "new"},
         serverPid' = serverPid,
         got' = got \/ (got' = shm.frame /\ shm.frame > got /\ cpc' = "idle"),
         UNCHANGED <<shm, place, device, camera>>
  PROVE  CameraInv'
<1>1. TypeInv'
  <2>1. PlaceTypes'
    BY DEF CameraInv, TypeInv, PlaceTypes, ServerPlaces, place, device, camera
  <2>2. FlagTypes'
    BY DEF CameraInv, TypeInv, FlagTypes, place, device, camera
  <2>3. SharedType'
    BY DEF CameraInv, TypeInv, SharedType, place, device, camera
  <2>4. FrameTypes'
    BY DEF CameraInv, TypeInv, FrameTypes, SharedType, place, device, camera
  <2> QED
    BY <2>1, <2>2, <2>3, <2>4 DEF TypeInv
<1>2. OneServer'
  BY DEF CameraInv, OneServer, Running, Up, place
<1>3. MessageInv'
  BY DEF CameraInv, MessageInv, Quiet, Running, Up, place
<1>4. ResultInv'
  BY DEF CameraInv, ResultInv, place
<1>5. FrameInv'
  BY DEF CameraInv, TypeInv, FrameInv, Running, Up, place, device, camera
<1> QED
  BY <1>1, <1>2, <1>3, <1>4, <1>5 DEF CameraInv

LEMMA ServerStarts ==
  ASSUME CameraInv, StartServer, sent' = FALSE,
         cpc' \in Request, afterDelete' \in {"idle", "new"},
         got' = got, frames' = frames
  PROVE  CameraInv'
<1>1. TypeInv'
  <2>1. PlaceTypes'
    BY DEF CameraInv, TypeInv, PlaceTypes, ServerPlaces, StartServer, NoFrame
  <2>2. FlagTypes'
    BY DEF CameraInv, TypeInv, FlagTypes, StartServer, NoFrame
  <2>3. SharedType'
    BY DEF CameraInv, TypeInv, SharedType, StartServer, NoFrame
  <2>4. FrameTypes'
    BY DEF CameraInv, TypeInv, FrameTypes, StartServer, NoFrame
  <2> QED
    BY <2>1, <2>2, <2>3, <2>4 DEF TypeInv
<1>2. OneServer' /\ MessageInv' /\ ResultInv'
  BY DEF OneServer, MessageInv, ResultInv, Quiet, Running, Up, StartServer
<1>3. FrameInv'
  BY DEF CameraInv, TypeInv, FrameTypes, FrameInv, Running, Up, StartServer, NoFrame
<1> QED
  BY <1>1, <1>2, <1>3 DEF CameraInv

\* Calls that begin.
LEMMA CallKeeps ==
  ASSUME CameraInv, StreamOpen \/ StreamRead \/ StreamClose PROVE CameraInv'
<1>1. Quiet /\ cpc # "dead"
  BY NoRequestIsQuiet DEF StreamOpen, StreamRead, StreamClose
<1>2. /\ sent' = FALSE /\ cpc' \in Request \cup {"listNew"}
      /\ UNCHANGED <<afterDelete, serverPid, got, pipes, shm, place, device, camera>>
  BY RequestsAreCalls DEF StreamOpen, StreamRead, StreamClose, Goto, noServer, camera
<1> QED
  BY <1>1, <1>2, ClientGoesOn DEF CameraInv, TypeInv, PlaceTypes, Quiet, pipes

\* Requests that are over, one way or the other.
LEMMA AnswerKeeps ==
  ASSUME CameraInv,
         SetVerbose \/ ListDevices \/ ListTest \/ ListOnly \/ Test \/ Setup \/ Size \/ NoPixels \/ Stop
  PROVE  CameraInv'
<1>1. \E r \in Request, ok \in BOOLEAN : Ends(r, ok)
  BY RequestsAreCalls DEF SetVerbose, ListDevices, ListTest, ListOnly, Test, Setup, Size,
     NoPixels, Stop
<1>2. toServer' = << >> /\ toClient' = << >> /\ spc = "read" /\ cpc # "dead"
  BY <1>1, EndIsQuiet, RequestsAreCalls
<1>3. /\ sent' = FALSE /\ cpc' \in Request \cup {"idle", "new", "delete"}
      /\ UNCHANGED <<serverPid, got, shm, place, device, camera>>
  BY RequestsAreCalls
     DEF SetVerbose, ListDevices, ListTest, ListOnly, Test, Setup, Size, NoPixels, Stop, Goto
<1>4. afterDelete' \in {"idle", "new"}
  BY DEF CameraInv, TypeInv, PlaceTypes, SetVerbose, ListDevices, ListTest, ListOnly, Test,
     Setup, Size, NoPixels, Stop
<1> QED
  BY <1>2, <1>3, <1>4, ClientGoesOn

\* The frame returned is the one in the answer, which is newer than the one before.
LEMMA PixelsKeep ==
  ASSUME CameraInv, GotPixels PROVE CameraInv' /\ (got' # got => got' > got)
<1>1. /\ toServer' = << >> /\ toClient' = << >> /\ spc = "read"
      /\ cpc = "pixels" /\ toClient # << >>
  BY EndIsQuiet, RequestsAreCalls DEF GotPixels
<1>2. shm.frame > got
  BY <1>1 DEF CameraInv, FrameInv, GotPixels
<1>3. /\ sent' = FALSE /\ cpc' \in Request \cup {"idle"}
      /\ got' = got \/ (got' = shm.frame /\ cpc' = "idle")
      /\ UNCHANGED <<afterDelete, serverPid, shm, place, device, camera>>
  BY RequestsAreCalls DEF GotPixels, Goto
<1>4. CameraInv'
  BY <1>1, <1>2, <1>3, ClientGoesOn DEF CameraInv, TypeInv, PlaceTypes
<1> QED
  BY <1>2, <1>3, <1>4

LEMMA SendKeeps ==
  ASSUME CameraInv, Send PROVE CameraInv'
<1>1. Quiet /\ cpc \in Request /\ cpc # "dead" /\ Up
  BY RequestsAreCalls DEF CameraInv, MessageInv, Send, Running, Up
<1>2. /\ sent' = TRUE /\ toServer' = <<cpc>> /\ toClient' = << >> /\ spc = "read" /\ cpc' = cpc
      /\ UNCHANGED <<afterDelete, serverPid, got, place, device, camera>>
  BY <1>1 DEF Send, Quiet
<1>3. /\ shm' \in [of : Request \cup {"none"}, answered : BOOLEAN, success : BOOLEAN, frame : Int]
      /\ shm'.frame = shm.frame /\ (cpc \in Mapped => shm'.of = cpc)
  BY <1>1 DEF Send, CameraInv, TypeInv, SharedType
<1>4. TypeInv'
  <2>1. PlaceTypes'
    BY <1>1, <1>2, <1>3 DEF CameraInv, TypeInv, PlaceTypes, ServerPlaces, place, device, camera
  <2>2. FlagTypes'
    BY <1>1, <1>2, <1>3 DEF CameraInv, TypeInv, FlagTypes, place, device, camera
  <2>3. SharedType'
    BY <1>1, <1>2, <1>3 DEF CameraInv, TypeInv, SharedType, place, device, camera
  <2>4. FrameTypes'
    BY <1>1, <1>2, <1>3 DEF CameraInv, TypeInv, FrameTypes, place, device, camera
  <2> QED
    BY <2>1, <2>2, <2>3, <2>4 DEF TypeInv
<1>5. OneServer'
  BY <1>2 DEF CameraInv, OneServer, Running, Up, place
<1>6. MessageInv'
  BY <1>1, <1>2 DEF MessageInv, UnderWay, AtServer, Running, Up, place
<1>7. ResultInv'
  BY <1>1, <1>2, <1>3 DEF ResultInv, place
<1>8. FrameInv'
  BY <1>2, <1>3 DEF CameraInv, FrameInv, Running, Up, place, device, camera
<1> QED
  BY <1>4, <1>5, <1>6, <1>7, <1>8 DEF CameraInv

LEMMA StartKeeps ==
  ASSUME CameraInv, ListNew \/ New PROVE CameraInv'
<1>1. Quiet /\ cpc # "dead" /\ sent' = FALSE /\ frames' = frames /\ got' = got
  BY NoRequestIsQuiet DEF ListNew, New, Goto
<1>2. afterDelete' \in {"idle", "new"}
  BY DEF CameraInv, TypeInv, PlaceTypes, ListNew, New
<1>3. CASE StartServer /\ (Goto("listTest") \/ Goto("test"))
  BY <1>1, <1>2, <1>3, ServerStarts, RequestsAreCalls DEF Goto
<1>4. CASE UNCHANGED noServer /\ (Goto("delete") \/ Goto("idle"))
  BY <1>1, <1>2, <1>4, ClientGoesOn DEF Goto, noServer, Quiet, pipes, camera
<1> QED
  BY <1>3, <1>4 DEF ListNew, New

LEMMA DeleteKeeps ==
  ASSUME CameraInv, DeleteClosesPipe \/ DeleteWaits PROVE CameraInv'
<1>1. Quiet /\ cpc = "delete"
  BY NoRequestIsQuiet DEF DeleteClosesPipe, DeleteWaits
<1>2. CASE DeleteClosesPipe
  <2>1. UNCHANGED <<cpc, sent, afterDelete, serverPid, got, pipes, shm, place, device, camera>>
    BY <1>2 DEF DeleteClosesPipe
  <2>2. TypeInv'
    BY <2>1 DEF CameraInv, TypeInv, PlaceTypes, FlagTypes, SharedType, FrameTypes, pipes, place,
       device, camera
  <2>3. OneServer' /\ MessageInv' /\ ResultInv'
    BY <2>1 DEF CameraInv, OneServer, MessageInv, ResultInv, Quiet, UnderWay, AtServer, InHand,
       AtClient,
                Running, Up, pipes, place, device, camera
  <2>4. FrameInv'
    BY <2>1 DEF CameraInv, FrameInv, Running, Up, pipes, place, device, camera
  <2> QED
    BY <2>2, <2>3, <2>4 DEF CameraInv
<1>3. CASE DeleteWaits
  <2>1. /\ sent' = FALSE /\ cpc' \in {"idle", "new"} /\ server' = "none" /\ toServer' = << >> /\ toClient' = << >>
        /\ spc = "read" /\ serverPid' = FALSE
        /\ UNCHANGED <<afterDelete, got, shm, spc, attempts, request, device, camera>>
    BY <1>1, <1>3 DEF CameraInv, TypeInv, PlaceTypes, DeleteWaits, Goto, Quiet
  <2>2. TypeInv'
    <3>1. PlaceTypes'
      BY <2>1 DEF CameraInv, TypeInv, PlaceTypes, ServerPlaces, device, camera
    <3>2. FlagTypes'
      BY <2>1 DEF CameraInv, TypeInv, FlagTypes, device, camera
    <3>3. SharedType'
      BY <2>1 DEF CameraInv, TypeInv, SharedType, device, camera
    <3>4. FrameTypes'
      BY <2>1 DEF CameraInv, TypeInv, FrameTypes, device, camera
    <3> QED
      BY <3>1, <3>2, <3>3, <3>4 DEF TypeInv
  <2>3. OneServer' /\ MessageInv' /\ ResultInv'
    BY <2>1, RequestsAreCalls DEF OneServer, MessageInv, ResultInv, Quiet, Running, Up
  <2>4. FrameInv'
    BY <2>1 DEF CameraInv, FrameInv, Running, Up, device, camera
  <2> QED
    BY <2>2, <2>3, <2>4 DEF CameraInv
<1> QED
  BY <1>2, <1>3

LEMMA DeathKeeps ==
  ASSUME CameraInv, ClientDies PROVE CameraInv'
<1>1. /\ cpc' = "dead"
      /\ UNCHANGED <<sent, afterDelete, serverPid, got, pipes, shm, place, device, camera>>
  BY DEF ClientDies
<1>2. TypeInv'
  <2>1. PlaceTypes'
    BY <1>1 DEF CameraInv, TypeInv, PlaceTypes, ServerPlaces, pipes, place, device, camera
  <2>2. FlagTypes'
    BY <1>1 DEF CameraInv, TypeInv, FlagTypes, pipes, place, device, camera
  <2>3. SharedType'
    BY <1>1 DEF CameraInv, TypeInv, SharedType, pipes, place, device, camera
  <2>4. FrameTypes'
    BY <1>1 DEF CameraInv, TypeInv, FrameTypes, pipes, place, device, camera
  <2> QED
    BY <2>1, <2>2, <2>3, <2>4 DEF TypeInv
<1>3. OneServer' /\ MessageInv' /\ ResultInv'
  BY <1>1, RequestsAreCalls
     DEF CameraInv, OneServer, MessageInv, ResultInv, Quiet, UnderWay, AtServer, InHand,
     AtClient, Running, Up, pipes, place
<1>4. FrameInv'
  BY <1>1 DEF CameraInv, FrameInv, Running, Up, pipes, place, device, camera
<1> QED
  BY <1>2, <1>3, <1>4 DEF CameraInv

-----------------------------------------------------------------------------
(***************************************************************************)
(* The server and the callback.                                            *)
(***************************************************************************)
LEMMA ReadRequestKeeps ==
  ASSUME CameraInv, ReadRequest PROVE CameraInv'
<1> USE DEF ReadRequest, Running, Up, noClient, client, pipes, place, device, camera
<1>0. /\ request' \in Request /\ toServer = <<request'>> /\ toServer' = << >> /\ toClient = << >>
      /\ spc' # "read" /\ (cpc # "dead" => sent /\ request' = cpc)
  <2>1. PICK r \in Request : AtServer(r)
    BY DEF CameraInv, MessageInv, Quiet, UnderWay, AtServer, InHand, AtClient
  <2>2. toServer = <<r>> /\ request' = r /\ toServer' = << >>
    BY <2>1 DEF AtServer
  <2>3. cpc # "dead" => sent /\ AtServer(cpc)
    BY <2>2 DEF CameraInv, MessageInv, Quiet, UnderWay, AtServer, InHand, AtClient
  <2> QED
    BY <2>1, <2>2, <2>3 DEF AtServer
<1>1. TypeInv'
  <2>1. PlaceTypes'
    BY <1>0 DEF CameraInv, TypeInv, PlaceTypes, ServerPlaces
  <2>2. FlagTypes'
    BY DEF CameraInv, TypeInv, FlagTypes
  <2>3. SharedType'
    BY DEF CameraInv, TypeInv, SharedType
  <2>4. FrameTypes'
    BY DEF CameraInv, TypeInv, FrameTypes
  <2> QED
    BY <2>1, <2>2, <2>3, <2>4 DEF TypeInv
<1>2. OneServer'
  BY DEF CameraInv, OneServer
<1>3. MessageInv'
  BY <1>0 DEF CameraInv, MessageInv, Quiet, UnderWay, InHand
<1>4. ResultInv'
  BY DEF CameraInv, TypeInv, MessageInv, ResultInv, Quiet, UnderWay, AtServer, InHand, AtClient
<1>5. FrameInv'
  BY DEF CameraInv, TypeInv, MessageInv, ResultInv, FrameInv, Quiet, UnderWay, AtServer, InHand,
     AtClient
<1> QED
  BY <1>1, <1>2, <1>3, <1>4, <1>5 DEF CameraInv

LEMMA HandleKeeps ==
  ASSUME CameraInv, Handle PROVE CameraInv'
<1> USE DEF Handle, Running, Up, noClient, client, pipes, place, device, camera
<1>1. TypeInv'
  <2>1. PlaceTypes'
    BY DEF CameraInv, TypeInv, PlaceTypes, ServerPlaces
  <2>2. FlagTypes'
    BY DEF CameraInv, TypeInv, FlagTypes
  <2>3. SharedType'
    BY DEF CameraInv, TypeInv, SharedType
  <2>4. FrameTypes'
    BY DEF CameraInv, TypeInv, FrameTypes
  <2> QED
    BY <2>1, <2>2, <2>3, <2>4 DEF TypeInv
<1>2. OneServer'
  BY DEF CameraInv, OneServer
<1>3. MessageInv'
  BY DEF CameraInv, TypeInv, MessageInv, Quiet, UnderWay, AtServer, InHand, AtClient
<1>4. ResultInv'
  <2>1. cpc \in Mapped => request = cpc /\ toClient = << >>
    BY RequestsAreCalls DEF CameraInv, MessageInv, Quiet, UnderWay, AtServer, InHand, AtClient
  <2>2. /\ shm'.of = shm.of /\ (request \in Mapped => shm'.answered)
        /\ UNCHANGED <<sent, cpc, toClient, request>> /\ spc' = "reply"
    BY DEF CameraInv, TypeInv, SharedType
  <2> QED
    BY <2>1, <2>2 DEF CameraInv, ResultInv
<1>5. FrameInv'
  BY DEF CameraInv, TypeInv, MessageInv, ResultInv, FrameInv, Quiet, UnderWay, AtServer, InHand,
     AtClient
<1> QED
  BY <1>1, <1>2, <1>3, <1>4, <1>5 DEF CameraInv

LEMMA BeginCopyKeeps ==
  ASSUME CameraInv, BeginCopy PROVE CameraInv'
<1> USE DEF BeginCopy, Running, Up, noClient, client, pipes, place, device, camera
<1>1. TypeInv'
  <2>1. PlaceTypes'
    BY DEF CameraInv, TypeInv, PlaceTypes, ServerPlaces
  <2>2. FlagTypes'
    BY DEF CameraInv, TypeInv, FlagTypes
  <2>3. SharedType'
    BY DEF CameraInv, TypeInv, SharedType
  <2>4. FrameTypes'
    BY DEF CameraInv, TypeInv, FrameTypes
  <2> QED
    BY <2>1, <2>2, <2>3, <2>4 DEF TypeInv
<1>2. OneServer'
  BY DEF CameraInv, OneServer
<1>3. MessageInv'
  BY DEF CameraInv, TypeInv, MessageInv, Quiet, UnderWay, AtServer, InHand, AtClient
<1>4. ResultInv'
  BY DEF CameraInv, TypeInv, MessageInv, ResultInv, Quiet, UnderWay, AtServer, InHand, AtClient
<1>5. FrameInv'
  BY DEF CameraInv, TypeInv, MessageInv, ResultInv, FrameInv, Quiet, UnderWay, AtServer, InHand,
     AtClient
<1> QED
  BY <1>1, <1>2, <1>3, <1>4, <1>5 DEF CameraInv

LEMMA EndCopyKeeps ==
  ASSUME CameraInv, EndCopy PROVE CameraInv'
<1> USE DEF EndCopy, Running, Up, noClient, client, pipes, place, device, camera
<1>1. TypeInv'
  <2>1. PlaceTypes'
    BY DEF CameraInv, TypeInv, PlaceTypes, ServerPlaces
  <2>2. FlagTypes'
    BY DEF CameraInv, TypeInv, FlagTypes
  <2>3. SharedType'
    BY DEF CameraInv, TypeInv, SharedType, FrameTypes
  <2>4. FrameTypes'
    BY DEF CameraInv, TypeInv, FrameTypes
  <2> QED
    BY <2>1, <2>2, <2>3, <2>4 DEF TypeInv
<1>2. OneServer'
  BY DEF CameraInv, OneServer
<1>3. MessageInv'
  BY DEF CameraInv, TypeInv, MessageInv, Quiet, UnderWay, AtServer, InHand, AtClient
<1>4. ResultInv'
  BY DEF CameraInv, TypeInv, MessageInv, ResultInv, Quiet, UnderWay, AtServer, InHand, AtClient
<1>5. FrameInv'
  BY DEF CameraInv, TypeInv, MessageInv, ResultInv, FrameInv, Quiet, UnderWay, AtServer, InHand,
     AtClient
<1> QED
  BY <1>1, <1>2, <1>3, <1>4, <1>5 DEF CameraInv

LEMMA NoFrameYetKeeps ==
  ASSUME CameraInv, NoFrameYet PROVE CameraInv'
<1> USE DEF NoFrameYet, Running, Up, noClient, client, pipes, place, device, camera
<1>1. TypeInv'
  <2>1. PlaceTypes'
    BY DEF CameraInv, TypeInv, PlaceTypes, ServerPlaces
  <2>2. FlagTypes'
    BY DEF CameraInv, TypeInv, FlagTypes
  <2>3. SharedType'
    BY DEF CameraInv, TypeInv, SharedType
  <2>4. FrameTypes'
    BY DEF CameraInv, TypeInv, FrameTypes
  <2> QED
    BY <2>1, <2>2, <2>3, <2>4 DEF TypeInv
<1>2. OneServer'
  BY DEF CameraInv, OneServer
<1>3. MessageInv'
  BY DEF CameraInv, TypeInv, MessageInv, Quiet, UnderWay, AtServer, InHand, AtClient
<1>4. ResultInv'
  BY DEF CameraInv, TypeInv, MessageInv, ResultInv, Quiet, UnderWay, AtServer, InHand, AtClient
<1>5. FrameInv'
  BY DEF CameraInv, TypeInv, MessageInv, ResultInv, FrameInv, Quiet, UnderWay, AtServer, InHand,
     AtClient
<1> QED
  BY <1>1, <1>2, <1>3, <1>4, <1>5 DEF CameraInv

LEMMA GiveUpKeeps ==
  ASSUME CameraInv, GiveUp PROVE CameraInv'
<1> USE DEF GiveUp, Running, Up, noClient, client, pipes, place, device, camera
<1>1. TypeInv'
  <2>1. PlaceTypes'
    BY DEF CameraInv, TypeInv, PlaceTypes, ServerPlaces
  <2>2. FlagTypes'
    BY DEF CameraInv, TypeInv, FlagTypes
  <2>3. SharedType'
    BY DEF CameraInv, TypeInv, SharedType
  <2>4. FrameTypes'
    BY DEF CameraInv, TypeInv, FrameTypes
  <2> QED
    BY <2>1, <2>2, <2>3, <2>4 DEF TypeInv
<1>2. OneServer'
  BY DEF CameraInv, OneServer
<1>3. MessageInv'
  BY DEF CameraInv, TypeInv, MessageInv, Quiet, UnderWay, AtServer, InHand, AtClient
<1>4. ResultInv'
  BY DEF CameraInv, TypeInv, MessageInv, ResultInv, Quiet, UnderWay, AtServer, InHand, AtClient
<1>5. FrameInv'
  BY DEF CameraInv, TypeInv, MessageInv, ResultInv, FrameInv, Quiet, UnderWay, AtServer, InHand,
     AtClient
<1> QED
  BY <1>1, <1>2, <1>3, <1>4, <1>5 DEF CameraInv

LEMMA ReplyKeeps ==
  ASSUME CameraInv, Reply PROVE CameraInv'
<1> USE DEF Reply, Running, Up, noClient, client, pipes, place, device, camera
<1>1. TypeInv'
  <2>1. PlaceTypes'
    BY DEF CameraInv, TypeInv, PlaceTypes, ServerPlaces
  <2>2. FlagTypes'
    BY DEF CameraInv, TypeInv, FlagTypes
  <2>3. SharedType'
    BY DEF CameraInv, TypeInv, SharedType
  <2>4. FrameTypes'
    BY DEF CameraInv, TypeInv, FrameTypes
  <2> QED
    BY <2>1, <2>2, <2>3, <2>4 DEF TypeInv
<1>2. OneServer'
  BY DEF CameraInv, OneServer
<1>3. MessageInv'
  <2>1. InHand(request) /\ request \in Request /\ (cpc # "dead" => sent /\ cpc \in Request /\ request = cpc)
    BY DEF CameraInv, MessageInv, Quiet, UnderWay, AtServer, InHand, AtClient
  <2>2. toServer' = << >> /\ toClient' = <<request>> /\ spc' = "read" /\ UNCHANGED <<cpc, sent>>
    BY <2>1 DEF InHand
  <2>3. AtClient(request)'
    BY <2>2 DEF AtClient
  <2> QED
    BY <2>1, <2>2, <2>3 DEF MessageInv, UnderWay, AtClient
<1>4. ResultInv'
  BY DEF CameraInv, TypeInv, MessageInv, ResultInv, Quiet, UnderWay, AtServer, InHand, AtClient
<1>5. FrameInv'
  BY DEF CameraInv, TypeInv, MessageInv, ResultInv, FrameInv, Quiet, UnderWay, AtServer, InHand,
     AtClient
<1> QED
  BY <1>1, <1>2, <1>3, <1>4, <1>5 DEF CameraInv

LEMMA ServerGoneKeeps ==
  ASSUME CameraInv, ServerGone PROVE CameraInv'
<1> USE DEF ServerGone, Running, Up, noClient, client, pipes, place, device, camera
<1>1. TypeInv'
  <2>1. PlaceTypes'
    BY DEF CameraInv, TypeInv, PlaceTypes, ServerPlaces
  <2>2. FlagTypes'
    BY DEF CameraInv, TypeInv, FlagTypes
  <2>3. SharedType'
    BY DEF CameraInv, TypeInv, SharedType
  <2>4. FrameTypes'
    BY DEF CameraInv, TypeInv, FrameTypes
  <2> QED
    BY <2>1, <2>2, <2>3, <2>4 DEF TypeInv
<1>2. OneServer'
  BY DEF CameraInv, OneServer
<1>3. MessageInv'
  BY DEF CameraInv, TypeInv, MessageInv, Quiet, UnderWay, AtServer, InHand, AtClient
<1>4. ResultInv'
  BY DEF CameraInv, TypeInv, MessageInv, ResultInv, Quiet, UnderWay, AtServer, InHand, AtClient
<1>5. FrameInv'
  BY DEF CameraInv, TypeInv, MessageInv, ResultInv, FrameInv, Quiet, UnderWay, AtServer, InHand,
     AtClient
<1> QED
  BY <1>1, <1>2, <1>3, <1>4, <1>5 DEF CameraInv

LEMMA BeginCaptureKeeps ==
  ASSUME CameraInv, BeginCapture PROVE CameraInv'
<1> USE DEF BeginCapture, Torn, Running, Up, noClient, client, pipes, place, device, camera
<1>1. TypeInv'
  <2>1. PlaceTypes'
    BY DEF CameraInv, TypeInv, PlaceTypes, ServerPlaces
  <2>2. FlagTypes'
    BY DEF CameraInv, TypeInv, FlagTypes
  <2>3. SharedType'
    BY DEF CameraInv, TypeInv, SharedType
  <2>4. FrameTypes'
    BY DEF CameraInv, TypeInv, FrameTypes
  <2> QED
    BY <2>1, <2>2, <2>3, <2>4 DEF TypeInv
<1>2. OneServer'
  BY DEF CameraInv, OneServer
<1>3. MessageInv'
  BY DEF CameraInv, TypeInv, MessageInv, Quiet, UnderWay, AtServer, InHand, AtClient
<1>4. ResultInv'
  BY DEF CameraInv, TypeInv, MessageInv, ResultInv, Quiet, UnderWay, AtServer, InHand, AtClient
<1>5. FrameInv'
  BY DEF CameraInv, TypeInv, SharedType, FrameTypes, FrameInv
<1> QED
  BY <1>1, <1>2, <1>3, <1>4, <1>5 DEF CameraInv

LEMMA EndCaptureKeeps ==
  ASSUME CameraInv, EndCapture PROVE CameraInv'
<1> USE DEF EndCapture, Running, Up, noClient, client, pipes, place, device, camera
<1>1. TypeInv'
  <2>1. PlaceTypes'
    BY DEF CameraInv, TypeInv, PlaceTypes, ServerPlaces
  <2>2. FlagTypes'
    BY DEF CameraInv, TypeInv, FlagTypes
  <2>3. SharedType'
    BY DEF CameraInv, TypeInv, SharedType
  <2>4. FrameTypes'
    BY DEF CameraInv, TypeInv, FrameTypes
  <2> QED
    BY <2>1, <2>2, <2>3, <2>4 DEF TypeInv
<1>2. OneServer'
  BY DEF CameraInv, OneServer
<1>3. MessageInv'
  BY DEF CameraInv, TypeInv, MessageInv, Quiet, UnderWay, AtServer, InHand, AtClient
<1>4. ResultInv'
  BY DEF CameraInv, TypeInv, MessageInv, ResultInv, Quiet, UnderWay, AtServer, InHand, AtClient
<1>5. FrameInv'
  BY DEF CameraInv, TypeInv, SharedType, FrameTypes, FrameInv
<1> QED
  BY <1>1, <1>2, <1>3, <1>4, <1>5 DEF CameraInv

LEMMA StutterKeeps ==
  ASSUME CameraInv, UNCHANGED localCameraVars PROVE CameraInv'
<1> USE DEF localCameraVars, client, pipes, place, device, camera
<1>1. TypeInv'
  <2>1. PlaceTypes'
    BY DEF CameraInv, TypeInv, PlaceTypes, ServerPlaces
  <2>2. FlagTypes'
    BY DEF CameraInv, TypeInv, FlagTypes
  <2>3. SharedType'
    BY DEF CameraInv, TypeInv, SharedType
  <2>4. FrameTypes'
    BY DEF CameraInv, TypeInv, FrameTypes
  <2> QED
    BY <2>1, <2>2, <2>3, <2>4 DEF TypeInv
<1>2. OneServer' /\ MessageInv' /\ ResultInv'
  BY DEF CameraInv, OneServer, MessageInv, ResultInv, Quiet, UnderWay, AtServer, InHand,
     AtClient, Running, Up
<1>3. FrameInv'
  BY DEF CameraInv, FrameInv, Running, Up
<1> QED
  BY <1>1, <1>2, <1>3 DEF CameraInv

-----------------------------------------------------------------------------
(***************************************************************************)
(* The theorems.                                                           *)
(***************************************************************************)
\* The strengthened invariant is inductive.
THEOREM CameraInvHolds == LocalCameraSpec => []CameraInv
<1>1. CameraInv /\ [LocalCameraNext]_localCameraVars => CameraInv'
  BY CallKeeps, AnswerKeeps, PixelsKeep, SendKeeps, StartKeeps, DeleteKeeps, DeathKeeps,
     ReadRequestKeeps,
     HandleKeeps, BeginCopyKeeps, EndCopyKeeps, NoFrameYetKeeps, GiveUpKeeps, ReplyKeeps,
     ServerGoneKeeps,
     BeginCaptureKeeps, EndCaptureKeeps, StutterKeeps
     DEF LocalCameraNext, Client, Server, ClientGone, ServerDies
<1> QED
  BY <1>1, InitHolds, PTL DEF LocalCameraSpec

\* The server that runs is the one the library knows, and the answer that the client finds is
\* that of its request, with the results in the shared file, wherever either process dies and
\* is started again.
THEOREM OneServerAnswersHolds == LocalCameraSpec => []OneServerAnswers
<1>1. ASSUME CameraInv PROVE OwnAnswer
  <2>1. CASE Quiet
    BY <1>1, <2>1 DEF OwnAnswer, Quiet
  <2>2. CASE ~Quiet
    <3>1. PICK r \in Request : UnderWay(r)
      BY <1>1, <2>2 DEF CameraInv, MessageInv
    <3>2. Len(toServer) + Len(toClient) + (IF spc = "read" THEN 0 ELSE 1) <= 1
      <4>1. CASE AtServer(r)
        BY <4>1 DEF AtServer
      <4>2. CASE InHand(r)
        BY <4>2 DEF InHand
      <4>3. CASE AtClient(r)
        BY <4>3 DEF AtClient
      <4> QED
        BY <3>1, <4>1, <4>2, <4>3 DEF UnderWay
    <3>3. ASSUME toClient # << >>, cpc \in Request
          PROVE  /\ sent /\ Head(toClient) = cpc
                 /\ cpc \in Mapped => shm.of = cpc /\ shm.answered
      <4>1. sent /\ UnderWay(cpc)
        BY <1>1, <2>2, <3>3, RequestsAreCalls DEF CameraInv, MessageInv
      <4>2. Head(toClient) = cpc
        BY <3>3, <4>1 DEF UnderWay, AtServer, InHand, AtClient
      <4> QED
        BY <1>1, <3>3, <4>1, <4>2 DEF CameraInv, ResultInv
    <3> QED
      BY <3>2, <3>3 DEF OwnAnswer
  <2> QED
    BY <2>1, <2>2
<1>2. CameraInv => OneServerAnswers
  BY <1>1 DEF OneServerAnswers, CameraInv
<1> QED
  BY <1>2, CameraInvHolds, PTL

\* No frame is returned torn or a second time, although the callback and the server share the
\* buffer under a lock that both only try, and whatever is left of one server's frames when the
\* next one starts.
THEOREM FramesAreFreshHolds == LocalCameraSpec => FramesAreFresh
<1>1. CameraInv /\ [LocalCameraNext]_localCameraVars => [got' # got => got' > got]_localCameraVars
  <2> SUFFICES ASSUME CameraInv, LocalCameraNext, got' # got PROVE got' > got
    BY DEF localCameraVars
  <2>1. CASE GotPixels
    BY <2>1, PixelsKeep
  <2>2. CASE ~GotPixels
    BY <2>2 DEF LocalCameraNext, Client, Server, StreamOpen, StreamRead, StreamClose, Send, SetVerbose,
       ListDevices, ListNew,
                ListTest, ListOnly, New, Test, Setup, Size, NoPixels, Stop, DeleteClosesPipe,
                DeleteWaits,
                ClientDies, ReadRequest, Handle, BeginCopy, EndCopy, NoFrameYet, GiveUp, Reply,
                ClientGone,
                ServerDies, ServerGone, BeginCapture, EndCapture, noClient, client
  <2> QED
    BY <2>1, <2>2
<1> QED
  BY <1>1, CameraInvHolds, PTL DEF LocalCameraSpec, FramesAreFresh
=============================================================================
