--------------------------- MODULE FrameAllocator ---------------------------
(***************************************************************************)
(* The pool of frames of one graph element (src/svcore/frame_allocator.cpp *)
(* with alloc_basic_frame2 of frame_basic.cpp).  The element's thread, the *)
(* owner, takes frames from the pool and at last destroys the allocator;   *)
(* the threads downstream release frames, which returns them to the pool.  *)
(* The allocator outlives the element until its last frame is back.        *)
(*                                                                         *)
(* frame_allocator_register_frame changes allocListCount without the mutex *)
(* the other functions hold, so the accesses to it that can meet are split *)
(* into a load and a store.                                                *)
(***************************************************************************)
EXTENDS Integers, Sequences, FiniteSets

CONSTANTS
  Owner,        \* the thread of the element
  Releasers,    \* threads downstream that release frames
  NoThread,     \* "the mutex is free"
  Frames,       \* the frame objects malloc can return
  DesiredCount, \* desiredCount, 5 in the code
  MaxDrift      \* bound: no allocation once allocListCount is off by more

Threads == {Owner} \cup Releasers

ASSUME ThreadsAssumption == NoThread \notin Threads
ASSUME DesiredAssumption == DesiredCount \in Nat
ASSUME DriftAssumption == MaxDrift \in Nat

VARIABLES
  freeList,       \* fa->freeList
  freeListCount,
  allocListCount,
  freed,          \* fa->freed
  gone,           \* the allocator was freed
  mutex,          \* the thread in a split critical section, or NoThread
  pc,             \* where each thread is
  loaded,         \* the value of allocListCount each thread loaded
  out,            \* the frames that were handed out and not released
  raced           \* history: an update of allocListCount met another one

fa   == <<freeList, freeListCount, allocListCount, freed, gone>>
vars == <<fa, mutex, pc, loaded, out, raced>>

\* the frames that exist
Allocated == out \cup {freeList[i] : i \in 1..Len(freeList)}

Init ==
  /\ freeList = << >> /\ freeListCount = 0 /\ allocListCount = 0
  /\ freed = FALSE /\ gone = FALSE
  /\ mutex = NoThread
  /\ pc = [t \in Threads |-> "idle"]
  /\ loaded = [t \in Threads |-> 0]
  /\ out = {}
  /\ raced = FALSE

(***************************************************************************)
(* The owner: alloc_basic_frame2                                           *)
(***************************************************************************)

\* The owner may still use the pool: it has not asked to destroy it, and holds no
\* frame that is not registered
OwnerReady == pc[Owner] = "idle" /\ ~freed /\ ~gone

\* _frame_allocator_reduce_list frees the head of the list l of n frames if there are
\* more than desiredCount and the last allocation is long ago (old)
Reduces(l, n, old) == n > DesiredCount /\ old /\ l # << >>

\* frame_allocator_get finds a frame, and shrinks the list it took it from
Get ==
  /\ OwnerReady /\ mutex = NoThread
  /\ freeList # << >>
  /\ out' = out \cup {Head(freeList)}
  /\ LET rest == Tail(freeList)
         n    == freeListCount - 1
     IN  \/ \E old \in BOOLEAN : /\ ~Reduces(rest, n, old)
                                 /\ freeList' = rest /\ freeListCount' = n
         \/ /\ Reduces(rest, n, TRUE)
            /\ freeList' = Tail(rest) /\ freeListCount' = n - 1
  /\ allocListCount' = allocListCount + 1
  /\ UNCHANGED <<freed, gone, mutex, pc, loaded, raced>>

\* frame_allocator_get finds no frame: a new one is allocated
Allocate ==
  /\ OwnerReady /\ mutex = NoThread
  /\ allocListCount - Cardinality(out) \in -MaxDrift..MaxDrift
  /\ freeList = << >>
  /\ \E f \in Frames \ Allocated : out' = out \cup {f}
  /\ pc' = [pc EXCEPT ![Owner] = "register"]
  /\ UNCHANGED <<fa, mutex, loaded, raced>>

\* frame_allocator_register_frame: no mutex, so a thread may be between the load and
\* the store of frame_allocator_return
RegisterLoad ==
  /\ pc[Owner] = "register"
  /\ loaded' = [loaded EXCEPT ![Owner] = allocListCount]
  /\ pc' = [pc EXCEPT ![Owner] = "registerStore"]
  /\ raced' = (raced \/ mutex # NoThread)
  /\ UNCHANGED <<fa, mutex, out>>

RegisterStore ==
  /\ pc[Owner] = "registerStore"
  /\ allocListCount' = loaded[Owner] + 1
  /\ pc' = [pc EXCEPT ![Owner] = "idle"]
  /\ loaded' = [loaded EXCEPT ![Owner] = 0]
  /\ UNCHANGED <<freeList, freeListCount, freed, gone, mutex, out, raced>>

(***************************************************************************)
(* frame_allocator_return, from the last frame_unref of a frame            *)
(***************************************************************************)

\* A faulty variant, for a mutant: the frame that makes the list shrink is put into
\* the list as well
ReturnAnyway(t) ==
  /\ pc[t] = "idle" /\ ~gone /\ mutex = NoThread
  /\ \E f \in out :
       /\ out' = out \ {f}
       /\ freeList' = <<f>> \o (IF Reduces(freeList, freeListCount, TRUE)
                                THEN Tail(freeList) ELSE freeList)
       /\ freeListCount' = IF Reduces(freeList, freeListCount, TRUE)
                           THEN freeListCount - 1 ELSE freeListCount + 1
  /\ mutex' = t
  /\ loaded' = [loaded EXCEPT ![t] = allocListCount]
  /\ pc' = [pc EXCEPT ![t] = "returnStore"]
  /\ raced' = (raced \/ pc[Owner] = "registerStore")
  /\ UNCHANGED <<allocListCount, freed, gone>>

\* if the list shrinks the frame f goes as well, otherwise it becomes the head
ReturnFrame(t) ==
  /\ pc[t] = "idle" /\ ~gone /\ mutex = NoThread
  /\ \E f \in out :
       /\ out' = out \ {f}
       /\ \/ \E old \in BOOLEAN : /\ ~Reduces(freeList, freeListCount, old)
                                  /\ freeList' = <<f>> \o freeList
                                  /\ freeListCount' = freeListCount + 1
          \/ /\ Reduces(freeList, freeListCount, TRUE)
             /\ freeList' = Tail(freeList)
             /\ freeListCount' = freeListCount - 1
  /\ mutex' = t
  /\ loaded' = [loaded EXCEPT ![t] = allocListCount]
  /\ pc' = [pc EXCEPT ![t] = "returnStore"]
  /\ raced' = (raced \/ pc[Owner] = "registerStore")
  /\ UNCHANGED <<allocListCount, freed, gone>>

\* the last frame back after destroy_frame_allocator destroys the allocator
LastBack(left) == freed /\ left = 0

ReturnStore(t) ==
  /\ pc[t] = "returnStore"
  /\ allocListCount' = loaded[t] - 1
  /\ mutex' = NoThread
  /\ pc' = [pc EXCEPT ![t] = IF LastBack(loaded[t] - 1) THEN "destroy" ELSE "idle"]
  /\ loaded' = [loaded EXCEPT ![t] = 0]
  /\ UNCHANGED <<freeList, freeListCount, freed, gone, out, raced>>

(***************************************************************************)
(* destroy_frame_allocator                                                 *)
(***************************************************************************)

\* the element is destroyed
BeginDestroy ==
  /\ OwnerReady
  /\ pc' = [pc EXCEPT ![Owner] = "destroy"]
  /\ UNCHANGED <<fa, mutex, loaded, out, raced>>

\* A faulty variant, for a mutant: destroy_frame_allocator does not look at the frames
\* handed out
DestroyAlways(t) ==
  /\ pc[t] = "destroy" /\ mutex = NoThread
  /\ pc' = [pc EXCEPT ![t] = "free"]
  /\ UNCHANGED <<fa, mutex, loaded, out, raced>>

\* the check, under the mutex: only mark the allocator while frames are out
Destroy(t) ==
  /\ pc[t] = "destroy" /\ mutex = NoThread
  /\ IF allocListCount # 0
     THEN freed' = TRUE /\ pc' = [pc EXCEPT ![t] = "idle"]
     ELSE freed' = freed /\ pc' = [pc EXCEPT ![t] = "free"]
  /\ UNCHANGED <<freeList, freeListCount, allocListCount, gone, mutex, loaded, out, raced>>

\* after the mutex was left: the list and the allocator are freed
Free(t) ==
  /\ pc[t] = "free"
  /\ freeList' = << >> /\ freeListCount' = 0
  /\ gone' = TRUE
  /\ pc' = [pc EXCEPT ![t] = "idle"]
  /\ UNCHANGED <<allocListCount, freed, mutex, loaded, out, raced>>

Next ==
  \/ Get \/ Allocate \/ RegisterLoad \/ RegisterStore \/ BeginDestroy
  \/ \E t \in Threads : ReturnFrame(t) \/ ReturnStore(t) \/ Destroy(t) \/ Free(t)

Spec == Init /\ [][Next]_vars

(***************************************************************************)
(* Properties                                                              *)
(***************************************************************************)

\* Every variable has its type.  Nothing in the code keeps allocListCount from
\* becoming negative.
TypeOK ==
  /\ freeList \in Seq(Frames) /\ freeListCount \in Nat
  /\ allocListCount \in Int /\ loaded \in [Threads -> Int]
  /\ freed \in BOOLEAN /\ gone \in BOOLEAN
  /\ mutex \in Threads \cup {NoThread}
  /\ pc \in [Threads -> {"idle", "register", "registerStore", "returnStore", "destroy", "free"}]
  /\ out \subseteq Frames
  /\ raced \in BOOLEAN

\* A frame is handed out or in the free list, never both, and in the list once;
\* freeListCount is the length of the list.  Otherwise two users write into one frame.
ListExact ==
  /\ freeListCount = Len(freeList)
  /\ \A i, j \in 1..Len(freeList) : freeList[i] = freeList[j] => i = j
  /\ \A i \in 1..Len(freeList) : freeList[i] \notin out

\* Only one thread ever gets past the check of destroy_frame_allocator, and none after
\* the allocator is gone.
DestroyedOnce ==
  \A t, u \in Threads : pc[t] = "free" => ~gone /\ (pc[u] = "free" => u = t)

\* While no two updates of allocListCount met, the allocator is freed only after every
\* frame it handed out is back: one still out would be returned to freed memory.
NoFrameOutlives == gone /\ ~raced => out = {}

\* ... and the last frame back frees an allocator whose owner is gone: it does not leak.
FreedWithLastFrame ==
  freed /\ out = {} /\ ~raced /\ (\A t \in Threads : pc[t] = "idle") => gone

\* The allocator goes exactly with its last frame, once: not before, not twice, not never.
GoneWithLastFrame == DestroyedOnce /\ NoFrameOutlives /\ FreedWithLastFrame
=============================================================================
