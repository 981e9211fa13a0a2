-------------------------- MODULE ClipStreamProofs --------------------------
(***************************************************************************)
(* Proofs about ClipStream and, at the end, ClipReader, for every clip,    *)
(* every pool of ClipFrame objects and every sequence of calls.  The       *)
(* inductive invariant has four parts besides the types: who owns each     *)
(* frame (Owned), that outstandingFrames counts them (Counted), what each  *)
(* step of the search knows of the frames it holds (Searching), and where  *)
(* the graph stands between two calls (Cursor).                            *)
(***************************************************************************)
EXTENDS ClipReader, FiniteSetTheorems, TLAPS

Owned ==
  /\ live = (held \cup {nextFrame, prevFrame, curFrame}) \ {NoFrame}
  /\ NoFrame \notin held /\ nextFrame \notin held /\ prevFrame \notin held /\ curFrame \notin held
  /\ nextFrame = prevFrame => nextFrame = NoFrame
  /\ nextFrame = curFrame => nextFrame = NoFrame
  /\ prevFrame = curFrame => prevFrame = NoFrame
  /\ pc # "idle" => nextFrame = NoFrame /\ ~freed
  /\ pc \in {"idle", "seek"} => prevFrame = NoFrame /\ curFrame = NoFrame
  /\ pc = "read" => curFrame = NoFrame
  /\ freed => nextFrame = NoFrame

Counted ==
  /\ IsFiniteSet(live)
  /\ Cardinality(live) = outstandingFrames
  /\ ReleasedWithLastFrame

Searching ==
  /\ pc \in {"read", "judge"} => seekTo <= ms
  /\ prevFrame # NoFrame => Frames[index[prevFrame]] < ms
  /\ pc = "read" =>
       IF prevFrame = NoFrame THEN LandsOn(seekTo, position)
       ELSE position = index[prevFrame] + 1
  /\ pc = "judge" =>
       /\ position = IF curFrame = NoFrame THEN Last + 1 ELSE index[curFrame] + 1
       /\ curFrame = NoFrame /\ prevFrame # NoFrame => index[prevFrame] = Last
       /\ curFrame # NoFrame /\ prevFrame # NoFrame =>
            index[curFrame] = index[prevFrame] + 1
       /\ prevFrame = NoFrame =>
            LandsOn(seekTo, IF curFrame = NoFrame THEN Last + 1 ELSE index[curFrame])

Cursor ==
  /\ nextFrame # NoFrame => position = index[nextFrame] + 1
  /\ nextFrame # NoFrame /\ shown # Unknown => index[nextFrame] = shown + 1
  /\ pc = "idle" /\ ~freed /\ nextFrame = NoFrame /\ shown # Unknown => position = shown + 1

Inv == TypeOK /\ Owned /\ Counted /\ Searching /\ Cursor

\* The number of frames and the frames are numbers.
LEMMA ClipIsNat ==
  /\ Last \in Nat /\ Last > 0
  /\ \A i \in 1..Last : Frames[i] \in Nat
BY FramesAssumption DEF Last

\* A new object is counted once.
LEMMA CountCreated ==
  ASSUME NEW S, IsFiniteSet(S), NEW f, f \notin S
  PROVE  IsFiniteSet(S \cup {f}) /\ Cardinality(S \cup {f}) = Cardinality(S) + 1
BY FS_AddElement

\* Freeing NULL changes no count, freeing a frame takes one away.
LEMMA CountFreed ==
  ASSUME NEW S, IsFiniteSet(S), NoFrame \notin S, NEW f, f \in S \cup {NoFrame}
  PROVE  /\ IsFiniteSet(S \ {f})
         /\ Cardinality(S \ {f}) = Cardinality(S) - (IF f = NoFrame THEN 0 ELSE 1)
         /\ Cardinality(S \ {f}) \in Nat
<1>1. CASE f \in S
  BY <1>1, FS_RemoveElement, FS_CardinalityType
<1>2. CASE f = NoFrame
  BY <1>2, FS_RemoveElement, FS_CardinalityType
<1> QED
  BY <1>1, <1>2

\* What freeing f leaves behind: f is none of the objects that are in use.
LEMMA FreeKeepsCount ==
  ASSUME TypeOK, IsFiniteSet(live), Cardinality(live) = outstandingFrames,
         NEW f, f \in live \cup {NoFrame}, FreeFrame(f)
  PROVE  /\ live' = live \ {f} /\ live' \subseteq ClipFrames
         /\ IsFiniteSet(live') /\ Cardinality(live') = outstandingFrames'
         /\ outstandingFrames' \in Nat
         /\ index' = index
<1>1. NoFrame \notin live
  BY NoFrameAssumption DEF TypeOK
<1> QED
  BY <1>1, CountFreed DEF FreeFrame, TypeOK

\* What creating f for the frame at i leaves behind.
LEMMA CreateKeepsCount ==
  ASSUME TypeOK, IsFiniteSet(live), Cardinality(live) = outstandingFrames,
         NEW f \in ClipFrames \ live, NEW i \in 1..Last, CreateFrame(f, i)
  PROVE  /\ live' = live \cup {f} /\ live' \subseteq ClipFrames
         /\ IsFiniteSet(live') /\ Cardinality(live') = outstandingFrames'
         /\ outstandingFrames' \in Nat
         /\ index' \in [ClipFrames -> 1..Last]
         /\ index'[f] = i /\ \A g \in ClipFrames \ {f} : index'[g] = index[g]
BY CountCreated, FS_CardinalityType DEF CreateFrame, TypeOK

LEMMA InitInv == Init => Inv
<1> SUFFICES ASSUME Init PROVE Inv
  OBVIOUS
<1>1. TypeOK
  <2>1. 1 \in 1..Last /\ 1 \in 1..(Last + 1) /\ 0 \in -1..Last
    BY ClipIsNat
  <2>2. index \in [ClipFrames -> 1..Last]
    BY <2>1 DEF Init
  <2> QED
    BY <2>1, <2>2, BoundsAssumption DEF Init, TypeOK
<1>2. Owned
  BY DEF Init, Owned
<1>3. Counted
  BY FS_EmptySet DEF Init, Counted, ReleasedWithLastFrame
<1>4. Searching /\ Cursor
  BY DEF Init, Searching, Cursor
<1> QED
  BY <1>1, <1>2, <1>3, <1>4 DEF Inv

\* get_next_frame and get_prev_frame at the start.
LEMMA NextKeepsInv ==
  ASSUME Inv, GetNextFrame \/ GetFirstFrame
  PROVE  Inv'
<1> USE DEF Inv
<1>1. PICK f \in ClipFrames \cup {NoFrame} : GetNext(f) /\ Deliver(f)
  BY DEF GetNextFrame, GetFirstFrame
<1>2. /\ MayCall /\ UNCHANGED <<freed, destroyed, search>>
      /\ prevFrame = NoFrame /\ curFrame = NoFrame /\ pc = "idle" /\ ~freed
  BY DEF GetNextFrame, GetFirstFrame, MayCall, Owned
<1>3. CASE nextFrame # NoFrame
  <2>1. /\ f = nextFrame /\ nextFrame' = NoFrame /\ UNCHANGED <<position, heap, lastMsReturned>>
        /\ held' = held \cup {f} /\ shown' = index[f] /\ f \in ClipFrames
    BY <1>1, <1>3 DEF GetNext, Deliver, TypeOK, heap
  <2>2. TypeOK'
    BY <1>2, <1>3, <2>1, ClipIsNat DEF TypeOK, heap, search
  <2>3. Owned'
    <3>1. NoFrame \notin held /\ nextFrame \notin held /\ f # NoFrame
      BY <1>2, <1>3, <2>1 DEF Owned
    <3>2. live = (held \cup {nextFrame, NoFrame}) \ {NoFrame}
      BY <1>2 DEF Owned
    <3>3. live' = (held' \cup {nextFrame', prevFrame', curFrame'}) \ {NoFrame}
      BY <1>2, <2>1, <3>1, <3>2 DEF heap, search
    <3> QED
      BY <1>2, <2>1, <3>1, <3>3 DEF Owned, search
  <2>5. Counted'
    BY <1>2, <2>1 DEF Counted, ReleasedWithLastFrame, heap
  <2>4. Searching' /\ Cursor'
    BY <1>2, <1>3, <2>1, ClipIsNat DEF TypeOK, Searching, Cursor, heap, search, Unknown
  <2> QED
    BY <2>2, <2>3, <2>4, <2>5
<1>4. CASE nextFrame = NoFrame /\ position <= Last
  <2>1. /\ f \in ClipFrames \ live /\ CreateFrame(f, position) /\ position' = position + 1
        /\ lastMsReturned' = Frames[position] /\ nextFrame' = nextFrame
    BY <1>1, <1>4, ClipIsNat DEF GetNext, TypeOK
  <2>2. position \in 1..Last /\ Frames[position] \in Nat /\ position' \in 1..(Last + 1)
    BY <1>4, <2>1, ClipIsNat DEF TypeOK
  <2>3. f # NoFrame /\ held' = held \cup {f} /\ shown' = index'[f]
    BY <1>1, <2>1, NoFrameAssumption DEF Deliver
  <2> QED
    BY <1>2, <1>4, <2>1, <2>2, <2>3, CreateKeepsCount, ClipIsNat
       DEF TypeOK, Owned, Counted, ReleasedWithLastFrame, Searching, Cursor, search, Unknown
<1>5. CASE nextFrame = NoFrame /\ position > Last
  <2>1. /\ f = NoFrame /\ UNCHANGED <<position, heap, lastMsReturned, nextFrame>>
        /\ UNCHANGED <<held, shown>>
    BY <1>1, <1>5, ClipIsNat DEF GetNext, Deliver, TypeOK, heap
  <2> QED
    BY <1>2, <2>1
       DEF TypeOK, Owned, Counted, ReleasedWithLastFrame, Searching, Cursor, heap, search
<1> QED
  BY <1>3, <1>4, <1>5, ClipIsNat DEF TypeOK

\* get_next_frame_offset.
LEMMA OffsetKeepsInv ==
  ASSUME Inv, GetNextFrameOffset
  PROVE  Inv'
<1> USE DEF Inv
<1>1. /\ nextFrame = NoFrame /\ UNCHANGED <<freed, destroyed, search, client>>
      /\ prevFrame = NoFrame /\ curFrame = NoFrame /\ pc = "idle" /\ ~freed
  BY DEF GetNextFrameOffset, MayCall, Owned
<1>2. CASE position <= Last
  <2>1. PICK f \in ClipFrames \ live :
          /\ CreateFrame(f, position) /\ position' = position + 1
          /\ lastMsReturned' = Frames[position] /\ nextFrame' = f
    BY <1>2 DEF GetNextFrameOffset
  <2>2. position \in 1..Last /\ Frames[position] \in Nat /\ position' \in 1..(Last + 1)
    BY <1>2, <2>1, ClipIsNat DEF TypeOK
  <2>3. f # NoFrame /\ f \notin held
    BY <1>1, <2>1, NoFrameAssumption DEF Owned
  <2> QED
    BY <1>1, <2>1, <2>2, <2>3, CreateKeepsCount, ClipIsNat
       DEF TypeOK, Owned, Counted, ReleasedWithLastFrame, Searching, Cursor, search, client, Unknown
<1>3. CASE position > Last
  <2>1. UNCHANGED vars
    BY <1>1, <1>3, ClipIsNat DEF GetNextFrameOffset, TypeOK, vars, stream
  <2> QED
    BY <2>1 DEF TypeOK, Owned, Counted, ReleasedWithLastFrame, Searching, Cursor, LandsOn,
                AtOrBefore, vars, heap, stream, search, client
<1> QED
  BY <1>2, <1>3, ClipIsNat DEF TypeOK

\* get_frame_at and get_prev_frame up to the first seek.
LEMMA StartKeepsInv ==
  ASSUME Inv, MayCall, NEW c \in {"at", "prev"}, NEW t \in Int, StartSearch(c, t)
  PROVE  Inv'
<1> USE DEF Inv
<1>1. /\ prevFrame = NoFrame /\ curFrame = NoFrame /\ pc = "idle" /\ ~freed
      /\ nextFrame' = NoFrame /\ UNCHANGED <<position, freed, destroyed, held>>
      /\ FreeFrame(nextFrame)
  BY DEF StartSearch, MayCall, Owned
<1>2. nextFrame \in live \cup {NoFrame} /\ live \ {nextFrame} = held /\ NoFrame \notin held
  BY <1>1 DEF Owned
<1>3. /\ live' = held /\ live' \subseteq ClipFrames
      /\ IsFiniteSet(live') /\ Cardinality(live') = outstandingFrames'
      /\ outstandingFrames' \in Nat /\ index' = index
  BY <1>1, <1>2, FreeKeepsCount DEF Counted
<1>4. \/ t < 0 /\ lastMsReturned' = -1 /\ shown' = Unknown /\ UNCHANGED search
      \/ /\ t >= 0 /\ pc' = "seek" /\ call' = c /\ ms' = t
         /\ UNCHANGED <<seekTo, goBackMs, prevFrame, curFrame, lastMsReturned, shown>>
  BY DEF StartSearch
<1>5. TypeOK'
  BY <1>1, <1>3, <1>4, ClipIsNat DEF TypeOK, search, Unknown
<1>6. Owned' /\ Counted'
  BY <1>1, <1>2, <1>3, <1>4 DEF Owned, Counted, ReleasedWithLastFrame, search
<1>7. Searching' /\ Cursor'
  BY <1>1, <1>4 DEF Searching, Cursor, search, Unknown
<1> QED
  BY <1>5, <1>6, <1>7

LEMMA SeekKeepsInv ==
  ASSUME Inv, Seek
  PROVE  Inv'
<1> USE DEF Inv
<1>1. PICK p \in 1..(Last + 1) : LandsOn(SeekTarget, p) /\ position' = p
  BY DEF Seek
<1>2. /\ pc = "seek" /\ pc' = "read" /\ seekTo' = SeekTarget
      /\ UNCHANGED <<heap, stream, call, ms, goBackMs, prevFrame, curFrame, client>>
      /\ prevFrame = NoFrame /\ curFrame = NoFrame /\ nextFrame = NoFrame /\ ~freed
  BY DEF Seek, Owned
<1>3. SeekTarget \in Nat /\ SeekTarget <= ms
  BY DEF SeekTarget, TypeOK
<1>4. TypeOK'
  BY <1>1, <1>2, <1>3 DEF TypeOK, heap, stream, client
<1>5. Owned' /\ Counted'
  BY <1>2 DEF Owned, Counted, ReleasedWithLastFrame, heap, stream, client
<1>6. Searching' /\ Cursor'
  BY <1>1, <1>2, <1>3 DEF Searching, Cursor, LandsOn, AtOrBefore, stream
<1> QED
  BY <1>4, <1>5, <1>6

LEMMA SeekFailsKeepsInv ==
  ASSUME Inv, SeekFails
  PROVE  Inv'
<1> USE DEF Inv
<1>1. /\ pc' = "idle" /\ prevFrame' = NoFrame /\ curFrame' = NoFrame /\ shown' = Unknown
      /\ UNCHANGED <<position, heap, nextFrame, freed, destroyed, held>>
  BY DEF SeekFails, Return
<1>2. TypeOK'
  BY <1>1, ClipIsNat, BoundsAssumption DEF SeekFails, Return, TypeOK, heap, Unknown
<1>3. pc = "seek" /\ prevFrame = NoFrame /\ curFrame = NoFrame
  BY DEF SeekFails, Owned
<1>4. Owned' /\ Counted'
  BY <1>1, <1>3 DEF Owned, Counted, ReleasedWithLastFrame, heap
<1>5. Searching' /\ Cursor'
  BY <1>1, <1>3 DEF Owned, Searching, Cursor, heap, Unknown
<1> QED
  BY <1>2, <1>4, <1>5

LEMMA ReadKeepsInv ==
  ASSUME Inv, Read
  PROVE  Inv'
<1> USE DEF Inv
<1>1. PICK f \in ClipFrames \cup {NoFrame} : GetNext(f) /\ curFrame' = f
  BY DEF Read
<1>2. /\ pc = "read" /\ pc' = "judge" /\ curFrame = NoFrame /\ nextFrame = NoFrame /\ ~freed
      /\ UNCHANGED <<freed, destroyed, call, ms, seekTo, goBackMs, prevFrame, client>>
  BY DEF Read, Owned
<1>3. CASE position <= Last
  <2>1. /\ f \in ClipFrames \ live /\ CreateFrame(f, position) /\ position' = position + 1
        /\ lastMsReturned' = Frames[position] /\ nextFrame' = nextFrame
    BY <1>1, <1>2, <1>3, ClipIsNat DEF GetNext, TypeOK
  <2>2. position \in 1..Last /\ Frames[position] \in Nat /\ position' \in 1..(Last + 1)
    BY <1>3, <2>1, ClipIsNat DEF TypeOK
  <2>3. f # NoFrame /\ f \notin held /\ f # prevFrame /\ (prevFrame # NoFrame => prevFrame \in live)
    BY <1>2, <2>1, NoFrameAssumption DEF Owned
  <2>4. /\ live' = live \cup {f} /\ live' \subseteq ClipFrames
        /\ IsFiniteSet(live') /\ Cardinality(live') = outstandingFrames'
        /\ outstandingFrames' \in Nat
        /\ index' \in [ClipFrames -> 1..Last]
        /\ index'[f] = position /\ \A g \in ClipFrames \ {f} : index'[g] = index[g]
    BY <2>1, <2>2, CreateKeepsCount DEF Counted
  <2>5. TypeOK'
    BY <1>1, <1>2, <2>1, <2>2, <2>4 DEF TypeOK, client
  <2>6. Owned'
    BY <1>1, <1>2, <2>1, <2>3, <2>4 DEF Owned, client
  <2>7. Counted'
    BY <1>2, <2>4 DEF Counted, ReleasedWithLastFrame, client
  <2>8. prevFrame # NoFrame => index'[prevFrame] = index[prevFrame]
    BY <2>3, <2>4 DEF TypeOK
  <2>9. Searching' /\ Cursor'
    BY <1>1, <1>2, <2>1, <2>2, <2>3, <2>4, <2>8, ClipIsNat
       DEF TypeOK, Searching, Cursor, LandsOn, AtOrBefore
  <2> QED
    BY <2>5, <2>6, <2>7, <2>9
<1>4. CASE position > Last
  <2>1. f = NoFrame /\ UNCHANGED <<position, heap, lastMsReturned, nextFrame>>
    BY <1>1, <1>2, <1>4, ClipIsNat DEF GetNext, TypeOK
  <2>2. position = Last + 1
    BY <1>4, ClipIsNat DEF TypeOK
  <2>3. TypeOK'
    BY <1>1, <1>2, <2>1 DEF TypeOK, heap, client
  <2>4. Owned' /\ Counted'
    BY <1>1, <1>2, <2>1 DEF Owned, Counted, ReleasedWithLastFrame, heap, client
  <2>5. Searching' /\ Cursor'
    <3>1. prevFrame # NoFrame => prevFrame \in ClipFrames /\ index[prevFrame] \in 1..Last
      BY DEF TypeOK
    <3> QED
      BY <1>1, <1>2, <2>1, <2>2, <3>1, ClipIsNat DEF Searching, Cursor, LandsOn, AtOrBefore, heap
  <2> QED
    BY <2>3, <2>4, <2>5
<1> QED
  BY <1>3, <1>4, ClipIsNat DEF TypeOK

\* The offsets grow along the clip.
LEMMA ClipGrows ==
  /\ \A i, j \in 1..Last : i < j => Frames[i] < Frames[j]
  /\ \A i \in 1..Last : i # 1 => Frames[1] < Frames[i]
BY ClipIsNat, FramesAssumption

\* What the search knows when it ends: each way out names the last frame at or
\* before the target.
LEMMA SearchEnds ==
  ASSUME Inv, pc = "judge"
  PROVE  /\ EndOfClip /\ prevFrame # NoFrame => AtOrBefore(ms, index[prevFrame])
         /\ ExactHit => AtOrBefore(ms, index[curFrame])
         /\ PassedIt => AtOrBefore(ms, index[prevFrame])
         /\ EndOfClip /\ prevFrame = NoFrame => seekTo > 0
         /\ StartedTooLate /\ ~(seekTo > 0) => AtOrBefore(ms, 0)
<1> USE DEF Inv
<1>0. /\ ms \in Nat /\ seekTo \in Nat /\ seekTo <= ms
      /\ prevFrame # NoFrame => prevFrame \in ClipFrames /\ index[prevFrame] \in 1..Last
      /\ curFrame # NoFrame => curFrame \in ClipFrames /\ index[curFrame] \in 1..Last
  BY DEF TypeOK, Searching
<1>1. EndOfClip /\ prevFrame # NoFrame => AtOrBefore(ms, index[prevFrame])
  BY <1>0, ClipIsNat DEF EndOfClip, Searching, AtOrBefore
<1>2. ExactHit => AtOrBefore(ms, index[curFrame])
  <2> SUFFICES ASSUME ExactHit PROVE AtOrBefore(ms, index[curFrame])
    OBVIOUS
  <2> DEFINE i == index[curFrame]
  <2>1. i \in 1..Last /\ Frames[i] = ms
    BY <1>0 DEF ExactHit, MsOf
  <2>2. i < Last => Frames[i + 1] > Frames[i]
    BY <2>1, ClipIsNat, ClipGrows
  <2> QED
    BY <2>1, <2>2, ClipIsNat DEF AtOrBefore
<1>3. PassedIt => AtOrBefore(ms, index[prevFrame])
  BY <1>0, ClipIsNat DEF PassedIt, MsOf, Searching, AtOrBefore
<1>4. EndOfClip /\ prevFrame = NoFrame => seekTo > 0
  BY <1>0, ClipIsNat DEF EndOfClip, Searching, LandsOn, AtOrBefore
<1>5. StartedTooLate /\ ~(seekTo > 0) => AtOrBefore(ms, 0)
  <2> SUFFICES ASSUME StartedTooLate, seekTo = 0 PROVE AtOrBefore(ms, 0)
    BY <1>0
  <2> DEFINE i == index[curFrame]
  <2>1. i \in 1..Last /\ Frames[i] > ms /\ LandsOn(0, i)
    BY <1>0 DEF StartedTooLate, MsOf, Searching
  <2>2. i = 1
    BY <2>1, <1>0, ClipIsNat DEF LandsOn, AtOrBefore
  <2> QED
    BY <2>1, <2>2 DEF AtOrBefore
<1> QED
  BY <1>1, <1>2, <1>3, <1>4, <1>5

\* The state after a search that ends with the frame f.
LEMMA ReturnKeepsInv ==
  ASSUME Inv, pc = "judge", NEW f \in live, Return(f),
         UNCHANGED <<position, freed, destroyed>>,
         live' = (held \cup {f, nextFrame'}) \ {NoFrame}, live' \subseteq ClipFrames,
         IsFiniteSet(live'), Cardinality(live') = outstandingFrames',
         outstandingFrames' \in Nat, index' = index,
         f \notin held, f # NoFrame,
         \/ nextFrame' = NoFrame /\ position = index[f] + 1
         \/ /\ nextFrame' \in live /\ nextFrame' # f /\ nextFrame' \notin held
            /\ index[nextFrame'] = index[f] + 1 /\ position = index[nextFrame'] + 1
  PROVE  Inv'
<1> USE DEF Inv
<1>1. /\ pc' = "idle" /\ call' = "none" /\ ms' = 0 /\ seekTo' = 0 /\ goBackMs' = FirstGoBack
      /\ lastMsReturned' = Frames[index[f]] /\ held' = held \cup {f} /\ shown' = index[f]
      /\ prevFrame' = NoFrame /\ curFrame' = NoFrame
  BY DEF Return, MsOf
<1>2. f \in ClipFrames /\ index[f] \in 1..Last /\ Frames[index[f]] \in Nat
  BY ClipIsNat DEF TypeOK
<1>3. ~freed /\ NoFrame \notin held /\ destroyed = 0
  BY DEF Owned, Counted, ReleasedWithLastFrame
<1>4. nextFrame' \in ClipFrames \cup {NoFrame}
  BY DEF TypeOK
<1>5. TypeOK'
  BY <1>1, <1>2, <1>4, ClipIsNat, BoundsAssumption DEF TypeOK
<1>6. Owned'
  BY <1>1, <1>3 DEF Owned
<1>7. Counted'
  BY <1>1, <1>3 DEF Counted, ReleasedWithLastFrame
<1>8. Searching'
  BY <1>1 DEF Searching
<1>9. Cursor'
  <2>1. CASE nextFrame' = NoFrame /\ position = index[f] + 1
    BY <1>1, <2>1 DEF Cursor
  <2>2. CASE /\ nextFrame' \in live /\ nextFrame' # f /\ nextFrame' \notin held
             /\ index[nextFrame'] = index[f] + 1 /\ position = index[nextFrame'] + 1
    <3>1. nextFrame' # NoFrame
      BY <2>2, NoFrameAssumption DEF TypeOK
    <3> QED
      BY <1>1, <2>2, <3>1 DEF Cursor
  <2> QED
    BY <2>1, <2>2
<1> QED
  BY <1>5, <1>6, <1>7, <1>8, <1>9

\* The state after a search that finds nothing, or steps further back.
LEMMA NothingKept ==
  ASSUME Inv, pc = "judge",
         UNCHANGED <<position, freed, destroyed>>,
         Return(NoFrame) \/ SeekFurther,
         live' = held, live' \subseteq ClipFrames,
         IsFiniteSet(live'), Cardinality(live') = outstandingFrames',
         outstandingFrames' \in Nat, index' = index, nextFrame' = nextFrame
  PROVE  Inv'
<1> USE DEF Inv
<1>1. nextFrame = NoFrame /\ ~freed /\ NoFrame \notin held /\ destroyed = 0
  BY DEF Owned, Counted, ReleasedWithLastFrame
<1>2. held' = held /\ prevFrame' = NoFrame /\ curFrame' = NoFrame /\ pc' \in {"idle", "seek"}
  BY DEF Return, SeekFurther, client
<1>3. TypeOK'
  <2>1. CASE Return(NoFrame)
    BY <1>1, <1>2, <2>1, ClipIsNat, BoundsAssumption DEF Return, TypeOK, Unknown
  <2>2. CASE SeekFurther
    <3>1. goBackMs' \in Nat \ {0}
      BY <2>2 DEF SeekFurther, TypeOK
    <3> QED
      BY <1>1, <1>2, <2>2, <3>1 DEF SeekFurther, TypeOK, client
  <2> QED
    BY <2>1, <2>2
<1>4. Owned' /\ Counted'
  BY <1>1, <1>2 DEF Owned, Counted, ReleasedWithLastFrame
<1>5. Searching'
  BY <1>2 DEF Searching
<1>6. Cursor'
  BY <1>1, <1>2 DEF Cursor, Return, SeekFurther, client, Unknown
<1> QED
  BY <1>3, <1>4, <1>5, <1>6

LEMMA JudgeKeepsInv ==
  ASSUME Inv, Judge
  PROVE  Inv'
<1> USE DEF Inv
<1>1. /\ pc = "judge" /\ nextFrame = NoFrame /\ ~freed /\ NoFrame \notin held
      /\ UNCHANGED <<position, freed, destroyed>>
      /\ IsFiniteSet(live) /\ Cardinality(live) = outstandingFrames
      /\ outstandingFrames \in Nat /\ live \subseteq ClipFrames
  BY DEF Judge, Owned, Counted, TypeOK
<1>2. live = (held \cup {prevFrame, curFrame}) \ {NoFrame}
  BY <1>1 DEF Owned
<1>3. /\ prevFrame \notin held /\ curFrame \notin held
      /\ prevFrame = curFrame => prevFrame = NoFrame
  BY <1>1 DEF Owned
<1>4. CASE EndOfClip
  <2>1. curFrame = NoFrame /\ UNCHANGED <<heap, nextFrame>>
    BY <1>4 DEF EndOfClip
  <2>2. CASE prevFrame # NoFrame
    <3>1. Return(prevFrame) /\ prevFrame \in live
      BY <1>2, <1>4, <2>2 DEF EndOfClip
    <3>2. live' = (held \cup {prevFrame, nextFrame'}) \ {NoFrame}
      BY <1>1, <1>2, <2>1 DEF heap
    <3>3. position = index[prevFrame] + 1
      BY <1>1, <2>1, <2>2 DEF Searching
    <3> QED
      BY <1>1, <1>3, <2>1, <2>2, <3>1, <3>2, <3>3, ReturnKeepsInv DEF heap
  <2>3. CASE prevFrame = NoFrame
    <3>1. Return(NoFrame) \/ SeekFurther
      BY <1>4, <2>3 DEF EndOfClip
    <3>2. live' = held
      BY <1>1, <1>2, <2>1, <2>3 DEF heap
    <3> QED
      BY <1>1, <2>1, <3>1, <3>2, NothingKept DEF heap
  <2> QED
    BY <2>2, <2>3
<1>5. CASE ExactHit
  <2>1. /\ curFrame # NoFrame /\ FreeFrame(prevFrame) /\ Return(curFrame)
        /\ nextFrame' = nextFrame
    BY <1>5 DEF ExactHit
  <2>2. /\ prevFrame \in live \cup {NoFrame} /\ curFrame \in live
        /\ live \ {prevFrame} = (held \cup {curFrame, nextFrame'}) \ {NoFrame}
    BY <1>1, <1>2, <1>3, <2>1
  <2>3. position = index[curFrame] + 1
    BY <1>1, <2>1 DEF Searching
  <2> QED
    BY <1>1, <1>3, <2>1, <2>2, <2>3, FreeKeepsCount, ReturnKeepsInv
<1>6. CASE StillBefore
  <2>1. /\ curFrame # NoFrame /\ MsOf(curFrame) < ms /\ FreeFrame(prevFrame)
        /\ prevFrame' = curFrame /\ curFrame' = NoFrame /\ pc' = "read"
        /\ UNCHANGED <<nextFrame, lastMsReturned, call, ms, seekTo, goBackMs, client>>
    BY <1>6 DEF StillBefore
  <2>2. /\ prevFrame \in live \cup {NoFrame}
        /\ live \ {prevFrame} = (held \cup {curFrame}) \ {NoFrame}
    BY <1>1, <1>2, <1>3, <2>1
  <2>3. /\ live' = (held \cup {curFrame}) \ {NoFrame} /\ live' \subseteq ClipFrames
        /\ IsFiniteSet(live') /\ Cardinality(live') = outstandingFrames'
        /\ outstandingFrames' \in Nat /\ index' = index
    BY <1>1, <2>1, <2>2, FreeKeepsCount
  <2>4. TypeOK'
    BY <1>1, <2>1, <2>3 DEF TypeOK, client
  <2>5. Owned'
    BY <1>1, <1>3, <2>1, <2>3 DEF Owned, client
  <2>6. Counted'
    BY <1>1, <2>1, <2>3 DEF Counted, ReleasedWithLastFrame, client
  <2>7. Searching' /\ Cursor'
    BY <1>1, <2>1, <2>3 DEF Searching, Cursor, MsOf
  <2> QED
    BY <2>4, <2>5, <2>6, <2>7
<1>7. CASE PassedIt
  <2>1. /\ curFrame # NoFrame /\ prevFrame # NoFrame /\ nextFrame' = curFrame
        /\ Return(prevFrame) /\ UNCHANGED heap
    BY <1>7 DEF PassedIt
  <2>2. /\ prevFrame \in live /\ curFrame \in live /\ curFrame # prevFrame
        /\ live' = (held \cup {prevFrame, nextFrame'}) \ {NoFrame}
    BY <1>1, <1>2, <1>3, <2>1 DEF heap
  <2>3. index[curFrame] = index[prevFrame] + 1 /\ position = index[curFrame] + 1
    BY <1>1, <2>1 DEF Searching
  <2> QED
    BY <1>1, <1>3, <2>1, <2>2, <2>3, ReturnKeepsInv DEF heap
<1>8. CASE StartedTooLate
  <2>1. /\ curFrame # NoFrame /\ prevFrame = NoFrame /\ FreeFrame(curFrame)
        /\ Return(NoFrame) \/ (SeekFurther /\ nextFrame' = nextFrame)
        /\ nextFrame' = nextFrame
    BY <1>8 DEF StartedTooLate
  <2>2. curFrame \in live /\ live \ {curFrame} = held
    BY <1>1, <1>2, <1>3, <2>1
  <2> QED
    BY <1>1, <2>1, <2>2, FreeKeepsCount, NothingKept
<1> QED
  BY <1>4, <1>5, <1>6, <1>7, <1>8 DEF Judge

LEMMA FreesKeepInv ==
  ASSUME Inv, (\E f \in ClipFrames : FreeClipFrame(f)) \/ FreeClipStream
  PROVE  Inv'
<1> USE DEF Inv
<1>1. /\ pc = "idle" /\ prevFrame = NoFrame /\ curFrame = NoFrame /\ NoFrame \notin held
      /\ UNCHANGED <<position, lastMsReturned, search, shown>>
  BY DEF FreeClipFrame, FreeClipStream, Owned, client
<1>2. live = (held \cup {nextFrame}) \ {NoFrame} /\ nextFrame \notin held
  BY <1>1 DEF Owned
<1>3. ASSUME NEW f \in ClipFrames, FreeClipFrame(f) PROVE Inv'
  <2>1. /\ f \in held /\ FreeFrame(f) /\ held' = held \ {f} /\ UNCHANGED <<nextFrame, freed>>
        /\ FreeStreamInternal(freed, outstandingFrames - 1)
    BY <1>3 DEF FreeClipFrame
  <2>2. f # NoFrame /\ f \in live /\ live \ {f} = (held' \cup {nextFrame}) \ {NoFrame}
    BY <1>1, <1>2, <2>1
  <2>3. /\ live' = live \ {f} /\ live' \subseteq ClipFrames
        /\ IsFiniteSet(live') /\ Cardinality(live') = outstandingFrames'
        /\ outstandingFrames' \in Nat /\ index' = index
        /\ outstandingFrames' = outstandingFrames - 1
    BY <2>1, <2>2, FreeKeepsCount DEF Counted, FreeFrame
  <2>4. destroyed = 0
    BY <2>1 DEF Counted, ReleasedWithLastFrame
  <2>5. freed => live' = held'
    BY <1>1, <2>1, <2>2, <2>3 DEF Owned
  <2>6. freed => (outstandingFrames' = 0 <=> held' = {})
    BY <2>3, <2>5, FS_EmptySet
  <2>7. destroyed' = IF freed' /\ held' = {} THEN 1 ELSE 0
    BY <2>1, <2>3, <2>4, <2>6 DEF FreeStreamInternal
  <2>8. TypeOK'
    BY <1>1, <2>1, <2>3, <2>7 DEF TypeOK, search
  <2>9. Owned' /\ Counted'
    BY <1>1, <1>2, <2>1, <2>2, <2>3, <2>7 DEF Owned, Counted, ReleasedWithLastFrame, search
  <2>10. Searching' /\ Cursor'
    BY <1>1, <2>1, <2>3 DEF Searching, Cursor, search
  <2> QED
    BY <2>8, <2>9, <2>10
<1>4. CASE FreeClipStream
  <2>1. /\ ~freed /\ freed' = TRUE /\ FreeFrame(nextFrame) /\ nextFrame' = NoFrame /\ held' = held
        /\ FreeStreamInternal(TRUE, outstandingFrames - (IF nextFrame = NoFrame THEN 0 ELSE 1))
    BY <1>4 DEF FreeClipStream, client
  <2>2. nextFrame \in live \cup {NoFrame} /\ live \ {nextFrame} = held
    BY <1>1, <1>2
  <2>3. /\ live' = held /\ live' \subseteq ClipFrames
        /\ IsFiniteSet(live') /\ Cardinality(live') = outstandingFrames'
        /\ outstandingFrames' \in Nat /\ index' = index
        /\ outstandingFrames' = outstandingFrames - (IF nextFrame = NoFrame THEN 0 ELSE 1)
    BY <2>1, <2>2, FreeKeepsCount DEF Counted, FreeFrame
  <2>4. destroyed = 0
    BY <2>1 DEF Counted, ReleasedWithLastFrame
  <2>5. outstandingFrames' = 0 <=> held' = {}
    BY <2>1, <2>3, FS_EmptySet
  <2>6. destroyed' = IF freed' /\ held' = {} THEN 1 ELSE 0
    BY <2>1, <2>3, <2>4, <2>5 DEF FreeStreamInternal
  <2>7. TypeOK'
    BY <1>1, <2>1, <2>3, <2>6 DEF TypeOK, search
  <2>8. Owned' /\ Counted'
    BY <1>1, <2>1, <2>3, <2>6 DEF Owned, Counted, ReleasedWithLastFrame, search
  <2>9. Searching' /\ Cursor'
    BY <1>1, <2>1, <2>3 DEF Searching, Cursor, search
  <2> QED
    BY <2>7, <2>8, <2>9
<1> QED
  BY <1>3, <1>4

LEMMA StepInv == Inv /\ [Next]_vars => Inv'
<1> SUFFICES ASSUME Inv, [Next]_vars PROVE Inv'
  OBVIOUS
<1>1. CASE UNCHANGED vars
  BY <1>1 DEF Inv, TypeOK, Owned, Counted, ReleasedWithLastFrame, Searching, Cursor, LandsOn,
              AtOrBefore, vars, heap, stream, search, client
<1>2. CASE \E t \in -1..MaxMs : GetFrameAt(t)
  BY <1>2, StartKeepsInv, BoundsAssumption DEF GetFrameAt
<1>3. CASE GetPrevFrame
  <2>1. lastMsReturned - 1 \in Int
    BY DEF Inv, TypeOK
  <2> QED
    BY <1>3, <2>1, StartKeepsInv DEF GetPrevFrame
<1> QED
  BY <1>1, <1>2, <1>3, NextKeepsInv, OffsetKeepsInv, SeekKeepsInv, SeekFailsKeepsInv, ReadKeepsInv,
     JudgeKeepsInv, FreesKeepInv DEF Next

LEMMA Invariance == Spec => []Inv
BY InitInv, StepInv, PTL DEF Spec

\* Every variable of the clip reader keeps its type.
THEOREM ClipTypeCorrect == Spec => []TypeOK
<1>1. Inv => TypeOK
  BY DEF Inv
<1> QED
  BY <1>1, Invariance, PTL

LEMMA OwnedEveryFrame ==
  ASSUME Inv PROVE EveryFrameIsOwned
<1>1. live = (held \cup {nextFrame, prevFrame, curFrame}) \ {NoFrame}
  BY DEF Inv, Owned
<1>2. nextFrame \notin held /\ prevFrame \notin held /\ curFrame \notin held
  BY DEF Inv, Owned
<1>3. Cardinality(live) = outstandingFrames
  BY DEF Inv, Counted
<1>4. \A f \in {<<nextFrame, prevFrame>>, <<nextFrame, curFrame>>, <<prevFrame, curFrame>>} :
        f[1] = f[2] => f[1] = NoFrame
  BY DEF Inv, Owned
<1> QED
  BY <1>1, <1>2, <1>3, <1>4 DEF EveryFrameIsOwned

\* No call leaks a frame or frees one that is in use, and the counter is exact.
THEOREM EveryFrameIsOwnedHolds == Spec => []EveryFrameIsOwned
<1>1. Inv => EveryFrameIsOwned
  BY OwnedEveryFrame
<1> QED
  BY <1>1, Invariance, PTL

\* The reader is released exactly once, with the last frame the caller frees.
THEOREM ReleasedWithLastFrameHolds == Spec => []ReleasedWithLastFrame
<1>1. Inv => ReleasedWithLastFrame
  BY DEF Inv, Counted
<1> QED
  BY <1>1, Invariance, PTL

\* What is read ahead is the frame after the one the caller has.
THEOREM ReadAheadIsNextHolds == Spec => []ReadAheadIsNext
<1>1. Inv => ReadAheadIsNext
  BY DEF Inv, Cursor, ReadAheadIsNext
<1> QED
  BY <1>1, Invariance, PTL

Found ==
  pc = "judge" /\ pc' = "idle" => AtOrBefore(ms, IF shown' = Unknown THEN 0 ELSE shown')

Follows ==
  GetNextFrame /\ shown # Unknown => shown' = IF shown < Last THEN shown + 1 ELSE shown

LEMMA SearchFinds ==
  ASSUME Inv, [Next]_vars
  PROVE  [Found]_vars
<1> SUFFICES ASSUME Next, pc = "judge", pc' = "idle" PROVE Found
  BY DEF Found
<1> USE DEF Found
<1>1. Judge
  BY DEF Next, GetNextFrame, GetNextFrameOffset, GetFirstFrame, GetPrevFrame, GetFrameAt,
         MayCall, Seek, SeekFails, Read, FreeClipFrame, FreeClipStream
<1>2. /\ prevFrame # NoFrame => index[prevFrame] \in 1..Last
      /\ curFrame # NoFrame => index[curFrame] \in 1..Last
  BY DEF Inv, TypeOK
<1>3. CASE EndOfClip
  BY <1>2, <1>3, SearchEnds, ClipIsNat DEF EndOfClip, Return, SeekFurther, Unknown, Inv, TypeOK
<1>4. CASE ExactHit
  BY <1>2, <1>4, SearchEnds, ClipIsNat DEF ExactHit, Return, Unknown
<1>5. CASE StillBefore
  BY <1>5 DEF StillBefore
<1>6. CASE PassedIt
  BY <1>2, <1>6, SearchEnds, ClipIsNat DEF PassedIt, Return, Unknown
<1>7. CASE StartedTooLate
  BY <1>7, SearchEnds DEF StartedTooLate, Return, SeekFurther, Unknown
<1> QED
  BY <1>1, <1>3, <1>4, <1>5, <1>6, <1>7 DEF Judge

\* A search finds the last frame at or before its target, in every clip.
THEOREM SearchFindsFrameHolds == Spec => SearchFindsFrame
BY SearchFinds, Invariance, PTL DEF Spec, SearchFindsFrame, Found

LEMMA GetNextFollows ==
  ASSUME Inv
  PROVE  Follows
<1> SUFFICES ASSUME GetNextFrame, shown # Unknown
             PROVE  shown' = IF shown < Last THEN shown + 1 ELSE shown
  BY DEF Follows
<1>1. PICK f \in ClipFrames \cup {NoFrame} : GetNext(f) /\ Deliver(f)
  BY DEF GetNextFrame
<1>2. pc = "idle" /\ ~freed /\ shown \in 0..Last /\ position \in 1..(Last + 1)
  BY ClipIsNat DEF GetNextFrame, MayCall, Inv, TypeOK, Unknown
<1>3. CASE nextFrame # NoFrame
  <2>1. /\ f = nextFrame /\ f # NoFrame /\ index' = index
        /\ index[f] = shown + 1 /\ index[f] \in 1..Last
    BY <1>1, <1>3 DEF GetNext, heap, Inv, TypeOK, Cursor
  <2> QED
    BY <1>1, <1>2, <2>1, ClipIsNat DEF Deliver
<1>4. CASE nextFrame = NoFrame /\ position <= Last
  <2>1. f \in ClipFrames /\ f # NoFrame /\ CreateFrame(f, position) /\ position = shown + 1
    BY <1>1, <1>2, <1>4, ClipIsNat, NoFrameAssumption DEF GetNext, Inv, Cursor
  <2>2. index'[f] = position
    BY <2>1 DEF CreateFrame, Inv, TypeOK
  <2> QED
    BY <1>1, <1>2, <1>4, <2>1, <2>2, ClipIsNat DEF Deliver
<1>5. CASE nextFrame = NoFrame /\ position > Last
  <2>1. f = NoFrame /\ position = shown + 1
    BY <1>1, <1>2, <1>5, ClipIsNat DEF GetNext, Inv, Cursor
  <2> QED
    BY <1>1, <1>2, <1>5, <2>1, ClipIsNat DEF Deliver
<1> QED
  BY <1>2, <1>3, <1>4, <1>5, ClipIsNat

\* The next frame is the successor of the last one, across searches and read-ahead.
THEOREM NextFollowsHolds == Spec => NextFollows
BY GetNextFollows, Invariance, PTL DEF NextFollows, Follows

\* Frames and reader are owned, and the reader goes with its last frame.
THEOREM FramesAreOwnedHolds == Spec => []FramesAreOwned
BY EveryFrameIsOwnedHolds, ReleasedWithLastFrameHolds, PTL DEF FramesAreOwned

\* Searches find their frame, and reading on continues from there.
THEOREM RightFramesHolds == Spec => RightFrames
BY SearchFindsFrameHolds, NextFollowsHolds, PTL DEF RightFrames

(***************************************************************************)
(* The application's reader.  Between two clips its stream is at rest;     *)
(* while the sequential reader was not needed yet, the stream is as        *)
(* open_clip made it (Untouched); the readers in use are different ones    *)
(* (Apart), so no frame picked at random moves the stream (Sequential);    *)
(* and lastMsReturned is the offset of the last frame returned, of the one *)
(* read ahead, or of the one before it, because a frame that a search read *)
(* ahead is returned without a note of its offset (LastMs).                *)
(***************************************************************************)
Untouched ==
  /\ position = 1 /\ nextFrame = NoFrame /\ lastMsReturned = -1 /\ ~freed /\ shown = 0
  /\ held = {} /\ pc = "idle"

Apart ==
  /\ firstReader \in {0, 1} /\ seqReader \in {0, 1, 2} /\ randReader \in {0, 1, 2}
  /\ seqReader # NoReader \/ randReader # NoReader => firstReader = NoReader
  /\ seqReader # NoReader => seqReader # randReader

Sequential ==
  /\ isOpen => ~freed
  /\ isOpen /\ seqReader = NoReader => Untouched
  /\ pc # "idle" => isOpen /\ calling \in {"prev", "seek"}
  /\ ~isOpen => /\ nextFrame = NoFrame /\ prevMs = -1
                /\ firstReader = NoReader /\ seqReader = NoReader /\ randReader = NoReader

LastMs ==
  pc = "idle" /\ ~freed =>
    \/ lastMsReturned = -1 /\ shown \in {0, Unknown} /\ nextFrame = NoFrame
    \/ shown \in 1..Last /\ lastMsReturned = Frames[shown]
    \/ nextFrame # NoFrame /\ lastMsReturned = Frames[index[nextFrame]]
    \/ shown \in 2..Last /\ lastMsReturned = Frames[shown - 1] /\ nextFrame = NoFrame

ReaderInv == Inv /\ Apart /\ Sequential /\ LastMs /\ PlaceIsKnown

\* What a call that gets the next frame does, for the reader.
LEMMA NextAnswers ==
  ASSUME Inv, LastMs, MayCall, NEW f \in ClipFrames \cup {NoFrame}, GetNext(f), Deliver(f),
         UNCHANGED <<freed, destroyed, search>>
  PROVE  /\ Got <=> f # NoFrame
         /\ Got => shown' \in 1..Last
         /\ ~Got => shown' = shown /\ (lastMsReturned = -1 => shown' \in {0, Unknown})
         /\ LastMs'
<1>1. pc = "idle" /\ ~freed /\ pc' = "idle" /\ NoFrame \notin ClipFrames
  BY NoFrameAssumption DEF MayCall, search
<1>2. CASE nextFrame # NoFrame
  <2>1. /\ f = nextFrame /\ f \in ClipFrames /\ f \notin held /\ index' = index
        /\ held' = held \cup {f} /\ shown' = index[f] /\ index[f] \in 1..Last
    BY <1>1, <1>2 DEF GetNext, Deliver, heap, Inv, TypeOK, Owned
  <2>2. shown' # Unknown /\ shown' # 0
    BY <2>1, ClipIsNat DEF Unknown
  <2>3. lastMsReturned' = lastMsReturned /\ nextFrame' = NoFrame
    BY <1>2, <2>1, <1>1 DEF GetNext
  <2>4. shown \in 1..Last => shown' = shown + 1
    BY <1>2, <2>1, ClipIsNat DEF Inv, Cursor, Unknown
  <2>5. \/ lastMsReturned' = Frames[shown']
        \/ shown' \in 2..Last /\ lastMsReturned' = Frames[shown' - 1]
    <3>1. CASE shown \in 1..Last /\ lastMsReturned = Frames[shown]
      <4>1. shown' \in 2..Last /\ shown' - 1 = shown
        BY <2>1, <2>4, <3>1, ClipIsNat
      <4> QED
        BY <2>3, <3>1, <4>1
    <3>2. CASE lastMsReturned = Frames[index[nextFrame]]
      BY <2>1, <2>3, <3>2
    <3> QED
      BY <1>1, <1>2, <3>1, <3>2 DEF LastMs
  <2> QED
    BY <1>1, <2>1, <2>2, <2>3, <2>5 DEF Got, LastMs
<1>3. CASE nextFrame = NoFrame /\ position <= Last
  <2>1. /\ f \in ClipFrames \ live /\ CreateFrame(f, position) /\ lastMsReturned' = Frames[position]
        /\ f # NoFrame /\ position \in 1..Last
    BY <1>1, <1>3, ClipIsNat DEF GetNext, Inv, TypeOK
  <2>2. index'[f] = position /\ f \notin held
    BY <2>1, <1>1, NoFrameAssumption DEF CreateFrame, Inv, TypeOK, Owned
  <2>3. held' = held \cup {f} /\ shown' = position
    BY <2>1, <2>2 DEF Deliver
  <2> QED
    BY <1>1, <2>1, <2>2, <2>3 DEF Got, LastMs
<1>4. CASE nextFrame = NoFrame /\ position > Last
  <2>1. /\ f = NoFrame /\ UNCHANGED <<lastMsReturned, nextFrame, index, held, shown>>
    BY <1>4, ClipIsNat DEF GetNext, Deliver, heap, Inv, TypeOK
  <2>2. /\ \A i \in 1..Last : Frames[i] # -1
        /\ \A i \in 2..Last : i - 1 \in 1..Last
    BY ClipIsNat
  <2>3. lastMsReturned = -1 => shown \in {0, Unknown}
    BY <1>1, <1>4, <2>2 DEF LastMs
  <2> QED
    BY <1>1, <1>4, <2>1, <2>3 DEF Got, LastMs
<1> QED
  BY <1>2, <1>3, <1>4, ClipIsNat DEF Inv, TypeOK

\* What a search that ends does.
LEMMA ReturnAnswers ==
  ASSUME Inv, NEW f \in {NoFrame, prevFrame, curFrame}, Return(f), index' = index,
         f = NoFrame => nextFrame' = NoFrame
  PROVE  /\ Got <=> f # NoFrame
         /\ Got => shown' \in 1..Last
         /\ ~Got => shown' = Unknown
         /\ LastMs'
<1>1. CASE f = NoFrame
  BY <1>1 DEF Return, Got, LastMs, Unknown
<1>2. CASE f # NoFrame
  <2>1. f \in ClipFrames /\ f \notin held /\ index[f] \in 1..Last
    BY <1>2 DEF Inv, TypeOK, Owned
  <2>2. held' = held \cup {f} /\ shown' = index[f] /\ lastMsReturned' = Frames[index[f]]
    BY <1>2 DEF Return, MsOf
  <2> QED
    BY <1>2, <2>1, <2>2, ClipIsNat DEF Got, LastMs
<1> QED
  BY <1>1, <1>2

LEMMA InitReaderInv == ReaderInit => ReaderInv
<1> SUFFICES ASSUME ReaderInit PROVE ReaderInv
  OBVIOUS
<1>1. Inv
  BY InitInv DEF ReaderInit
<1>2. Apart /\ Sequential /\ LastMs /\ PlaceIsKnown
  BY DEF ReaderInit, Init, Apart, Sequential, LastMs, PlaceIsKnown, NoReader
<1> QED
  BY <1>1, <1>2 DEF ReaderInv

\* A reader that is needed first and one that is needed later are not the same.
LEMMA SeqTaken ==
  ASSUME Apart, GetSeqReader
  PROVE  Apart' /\ seqReader' # NoReader
BY DEF Apart, GetSeqReader, Taken, Another, NoReader

LEMMA RandTaken ==
  ASSUME Apart, GetRandReader
  PROVE  Apart' /\ randReader' \notin {firstReader', seqReader}
BY DEF Apart, GetRandReader, Taken, Another, NoReader

\* A sequential call.
LEMMA SeqCall ==
  ASSUME ReaderInv, GetSeqReader, freed' = freed, pc' # "idle" => calling' \in {"prev", "seek"}
  PROVE  Apart' /\ Sequential'
<1>1. Apart' /\ seqReader' # NoReader /\ isOpen /\ isOpen' /\ ~freed
  BY SeqTaken DEF ReaderInv, GetSeqReader, MayCall
<1> QED
  BY <1>1 DEF Sequential

LEMMA NextFrameReads ==
  ASSUME ReaderInv, NextFrame
  PROVE  Apart' /\ Sequential' /\ LastMs' /\ PlaceIsKnown'
<1>1. /\ GetSeqReader /\ GetNextFrame /\ Answered("next", Got) /\ pc' = "idle" /\ freed' = freed
  BY DEF NextFrame, GetNextFrame, MayCall, search
<1>2. PICK f \in ClipFrames \cup {NoFrame} : GetNext(f) /\ Deliver(f)
  BY <1>1 DEF GetNextFrame
<1>3. MayCall /\ UNCHANGED <<freed, destroyed, search>>
  BY <1>1 DEF GetNextFrame
<1>4. LastMs' /\ (Got => shown' \in 1..Last)
  BY <1>2, <1>3, NextAnswers DEF ReaderInv
<1>5. prevMs' = (IF Got THEN Frames[shown'] ELSE -1) /\ (~Got => isDone')
  BY <1>1 DEF Answered
<1>6. \A i \in 1..Last : Frames[i] # -1
  BY ClipIsNat
<1>7. PlaceIsKnown'
  BY <1>4, <1>5, <1>6 DEF PlaceIsKnown
<1> QED
  BY <1>1, <1>4, <1>7, SeqCall

LEMMA OffsetReads ==
  ASSUME ReaderInv, NextFrameOffset
  PROVE  Apart' /\ Sequential' /\ LastMs' /\ PlaceIsKnown'
<1>1. /\ GetSeqReader /\ GetNextFrameOffset /\ UNCHANGED <<calling, prevMs, isDone>>
      /\ pc = "idle" /\ pc' = "idle" /\ freed' = freed /\ shown' = shown /\ isOpen
  BY DEF NextFrameOffset, GetSeqReader, GetNextFrameOffset, MayCall, search, client
<1>2. PlaceIsKnown'
  BY <1>1 DEF PlaceIsKnown, ReaderInv
<1>3. CASE position <= Last
  <2>1. PICK f \in ClipFrames \ live :
          /\ CreateFrame(f, position) /\ nextFrame' = f /\ lastMsReturned' = Frames[position]
    BY <1>1, <1>3 DEF GetNextFrameOffset
  <2>2. index'[f] = position /\ f # NoFrame
    BY <2>1, <1>3, NoFrameAssumption, ClipIsNat DEF CreateFrame, ReaderInv, Inv, TypeOK
  <2>3. LastMs'
    BY <2>1, <2>2 DEF LastMs
  <2> QED
    BY <1>1, <1>2, <2>3, SeqCall
<1>4. CASE ~(position <= Last)
  <2>1. UNCHANGED <<index, lastMsReturned, nextFrame>>
    BY <1>1, <1>4 DEF GetNextFrameOffset, heap
  <2>2. LastMs'
    BY <1>1, <2>1 DEF LastMs, ReaderInv
  <2> QED
    BY <1>1, <1>2, <2>2, SeqCall
<1> QED
  BY <1>3, <1>4

\* The start of a search for a time, and what it answers before the start of the clip.
LEMMA StartReads ==
  ASSUME ReaderInv, GetSeqReader, NEW c \in {"prev", "seek"}, NEW d, NEW t \in Int,
         StartSearch(d, t), Searches(c)
  PROVE  Apart' /\ Sequential' /\ LastMs' /\ PlaceIsKnown'
<1>1. MayCall /\ pc = "idle" /\ freed' = freed /\ held' = held /\ isOpen'
  BY DEF GetSeqReader, MayCall, StartSearch
<1>2. CASE t < 0
  <2>1. pc' = "idle" /\ lastMsReturned' = -1 /\ shown' = Unknown /\ nextFrame' = NoFrame
    BY <1>1, <1>2 DEF StartSearch, search
  <2>2. prevMs' = -1
    BY <1>1, <2>1 DEF Searches, Answered, Got
  <2> QED
    BY <1>1, <2>1, <2>2, SeqCall DEF LastMs, PlaceIsKnown
<1>3. CASE ~(t < 0)
  <2>1. pc' = "seek" /\ calling' = c
    BY <1>3 DEF StartSearch, Searches
  <2> QED
    BY <1>1, <2>1, SeqCall DEF LastMs, PlaceIsKnown
<1> QED
  BY <1>2, <1>3

LEMMA PrevReads ==
  ASSUME ReaderInv, PrevFrame
  PROVE  Apart' /\ Sequential' /\ LastMs' /\ PlaceIsKnown'
<1>1. /\ GetSeqReader /\ Searches("prev") /\ isOpen /\ pc = "idle" /\ ~freed /\ MayCall
  BY DEF PrevFrame, GetSeqReader, MayCall
<1>2. \A i \in 1..Last : Frames[i] # -1
  BY ClipIsNat
<1>3. CASE lastMsReturned = 0
  <2>1. UNCHANGED vars
    BY <1>3 DEF PrevFrame
  <2>2. UNCHANGED <<pc, shown, freed, lastMsReturned, nextFrame, index, held>>
    BY <2>1 DEF vars, heap, stream, search, client
  <2>3. prevMs' = -1
    BY <1>1, <2>2 DEF Searches, Answered, Got
  <2>4. LastMs'
    BY <2>2 DEF LastMs, ReaderInv
  <2>5. \A i \in 1..Last : Frames[i] = 0 => i = 1
    BY ClipGrows, ClipIsNat
  <2>6. shown \in {0, Unknown} \/ (Frames[1] = 0 /\ shown \in {1, 2})
    <3>1. CASE shown \in 1..Last /\ lastMsReturned = Frames[shown]
      BY <1>3, <2>5, <3>1
    <3>3. CASE shown \in 2..Last /\ lastMsReturned = Frames[shown - 1]
      <4>1. shown - 1 \in 1..Last
        BY <3>3, ClipIsNat
      <4>2. shown - 1 = 1 /\ Frames[1] = 0
        BY <1>3, <2>5, <3>3, <4>1
      <4> QED
        BY <3>3, <4>2, ClipIsNat
    <3>2. CASE nextFrame # NoFrame /\ lastMsReturned = Frames[index[nextFrame]]
      <4>1. index[nextFrame] \in 1..Last
        BY <3>2 DEF ReaderInv, Inv, TypeOK
      <4>2. index[nextFrame] = 1
        BY <1>3, <2>5, <3>2, <4>1
      <4>3. shown # Unknown => 1 = shown + 1
        BY <3>2, <4>2 DEF ReaderInv, Inv, Cursor
      <4>4. shown \in Int
        BY ClipIsNat DEF ReaderInv, Inv, TypeOK
      <4> QED
        BY <4>3, <4>4
    <3> QED
      BY <1>1, <1>3, <3>1, <3>2, <3>3 DEF ReaderInv, LastMs
  <2>7. Apart' /\ Sequential'
    BY <1>1, <2>2, SeqCall
  <2> QED
    BY <2>2, <2>3, <2>4, <2>6, <2>7 DEF PlaceIsKnown
<1>4. CASE GetFirstFrame
  <2>1. PICK f \in ClipFrames \cup {NoFrame} : GetNext(f) /\ Deliver(f)
    BY <1>4 DEF GetFirstFrame
  <2>2. UNCHANGED <<freed, destroyed, search>> /\ lastMsReturned = -1 /\ pc' = "idle" /\ freed' = freed
    BY <1>1, <1>4 DEF GetFirstFrame, search
  <2>3. /\ LastMs' /\ (Got => shown' \in 1..Last) /\ (~Got => shown' \in {0, Unknown})
    BY <1>1, <2>1, <2>2, NextAnswers DEF ReaderInv
  <2>4. prevMs' = IF Got THEN Frames[shown'] ELSE -1
    BY <1>1, <2>2 DEF Searches, Answered
  <2>5. PlaceIsKnown'
    BY <1>2, <2>3, <2>4 DEF PlaceIsKnown
  <2> QED
    BY <1>1, <2>2, <2>3, <2>5, SeqCall
<1>5. CASE GetPrevFrame
  <2>1. StartSearch("prev", lastMsReturned - 1) /\ lastMsReturned - 1 \in Int
    BY <1>5 DEF GetPrevFrame, ReaderInv, Inv, TypeOK
  <2> QED
    BY <1>1, <2>1, StartReads
<1> QED
  BY <1>3, <1>4, <1>5 DEF PrevFrame

\* A step of a search.
LEMMA SearchReads ==
  ASSUME ReaderInv, SearchStep
  PROVE  Apart' /\ Sequential' /\ LastMs' /\ PlaceIsKnown'
<1>1. /\ Seek \/ SeekFails \/ Read \/ Judge
      /\ Searches(calling) /\ UNCHANGED <<isOpen, firstReader, seqReader, randReader>>
  BY DEF SearchStep
<1>2. pc # "idle" /\ freed' = freed
  BY <1>1 DEF Seek, SeekFails, Read, Judge, stream
<1>3. isOpen /\ isOpen' /\ ~freed /\ calling \in {"prev", "seek"} /\ seqReader # NoReader
  BY <1>1, <1>2 DEF ReaderInv, Sequential, Untouched
<1>4. Apart' /\ Sequential'
  BY <1>1, <1>2, <1>3 DEF Apart, Sequential, ReaderInv, Searches
<1>5. CASE pc' # "idle"
  BY <1>4, <1>5 DEF LastMs, PlaceIsKnown
<1>6. CASE pc' = "idle"
  <2>0. nextFrame = NoFrame
    BY <1>2 DEF ReaderInv, Inv, Owned
  <2>1. PICK f \in {NoFrame, prevFrame, curFrame} :
          Return(f) /\ index' = index /\ (f = NoFrame => nextFrame' = NoFrame)
    BY <1>1, <1>6, <2>0
       DEF Seek, SeekFails, Read, Judge, EndOfClip, ExactHit, StillBefore, PassedIt, StartedTooLate,
           SeekFurther, FreeFrame, heap
  <2>2. LastMs' /\ (Got => shown' \in 1..Last) /\ (~Got => shown' = Unknown)
    BY <2>1, ReturnAnswers DEF ReaderInv
  <2>3. prevMs' = IF Got THEN Frames[shown'] ELSE -1
    BY <1>1, <1>3, <1>6 DEF Searches, Answered
  <2>4. \A i \in 1..Last : Frames[i] # -1
    BY ClipIsNat
  <2> QED
    BY <1>4, <2>2, <2>3, <2>4 DEF PlaceIsKnown
<1> QED
  BY <1>5, <1>6

\* Another clip: its stream owns nothing yet.
LEMMA OpenReads ==
  ASSUME ReaderInv, Open
  PROVE  ReaderInv'
<1>1. /\ ~isOpen /\ held = {} /\ nextFrame = NoFrame /\ pc = "idle"
      /\ prevFrame = NoFrame /\ curFrame = NoFrame /\ live = {} /\ prevMs = -1
      /\ seqReader = NoReader /\ randReader = NoReader
  BY DEF Open, ReaderInv, Sequential, Inv, Owned
<1>2. FreshStream /\ UNCHANGED <<live, search, held, prevMs, seqReader, randReader>> /\ isOpen'
  BY DEF Open, FreshStream
<1>3. TypeOK'
  <2>1. 1 \in 1..Last /\ 1 \in 1..(Last + 1) /\ 0 \in -1..Last
    BY ClipIsNat
  <2>2. index' \in [ClipFrames -> 1..Last]
    BY <1>2, <2>1 DEF FreshStream
  <2> QED
    BY <1>2, <2>1, <2>2 DEF FreshStream, TypeOK, search, ReaderInv, Inv
<1>4. Owned' /\ Counted'
  <2>1. Owned'
    BY <1>1, <1>2 DEF FreshStream, Owned, search
  <2>2. Counted'
    BY <1>1, <1>2, FS_EmptySet DEF FreshStream, Counted, ReleasedWithLastFrame
  <2> QED
    BY <2>1, <2>2
<1>5. Searching' /\ Cursor'
  BY <1>1, <1>2 DEF FreshStream, Searching, Cursor, search
<1>6. Apart' /\ Sequential' /\ LastMs' /\ PlaceIsKnown'
  BY <1>1, <1>2 DEF Open, OpenedReader, FreshStream, Apart, Sequential, Untouched, LastMs,
                    PlaceIsKnown, search, NoReader
<1> QED
  BY <1>3, <1>4, <1>5, <1>6 DEF ReaderInv, Inv

LEMMA CloseReads ==
  ASSUME ReaderInv, Close
  PROVE  Apart' /\ Sequential' /\ LastMs' /\ PlaceIsKnown'
<1>1. /\ isOpen /\ pc = "idle" /\ ~isOpen' /\ prevMs' = -1
      /\ firstReader' = NoReader /\ seqReader' = NoReader /\ randReader' = NoReader
  BY DEF Close, Reset
<1>2. CASE {firstReader, seqReader} = {NoReader}
  <2>1. UNCHANGED vars /\ seqReader = NoReader
    BY <1>2 DEF Close
  <2>2. UNCHANGED <<pc, freed, nextFrame, lastMsReturned, shown, index>>
    BY <2>1 DEF vars, heap, stream, search, client
  <2>3. nextFrame = NoFrame
    BY <1>1, <2>1 DEF ReaderInv, Sequential, Untouched
  <2> QED
    BY <1>1, <2>2, <2>3 DEF ReaderInv, Apart, Sequential, LastMs, PlaceIsKnown, NoReader
<1>3. CASE {firstReader, seqReader} # {NoReader}
  <2>1. FreeClipStream
    BY <1>3 DEF Close
  <2>2. nextFrame' = NoFrame /\ freed' /\ pc' = "idle"
    BY <1>1, <2>1 DEF FreeClipStream, search
  <2> QED
    BY <1>1, <2>2 DEF Apart, Sequential, LastMs, PlaceIsKnown, NoReader
<1> QED
  BY <1>2, <1>3

\* Frames picked at random and the list of offsets leave the stream alone.
LEMMA RandomReads ==
  ASSUME ReaderInv, GetMsList \/ \E t \in -1..MaxMs : GetFrameAtOffset(t)
  PROVE  UNCHANGED vars /\ Apart' /\ Sequential' /\ LastMs' /\ PlaceIsKnown'
<1>1. GetRandReader
  BY DEF GetMsList, GetFrameAtOffset
<1>2. Apart' /\ randReader' \notin {firstReader', seqReader}
  BY <1>1, RandTaken DEF ReaderInv
<1>3. UNCHANGED <<vars, calling, prevMs, isDone, isOpen, seqReader>>
  BY <1>1, <1>2 DEF GetMsList, GetFrameAtOffset, GetRandReader
<1>4. UNCHANGED <<position, pc, freed, nextFrame, lastMsReturned, shown, index, held>>
  BY <1>3 DEF vars, heap, stream, search, client
<1>5. isOpen
  BY <1>1 DEF GetRandReader
<1> QED
  BY <1>2, <1>3, <1>4, <1>5 DEF ReaderInv, Sequential, Untouched, LastMs, PlaceIsKnown

LEMMA ReaderStep ==
  ASSUME ReaderInv, [ReaderNext]_readerVars
  PROVE  ReaderInv'
<1>1. CASE UNCHANGED readerVars
  <2>1. UNCHANGED vars /\ UNCHANGED python
    BY <1>1 DEF readerVars
  <2>2. Inv'
    BY <2>1, StepInv DEF ReaderInv
  <2>3. UNCHANGED <<position, pc, freed, nextFrame, lastMsReturned, shown, index, held>>
    BY <2>1 DEF vars, heap, stream, search, client
  <2> QED
    BY <2>1, <2>2, <2>3 DEF ReaderInv, Apart, Sequential, Untouched, LastMs, PlaceIsKnown, python
<1>2. CASE Open
  BY <1>2, OpenReads
<1>3. CASE Close
  <2>1. [Next]_vars
    BY <1>3 DEF Close, Next
  <2> QED
    BY <1>3, <2>1, StepInv, CloseReads DEF ReaderInv
<1>4. CASE NextFrame
  <2>1. [Next]_vars
    BY <1>4 DEF NextFrame, Next
  <2> QED
    BY <1>4, <2>1, StepInv, NextFrameReads DEF ReaderInv
<1>5. CASE NextFrameOffset
  <2>1. [Next]_vars
    BY <1>5 DEF NextFrameOffset, Next
  <2> QED
    BY <1>5, <2>1, StepInv, OffsetReads DEF ReaderInv
<1>6. CASE PrevFrame
  <2>1. [Next]_vars
    BY <1>6 DEF PrevFrame, Next
  <2> QED
    BY <1>6, <2>1, StepInv, PrevReads DEF ReaderInv
<1>7. CASE SearchStep
  <2>1. [Next]_vars
    BY <1>7 DEF SearchStep, Next
  <2> QED
    BY <1>7, <2>1, StepInv, SearchReads DEF ReaderInv
<1>8. CASE MarkDone
  <2>1. UNCHANGED <<vars, isOpen, firstReader, seqReader, randReader, calling, prevMs>> /\ isDone'
    BY <1>8 DEF MarkDone
  <2>2. Inv'
    BY <2>1, StepInv DEF ReaderInv
  <2>3. UNCHANGED <<position, pc, freed, nextFrame, lastMsReturned, shown, index, held>>
    BY <2>1 DEF vars, heap, stream, search, client
  <2> QED
    BY <2>1, <2>2, <2>3 DEF ReaderInv, Apart, Sequential, Untouched, LastMs, PlaceIsKnown
<1>9. CASE GetMsList \/ \E t \in -1..MaxMs : GetFrameAtOffset(t)
  BY <1>9, RandomReads, StepInv DEF ReaderInv
<1>10. ASSUME NEW t \in -1..MaxMs, SeekTo(t)
       PROVE  ReaderInv'
  <2>1. [Next]_vars /\ GetSeqReader /\ StartSearch("at", t) /\ Searches("seek")
    BY <1>10 DEF SeekTo, GetFrameAt, Next
  <2>2. t \in Int
    BY BoundsAssumption
  <2> QED
    BY <2>1, <2>2, StepInv, StartReads DEF ReaderInv
<1>11. ASSUME NEW f \in ClipFrames, FreeFrameOf(f)
       PROVE  ReaderInv'
  <2>1. FreeClipFrame(f) /\ UNCHANGED python /\ [Next]_vars
    BY <1>11 DEF FreeFrameOf, Next
  <2>2. UNCHANGED <<position, pc, freed, nextFrame, lastMsReturned, shown, index>> /\ held # {}
    BY <2>1 DEF FreeClipFrame, FreeFrame, search
  <2>3. Inv'
    BY <2>1, StepInv DEF ReaderInv
  <2> QED
    BY <2>1, <2>2, <2>3 DEF ReaderInv, Apart, Sequential, Untouched, LastMs, PlaceIsKnown, python
<1> QED
  BY <1>1, <1>2, <1>3, <1>4, <1>5, <1>6, <1>7, <1>8, <1>9, <1>10, <1>11 DEF ReaderNext

LEMMA ReaderInvariance == ReaderSpec => []ReaderInv
BY InitReaderInv, ReaderStep, PTL DEF ReaderSpec

\* Whatever is picked at random in between, the sequential reader returns the frames of the
\* clip one after the other and knows the offset of the last one, in every clip.
THEOREM ReaderKeepsItsPlaceHolds == ReaderSpec => ReaderKeepsItsPlace
<1> DEFINE Place ==
      /\ PlaceIsKnown'
      /\ NextFrame /\ shown # Unknown =>
           /\ Got <=> shown < Last
           /\ Got => prevMs' = Frames[shown + 1]
<1>1. ASSUME ReaderInv, ReaderInv', NextFrame, shown # Unknown
      PROVE  (Got <=> shown < Last) /\ (Got => prevMs' = Frames[shown + 1])
  <2>1. GetNextFrame /\ Answered("next", Got) /\ isOpen
    BY <1>1 DEF NextFrame, GetSeqReader
  <2>2. PICK f \in ClipFrames \cup {NoFrame} : GetNext(f) /\ Deliver(f)
    BY <2>1 DEF GetNextFrame
  <2>3. MayCall /\ UNCHANGED <<freed, destroyed, search>>
    BY <2>1 DEF GetNextFrame
  <2>4. /\ Got <=> f # NoFrame
        /\ Got => prevMs' = Frames[shown']
    BY <1>1, <2>1, <2>2, <2>3, NextAnswers DEF ReaderInv, Answered
  <2>5. Inv /\ pc = "idle" /\ ~freed /\ shown \in 0..Last
    BY <1>1, <2>3, ClipIsNat DEF MayCall, ReaderInv, Inv, TypeOK, Unknown
  <2>6. CASE nextFrame # NoFrame
    <3>1. /\ f = nextFrame /\ f # NoFrame /\ index' = index
          /\ index[f] = shown + 1 /\ index[f] \in 1..Last
      BY <1>1, <2>2, <2>5, <2>6 DEF GetNext, heap, Inv, TypeOK, Cursor
    <3> QED
      BY <2>2, <2>4, <2>5, <3>1, ClipIsNat DEF Deliver
  <2>7. CASE nextFrame = NoFrame /\ position <= Last
    <3>1. f \in ClipFrames /\ f # NoFrame /\ CreateFrame(f, position) /\ position = shown + 1
      BY <1>1, <2>2, <2>5, <2>7, ClipIsNat, NoFrameAssumption DEF GetNext, Inv, TypeOK, Cursor
    <3>2. index'[f] = position
      BY <2>5, <2>7, <3>1 DEF CreateFrame, Inv, TypeOK
    <3> QED
      BY <2>2, <2>4, <2>5, <2>7, <3>1, <3>2, ClipIsNat DEF Deliver
  <2>8. CASE nextFrame = NoFrame /\ position > Last
    <3>1. f = NoFrame /\ position = shown + 1
      BY <1>1, <2>2, <2>5, <2>8, ClipIsNat DEF GetNext, Inv, TypeOK, Cursor
    <3> QED
      BY <2>4, <2>5, <2>8, <3>1, ClipIsNat
  <2> QED
    BY <2>5, <2>6, <2>7, <2>8, ClipIsNat DEF Inv, TypeOK
<1>2. ReaderInv /\ ReaderInv' => [Place]_readerVars
  BY <1>1 DEF ReaderInv
<1>3. ReaderSpec => [][Place]_readerVars
  BY <1>2, ReaderInvariance, PTL
<1> QED
  BY <1>3 DEF ReaderKeepsItsPlace

\* What is true of one clip reader stays true below the application's reader, which opens one
\* clip after the other on it.
THEOREM ReaderOwnsFrames == ReaderSpec => []FramesAreOwned
<1>1. Inv => FramesAreOwned
  <2> SUFFICES ASSUME Inv PROVE EveryFrameIsOwned /\ ReleasedWithLastFrame
    BY DEF FramesAreOwned
  <2> QED
    BY OwnedEveryFrame DEF Inv, Counted
<1>2. ReaderInv => Inv
  BY DEF ReaderInv
<1> QED
  BY <1>1, <1>2, ReaderInvariance, PTL

\* Searches of the application's reader find their frame, and it reads on from there.
THEOREM ReaderRightFrames == ReaderSpec => RightFrames
<1>1. ReaderInv /\ [ReaderNext]_readerVars => [Found]_vars
  <2> SUFFICES ASSUME ReaderInv, [ReaderNext]_readerVars PROVE [Found]_vars
    OBVIOUS
  <2>1. [Next]_vars \/ pc = "idle"
    <3>1. CASE UNCHANGED readerVars
      BY <3>1 DEF readerVars
    <3>2. CASE Open
      BY <3>2 DEF Open, ReaderInv, Sequential
    <3>3. CASE Close \/ \E f \in ClipFrames : FreeFrameOf(f)
      BY <3>3 DEF Close, FreeFrameOf, FreeClipFrame
    <3>4. CASE NextFrame \/ NextFrameOffset \/ PrevFrame \/ MarkDone
      BY <3>4 DEF NextFrame, NextFrameOffset, PrevFrame, MarkDone, GetSeqReader, MayCall
    <3>5. CASE SearchStep
      BY <3>5 DEF SearchStep, Next
    <3>6. CASE GetMsList \/ \E t \in -1..MaxMs : SeekTo(t) \/ GetFrameAtOffset(t)
      BY <3>6 DEF GetMsList, SeekTo, GetFrameAtOffset, GetSeqReader, GetRandReader, MayCall
    <3> QED
      BY <3>1, <3>2, <3>3, <3>4, <3>5, <3>6 DEF ReaderNext
  <2> QED
    BY <2>1, SearchFinds DEF ReaderInv, Found
<1>2. ReaderInv => Follows
  BY GetNextFollows DEF ReaderInv
<1>3. ReaderSpec => SearchFindsFrame
  BY <1>1, ReaderInvariance, PTL DEF ReaderSpec, SearchFindsFrame, Found
<1>4. ReaderSpec => NextFollows
  BY <1>2, ReaderInvariance, PTL DEF NextFollows, Follows
<1> QED
  BY <1>3, <1>4, PTL DEF RightFrames
=============================================================================
