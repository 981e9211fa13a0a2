----------------------------- MODULE ClipStream -----------------------------
(***************************************************************************)
(* The clip reader of the C API (src/videolib/videolib.c, ClipStream): a   *)
(* caller steps through the video frames of a file, jumps to an offset and *)
(* frees the frames and the reader in any order.  Calls on one reader come *)
(* from one thread.                                                        *)
(*                                                                         *)
(* A ClipFrame is an object the caller frees, so frames have an identity   *)
(* (ClipFrames) besides their place in the clip (index).  The loop of      *)
(* get_frame_at_or_before is unrolled into the steps Seek, Read and Judge. *)
(* The graph below the reader (demux and decoder) is reduced to the index  *)
(* of the frame its next read_frame delivers.                              *)
(***************************************************************************)
EXTENDS Integers, Sequences, FiniteSets

CONSTANTS
  Frames,      \* offsets (ms) of the clip's video frames
  ClipFrames,  \* the ClipFrame objects malloc can return
  NoFrame,     \* a NULL ClipFrame*
  FirstGoBack, \* goBackMs at the start of a search: 10, or 500 for keyframes only
  MaxMs,       \* bound: largest offset a caller asks for
  MaxHeld      \* bound: frames a caller keeps before it makes another call

Last == Len(Frames)

ASSUME FramesAssumption ==
  /\ Frames \in Seq(Nat) /\ Last > 0
  /\ \A i, j \in 1..Last : i < j => Frames[i] < Frames[j]
ASSUME BoundsAssumption == FirstGoBack \in Nat \ {0} /\ MaxMs \in Nat /\ MaxHeld \in Nat
ASSUME NoFrameAssumption == NoFrame \notin ClipFrames

VARIABLES
  position,         \* the frame the graph delivers next, Last + 1 at the end
  live,             \* ClipFrame objects that are allocated
  index,            \* frame->ms, as a place in Frames
  nextFrame,        \* stream->nextFrame, read ahead and not returned
  lastMsReturned,   \* stream->lastMsReturned
  outstandingFrames,\* stream->outstandingFrames
  freed,            \* stream->freed
  destroyed,        \* how often the ClipStream was released
  pc,               \* "idle", or the step of the search that runs
  call,             \* the call a search runs for
  ms, seekTo, goBackMs, prevFrame, curFrame, \* locals of get_frame_at_or_before
  held,             \* the frames the caller has and did not free
  shown             \* history: last frame handed out, Unknown after a failed search

stream == <<nextFrame, lastMsReturned, freed, destroyed>>
heap   == <<live, index, outstandingFrames>>
search == <<pc, call, ms, seekTo, goBackMs, prevFrame, curFrame>>
client == <<held, shown>>
vars   == <<position, heap, stream, search, client>>

Unknown == -1

\* milliseconds of a ClipFrame
MsOf(f) == Frames[index[f]]

\* i is the last frame at or before the offset t, 0 if there is none
AtOrBefore(t, i) ==
  \/ i = 0 /\ Frames[1] > t
  \/ i \in 1..Last /\ Frames[i] <= t /\ (i < Last => Frames[i + 1] > t)

(***************************************************************************)
(* The graph.  A backward, precise seek decodes from a keyframe up to the  *)
(* target and delivers the frame before it unless it hits it; a target     *)
(* past the last frame runs into the end of the file.                      *)
(***************************************************************************)
LandsOn(t, p) ==
  \/ p = Last + 1 /\ Frames[Last] < t
  \/ p = 1 /\ AtOrBefore(t, 0)
  \/ p \in 1..Last /\ AtOrBefore(t, p) /\ Frames[Last] >= t

(***************************************************************************)
(* Helpers of the C API                                                    *)
(***************************************************************************)

\* create_frame: a new object f for the frame at index i
CreateFrame(f, i) ==
  /\ live' = live \cup {f}
  /\ index' = [index EXCEPT ![f] = i]
  /\ outstandingFrames' = outstandingFrames + 1

\* free_clip_frame on a reader that is still open; NULL is accepted
FreeFrame(f) ==
  /\ live' = live \ {f}
  /\ outstandingFrames' = outstandingFrames - (IF f = NoFrame THEN 0 ELSE 1)
  /\ UNCHANGED index

\* get_next_frame returns f: the frame read ahead if there is one
GetNext(f) ==
  \/ /\ nextFrame # NoFrame
     /\ f = nextFrame
     /\ nextFrame' = NoFrame
     /\ UNCHANGED <<position, heap, lastMsReturned>>
  \/ /\ nextFrame = NoFrame
     /\ position <= Last
     /\ f \in ClipFrames \ live
     /\ CreateFrame(f, position)
     /\ position' = position + 1
     /\ lastMsReturned' = Frames[position]
     /\ UNCHANGED nextFrame
  \/ /\ nextFrame = NoFrame
     /\ position > Last
     /\ f = NoFrame
     /\ UNCHANGED <<position, heap, lastMsReturned, nextFrame>>

\* free_clip_stream_internal, with the outstanding frames left
FreeStreamInternal(isFreed, outstanding) ==
  destroyed' = IF isFreed /\ outstanding = 0 THEN destroyed + 1 ELSE destroyed

\* the caller receives f
Deliver(f) ==
  /\ held' = IF f = NoFrame THEN held ELSE held \cup {f}
  /\ shown' = IF f = NoFrame THEN shown ELSE index'[f]

MayCall == pc = "idle" /\ ~freed /\ Cardinality(held) < MaxHeld

Init ==
  /\ position = 1
  /\ live = {} /\ index = [f \in ClipFrames |-> 1]
  /\ nextFrame = NoFrame /\ lastMsReturned = -1 /\ outstandingFrames = 0
  /\ freed = FALSE /\ destroyed = 0
  /\ pc = "idle" /\ call = "none" /\ ms = 0 /\ seekTo = 0 /\ goBackMs = FirstGoBack
  /\ prevFrame = NoFrame /\ curFrame = NoFrame
  /\ held = {} /\ shown = 0

(***************************************************************************)
(* Calls                                                                   *)
(***************************************************************************)

GetNextFrame ==
  /\ MayCall
  /\ \E f \in ClipFrames \cup {NoFrame} : GetNext(f) /\ Deliver(f)
  /\ UNCHANGED <<freed, destroyed, search>>

\* get_next_frame_offset: read ahead unless a frame is read ahead already
GetNextFrameOffset ==
  /\ MayCall
  /\ nextFrame = NoFrame
  /\ \E f \in ClipFrames \cup {NoFrame} :
       \* the body of get_next_frame, whose result becomes nextFrame
       IF position <= Last
       THEN /\ f \in ClipFrames \ live /\ CreateFrame(f, position)
            /\ position' = position + 1
            /\ lastMsReturned' = Frames[position]
            /\ nextFrame' = f
       ELSE f = NoFrame /\ UNCHANGED <<position, heap, lastMsReturned, nextFrame>>
  /\ UNCHANGED <<freed, destroyed, search, client>>

\* get_frame_at_or_before: what happens before the first seek
StartSearch(c, t) ==
  /\ FreeFrame(nextFrame) /\ nextFrame' = NoFrame
  /\ IF t < 0
     THEN /\ lastMsReturned' = -1          \* the caller of the search sets it
          /\ shown' = Unknown
          /\ UNCHANGED search
     ELSE /\ pc' = "seek" /\ call' = c /\ ms' = t
          /\ UNCHANGED <<seekTo, goBackMs, prevFrame, curFrame, lastMsReturned, shown>>
  /\ UNCHANGED <<position, freed, destroyed, held>>

GetFrameAt(t) == MayCall /\ StartSearch("at", t)

\* get_prev_frame before anything was returned is get_next_frame
GetFirstFrame ==
  /\ MayCall /\ lastMsReturned = -1
  /\ \E f \in ClipFrames \cup {NoFrame} : GetNext(f) /\ Deliver(f)
  /\ UNCHANGED <<freed, destroyed, search>>

\* get_prev_frame; at offset 0 it returns NULL and changes nothing
GetPrevFrame ==
  /\ MayCall /\ lastMsReturned > 0
  /\ StartSearch("prev", lastMsReturned - 1)

(***************************************************************************)
(* The search loop                                                         *)
(***************************************************************************)

SeekTarget == IF ms > goBackMs THEN ms - goBackMs ELSE 0

Seek ==
  /\ pc = "seek"
  /\ seekTo' = SeekTarget
  /\ \E p \in 1..(Last + 1) : LandsOn(SeekTarget, p) /\ position' = p
  /\ pc' = "read"
  /\ UNCHANGED <<heap, stream, call, ms, goBackMs, prevFrame, curFrame, client>>

Read ==
  /\ pc = "read"
  /\ \E f \in ClipFrames \cup {NoFrame} : GetNext(f) /\ curFrame' = f
  /\ pc' = "judge"
  /\ UNCHANGED <<freed, destroyed, call, ms, seekTo, goBackMs, prevFrame, client>>

\* the search ends with f, and get_prev_frame or get_frame_at return it; the
\* locals go out of scope
Return(f) ==
  /\ pc' = "idle" /\ call' = "none"
  /\ ms' = 0 /\ seekTo' = 0 /\ goBackMs' = FirstGoBack
  /\ lastMsReturned' = IF f = NoFrame THEN -1 ELSE MsOf(f)
  /\ held' = IF f = NoFrame THEN held ELSE held \cup {f}
  /\ shown' = IF f = NoFrame THEN Unknown ELSE index[f]
  /\ prevFrame' = NoFrame /\ curFrame' = NoFrame

\* faulty: the step back does not grow
SeekAgain ==
  /\ pc' = "seek"
  /\ prevFrame' = NoFrame /\ curFrame' = NoFrame
  /\ UNCHANGED <<lastMsReturned, call, ms, seekTo, goBackMs, client>>

\* the graph refuses the seek: the search ends with NULL
SeekFails ==
  /\ pc = "seek"
  /\ Return(NoFrame)
  /\ UNCHANGED <<position, heap, nextFrame, freed, destroyed>>

\* the loop goes on: from the seek with a larger step back, or with a read
SeekFurther ==
  /\ pc' = "seek" /\ goBackMs' = 2 * goBackMs
  /\ prevFrame' = NoFrame /\ curFrame' = NoFrame
  /\ UNCHANGED <<lastMsReturned, call, ms, seekTo, client>>

EndOfClip ==
  /\ curFrame = NoFrame
  /\ IF prevFrame # NoFrame THEN Return(prevFrame)
     ELSE IF seekTo = 0 THEN Return(NoFrame) ELSE SeekFurther
  /\ UNCHANGED <<heap, nextFrame>>

\* faulty: prevFrame is not freed
ExactHitKeepsPrev ==
  /\ curFrame # NoFrame /\ MsOf(curFrame) = ms
  /\ Return(curFrame)
  /\ UNCHANGED <<heap, nextFrame>>

ExactHit ==
  /\ curFrame # NoFrame /\ MsOf(curFrame) = ms
  /\ FreeFrame(prevFrame) /\ Return(curFrame)
  /\ UNCHANGED nextFrame

StillBefore ==
  /\ curFrame # NoFrame /\ MsOf(curFrame) < ms
  /\ FreeFrame(prevFrame)
  /\ prevFrame' = curFrame /\ curFrame' = NoFrame
  /\ pc' = "read"
  /\ UNCHANGED <<nextFrame, lastMsReturned, call, ms, seekTo, goBackMs, client>>

\* faulty: the frame past the target is freed and not read ahead
PassedItDrops ==
  /\ curFrame # NoFrame /\ MsOf(curFrame) > ms /\ prevFrame # NoFrame
  /\ FreeFrame(curFrame)
  /\ Return(prevFrame)
  /\ UNCHANGED nextFrame

PassedIt ==
  /\ curFrame # NoFrame /\ MsOf(curFrame) > ms /\ prevFrame # NoFrame
  /\ nextFrame' = curFrame
  /\ Return(prevFrame)
  /\ UNCHANGED heap

StartedTooLate ==
  /\ curFrame # NoFrame /\ MsOf(curFrame) > ms /\ prevFrame = NoFrame
  /\ FreeFrame(curFrame)
  /\ IF seekTo > 0 THEN SeekFurther ELSE Return(NoFrame)
  /\ UNCHANGED nextFrame

Judge ==
  /\ pc = "judge"
  /\ EndOfClip \/ ExactHit \/ StillBefore \/ PassedIt \/ StartedTooLate
  /\ UNCHANGED <<position, freed, destroyed>>

(***************************************************************************)
(* Lifetimes                                                               *)
(***************************************************************************)

\* free_clip_frame by the caller, before or after free_clip_stream
FreeClipFrame(f) ==
  /\ pc = "idle" /\ f \in held
  /\ FreeFrame(f)
  /\ held' = held \ {f}
  /\ FreeStreamInternal(freed, outstandingFrames - 1)
  /\ UNCHANGED <<position, nextFrame, lastMsReturned, freed, search, shown>>

\* free_clip_stream: nextFrame goes first, while freed is still 0
FreeClipStream ==
  /\ pc = "idle" /\ ~freed
  /\ FreeFrame(nextFrame) /\ nextFrame' = NoFrame
  /\ freed' = TRUE
  /\ FreeStreamInternal(TRUE, outstandingFrames - (IF nextFrame = NoFrame THEN 0 ELSE 1))
  /\ UNCHANGED <<position, lastMsReturned, search, client>>

Next ==
  \/ GetNextFrame
  \/ GetNextFrameOffset
  \/ GetFirstFrame
  \/ GetPrevFrame
  \/ \E t \in -1..MaxMs : GetFrameAt(t)
  \/ Seek
  \/ SeekFails
  \/ Read
  \/ Judge
  \/ \E f \in ClipFrames : FreeClipFrame(f)
  \/ FreeClipStream

Spec == Init /\ [][Next]_vars

(***************************************************************************)
(* Properties                                                              *)
(***************************************************************************)
TypeOK ==
  /\ position \in 1..(Last + 1)
  /\ live \subseteq ClipFrames
  /\ index \in [ClipFrames -> 1..Last]
  /\ {nextFrame, prevFrame, curFrame} \subseteq ClipFrames \cup {NoFrame}
  /\ lastMsReturned \in Nat \cup {-1}
  /\ outstandingFrames \in Nat
  /\ freed \in BOOLEAN /\ destroyed \in Nat
  /\ pc \in {"idle", "seek", "read", "judge"} /\ call \in {"none", "at", "prev"}
  /\ ms \in Nat /\ seekTo \in Nat /\ goBackMs \in Nat \ {0}
  /\ held \subseteq ClipFrames
  /\ shown \in -1..Last

\* Every ClipFrame that is allocated is either the caller's or referenced by the
\* reader, by one of them only, and outstandingFrames counts them: no path of the
\* search leaks a frame or frees one that is still in use (videolib.c:2583-2668).
EveryFrameIsOwned ==
  /\ live = (held \cup {nextFrame, prevFrame, curFrame}) \ {NoFrame}
  /\ Cardinality(live) = outstandingFrames
  /\ {nextFrame, prevFrame, curFrame} \cap held = {}
  /\ \A f \in {<<nextFrame, prevFrame>>, <<nextFrame, curFrame>>, <<prevFrame, curFrame>>} :
       f[1] = f[2] => f[1] = NoFrame

\* free_clip_stream only marks the reader while the caller has frames, and the last
\* free_clip_frame releases it: exactly once, and as soon as nothing refers to it.
ReleasedWithLastFrame == destroyed = IF freed /\ held = {} THEN 1 ELSE 0

\* No sequence of calls leaks a frame or the reader, or frees either twice, although frames
\* outlive the reader (videolib.c:2504-2530 and 2583-2668).
FramesAreOwned == EveryFrameIsOwned /\ ReleasedWithLastFrame

\* get_frame_at and get_prev_frame end with the last frame at or before the offset
\* they search, or with NULL when the clip has none: what get_frame_at_or_before is named
\* for (videolib.c:2583); what the callers document is another frame, see ClosestFrame.
SearchFindsFrame ==
  [][pc = "judge" /\ pc' = "idle" =>
       AtOrBefore(ms, IF shown' = Unknown THEN 0 ELSE shown')]_vars

\* get_next_frame returns the frame after the one the last call returned, whichever
\* call that was and whatever was read ahead in between (videolib.c:2540).
NextFollows ==
  [][GetNextFrame /\ shown # Unknown =>
       shown' = IF shown < Last THEN shown + 1 ELSE shown]_vars

\* Whatever calls came before, and whatever they read ahead or stepped back over, a search
\* returns the frame shown at its time and get_next_frame the one after the last.
RightFrames == SearchFindsFrame /\ NextFollows

\* What get_frame_at says of itself: the frame closest to the offset (videolib.c:2710,
\* videolib.h:427, ClipReader.py:375).  It is not so when a later frame is nearer.
Distance(i) == IF Frames[i] > ms THEN Frames[i] - ms ELSE ms - Frames[i]
ClosestFrame ==
  [][call = "at" /\ pc = "judge" /\ pc' = "idle" /\ shown' # Unknown =>
       \A i \in 1..Last : Distance(shown') <= Distance(i)]_vars

\* A frame that was read ahead is the one the next call returns, so
\* get_next_frame_offset tells the offset of the next frame (videolib.c:2699).
ReadAheadIsNext ==
  nextFrame # NoFrame /\ shown # Unknown => index[nextFrame] = shown + 1

\* A search ends: stepping back reaches offset 0 (videolib.c:2601-2664).
CallsReturn == pc # "idle" ~> pc = "idle"
=============================================================================
