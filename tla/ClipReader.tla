----------------------------- MODULE ClipReader -----------------------------
(***************************************************************************)
(* The application's reader of a clip (src/python/ClipReader.py), on top   *)
(* of src/python/FfMpegClipReader.py and the C API of ClipStream.  It      *)
(* opens one stream for the frames it steps through and another for those  *)
(* it picks at random, each when it is first needed; the stream that open  *)
(* opens becomes whichever is needed first.                                *)
(*                                                                         *)
(* The variables of ClipStream are those of the sequential reader's        *)
(* stream.  What the random reader's stream returns is kept nowhere, so    *)
(* nothing of it is modelled while the two are different streams.  prevMs  *)
(* and _readerPrevMs are always assigned together, so the seek that        *)
(* getNextFrame and getPrevFrame make where they differ never happens.  A  *)
(* reader that cannot be opened changes nothing: the call returns None,    *)
(* and the next one tries again.                                           *)
(***************************************************************************)
EXTENDS ClipStream

VARIABLES
  isOpen,       \* path is not None
  firstReader, seqReader, randReader,
  calling,      \* the call that waits for a search of the sequential reader's stream
  prevMs, isDone, msList

python     == <<isOpen, firstReader, seqReader, randReader, calling, prevMs, isDone, msList>>
readerVars == <<vars, python>>

NoReader == 0

\* _reset
Reset ==
  /\ isOpen' = FALSE /\ firstReader' = NoReader /\ seqReader' = NoReader /\ randReader' = NoReader
  /\ prevMs' = -1 /\ isDone' = FALSE /\ msList' = << >> /\ UNCHANGED calling

ReaderInit ==
  /\ Init
  /\ isOpen = FALSE /\ firstReader = NoReader /\ seqReader = NoReader /\ randReader = NoReader
  /\ calling = "none" /\ prevMs = -1 /\ isDone = FALSE /\ msList = << >>

\* open_clip
FreshStream ==
  /\ position' = 1 /\ nextFrame' = NoFrame /\ lastMsReturned' = -1 /\ outstandingFrames' = 0
  /\ freed' = FALSE /\ destroyed' = 0 /\ shown' = 0
  /\ index' = [f \in ClipFrames |-> 1] /\ UNCHANGED <<live, search, held>>

-----------------------------------------------------------------------------
\* FfMpegClipReader.open, which may fail
OpenedReader == {NoReader, 1}

\* open, on a reader that is closed and whose last clip's frames were freed.  The path is
\* kept even when the clip cannot be opened.
Open ==
  /\ ~isOpen /\ held = {} /\ FreshStream
  /\ isOpen' = TRUE /\ firstReader' \in OpenedReader
  /\ UNCHANGED <<seqReader, randReader, calling, prevMs, isDone, msList>>

\* _allocReader
Another == IF 1 \in {firstReader, seqReader, randReader} THEN 2 ELSE 1

\* _getSeqReader and _getRandReader: the first reader, if it is still there, or one more
Taken(reader) ==
  IF reader # NoReader THEN reader ELSE IF firstReader # NoReader THEN firstReader ELSE Another

GetSeqReader ==
  /\ isOpen /\ MayCall
  /\ seqReader' = Taken(seqReader)
  /\ firstReader' = IF seqReader = NoReader THEN NoReader ELSE firstReader
  /\ UNCHANGED <<isOpen, randReader>>

\* faulty: the first reader is also left for the other use, see ReaderKeepsItsPlace
GetRandReaderKeepsFirst ==
  /\ isOpen /\ MayCall
  /\ randReader' = Taken(randReader)
  /\ UNCHANGED <<isOpen, seqReader, firstReader>>

GetRandReader ==
  /\ isOpen /\ MayCall
  /\ randReader' = Taken(randReader)
  /\ firstReader' = IF randReader = NoReader THEN NoReader ELSE firstReader
  /\ UNCHANGED <<isOpen, seqReader>>

-----------------------------------------------------------------------------
(***************************************************************************)
(* The sequential calls.                                                   *)
(***************************************************************************)
Got == held' # held     \* the call returns a frame

\* what getNextFrame, getPrevFrame and seek do with the answer
Answered(c, got) ==
  /\ prevMs' = IF got THEN Frames[shown'] ELSE -1
  /\ isDone' = CASE c = "next" -> isDone \/ ~got
                 [] c = "prev" -> isDone /\ ~got
                 [] OTHER      -> isDone

NextFrame ==
  /\ GetSeqReader /\ GetNextFrame
  /\ Answered("next", Got)
  /\ UNCHANGED <<calling, msList>>

NextFrameOffset == GetSeqReader /\ GetNextFrameOffset /\ UNCHANGED <<calling, prevMs, isDone, msList>>

\* a search returns at once or goes on; what getFrameAt finds is only returned
Searches(c) ==
  /\ calling' = IF pc' = "idle" THEN "none" ELSE c
  /\ IF pc' = "idle" /\ c # "random" THEN Answered(c, Got) ELSE UNCHANGED <<prevMs, isDone>>
  /\ UNCHANGED msList

PrevFrame ==
  /\ GetSeqReader
  /\ IF lastMsReturned = 0 THEN UNCHANGED vars ELSE GetFirstFrame \/ GetPrevFrame
  /\ Searches("prev")

SeekTo(t) == GetSeqReader /\ GetFrameAt(t) /\ Searches("seek")

SearchStep ==
  /\ Seek \/ SeekFails \/ Read \/ Judge
  /\ Searches(calling)
  /\ UNCHANGED <<isOpen, firstReader, seqReader, randReader>>

MarkDone == isOpen /\ MayCall /\ isDone' = TRUE /\ UNCHANGED <<vars, isOpen, firstReader, seqReader, randReader, calling, prevMs, msList>>

-----------------------------------------------------------------------------
(***************************************************************************)
(* The random reader.                                                      *)
(***************************************************************************)
GetFrameAtOffset(t) ==
  /\ GetRandReader
  /\ IF randReader' \in {firstReader', seqReader}
       THEN GetFrameAt(t) /\ Searches("random")
       ELSE UNCHANGED <<vars, calling, prevMs, isDone, msList>>

\* get_ms_list2 opens the file once more, and returns nothing if that fails
ListOfMs == {<< >>, Frames}

GetMsList ==
  /\ msList = << >> /\ GetRandReader
  /\ msList' \in ListOfMs
  /\ UNCHANGED <<vars, calling, prevMs, isDone>>

\* close: the streams of all readers are freed
Close ==
  /\ isOpen /\ pc = "idle" /\ Reset
  /\ IF {firstReader, seqReader} = {NoReader} THEN UNCHANGED vars ELSE FreeClipStream

FreeFrameOf(f) == FreeClipFrame(f) /\ UNCHANGED python

ReaderNext ==
  \/ Open \/ Close
  \/ NextFrame \/ NextFrameOffset \/ PrevFrame \/ SearchStep \/ MarkDone \/ GetMsList
  \/ \E t \in -1..MaxMs : SeekTo(t) \/ GetFrameAtOffset(t)
  \/ \E f \in ClipFrames : FreeFrameOf(f)

\* a search runs on the caller's thread, so it does not stop between its steps
ReaderSpec == ReaderInit /\ [][ReaderNext]_readerVars /\ WF_readerVars(SearchStep)

-----------------------------------------------------------------------------
(***************************************************************************)
(* Properties.                                                             *)
(***************************************************************************)
\* prevMs is the offset of the frame that the sequential calls returned last, or -1 before the
\* first, after the end was passed and after a seek that failed.  At the start of a clip that
\* begins at 0, getPrevFrame returns nothing: at its first frame, and at its second one too
\* when a seek to the first had read it ahead (videolib.c:2682).
PlaceIsKnown ==
  isOpen /\ pc = "idle" =>
    IF prevMs = -1 THEN shown \in {0, Unknown} \/ isDone \/ (Frames[1] = 0 /\ shown \in {1, 2})
    ELSE shown \in 1..Last /\ prevMs = Frames[shown]

\* Frames picked at random, the list of offsets and offsets read ahead, in any order between
\* the sequential calls and before the first of them, leave the sequential reader where it
\* was: getNextFrame returns the frame after the one returned last, the first one at first,
\* and None only at the end of the clip.  The two uses never come to share a stream
\* (ClipReader.py:210-249, and the note at 394 that forbids to mix the calls on one).
ReaderKeepsItsPlace ==
  [][/\ PlaceIsKnown'
     /\ NextFrame /\ shown # Unknown =>
          /\ Got <=> shown < Last
          /\ Got => prevMs' = Frames[shown + 1]]_readerVars
=============================================================================
