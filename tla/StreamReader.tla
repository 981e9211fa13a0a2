---------------------------- MODULE StreamReader ----------------------------
(***************************************************************************)
(* The application's reader of a camera (src/python/StreamReader.py) on    *)
(* top of the recorded stream: it reads frames, notices by their file name *)
(* that the recorder has begun another file, and then has a thread of its  *)
(* own move the file that is complete out of the recorder's directory, and *)
(* adds it to the database of clips.                                       *)
(*                                                                         *)
(* getNewFrame and close are unrolled into the steps between which the     *)
(* mover's thread and the recorder can run: call is the reader's place.    *)
(***************************************************************************)
EXTENDS Recording

VARIABLES
  call,         \* "idle"; in getNewFrame "read", "frame", "finalize"; in close "flush",
                \* "free", "last", "terminate"; and "closed"
  cur,          \* _curFilename, _curStartMs and _curLastMs, with the file before, _prevFilename
  mover,        \* _moverThread: the clip it has copied from the owner, and whether it is alive
  database,     \* the clips that were added
  storage,      \* the files that were moved, with what was saved if it was kept in memory
  moveFailed,   \* the files moveFailedCallback was called with
  served        \* history: the frames the library has returned

reader     == <<call, cur, mover, database, storage, moveFailed, served>>
readerVars == <<vars, reader>>

Clip == [name : Nat \cup {None}, start : Nat, last : Nat, prev : Nat \cup {None}]
ASSUME ReaderAssumption == None \notin [clip : Clip, alive : BOOLEAN]
NoClip == [name |-> None, start |-> 0, last |-> 0, prev |-> None]

ReaderInit ==
  /\ Init
  /\ call = "idle" /\ cur = NoClip /\ mover = None
  /\ database = << >> /\ storage = << >> /\ moveFailed = {} /\ served = << >>

-----------------------------------------------------------------------------
(***************************************************************************)
(* The mover's thread.                                                     *)
(***************************************************************************)
Moving == Known(mover) /\ mover.alive
Stopped == mover' = [mover EXCEPT !.alive = FALSE]

\* ffmpeg_flush_buffered_io: the file is gone from memory whether it can be saved or not
SaveFromMemory(f) ==
  /\ recordInRAM
  /\ closedFiles' = [g \in DOMAIN closedFiles \ {f} |-> closedFiles[g]]
  /\ \/ /\ f \in DOMAIN closedFiles /\ ~closedFiles[f].invalid
        /\ storage' = Filed(storage, f, Saved(closedFiles[f]))
        /\ UNCHANGED <<moveFailed, failures>>
     \/ /\ IF f \in DOMAIN closedFiles /\ ~closedFiles[f].invalid THEN Fails ELSE UNCHANGED failures
        /\ moveFailed' = moveFailed \cup {f}
        /\ UNCHANGED storage

\* shutil.move
MoveOnDisk(f) ==
  /\ ~recordInRAM
  /\ \/ storage' = Filed(storage, f, << >>) /\ UNCHANGED <<moveFailed, failures>>
     \/ Fails /\ moveFailed' = moveFailed \cup {f} /\ UNCHANGED storage
  /\ UNCHANGED closedFiles

Move ==
  /\ Moving /\ Stopped
  /\ SaveFromMemory(mover.clip.name) \/ MoveOnDisk(mover.clip.name)
  /\ UNCHANGED <<call, cur, database, served, ppc, splitter, encoder, packet, uri, outputInitialized,
                 savedFrames, firstPts, lastVideoPts, videoPackets, audioPackets, recordInRAM, buffer,
                 newFileRequested, criticalError, parameters, queue, fileContexts, source, framesRead,
                 requests, history>>

\* _finalizeMoverThread once the thread has ended; adding the clip is the owner's
Finished == IF Known(mover) THEN <<mover.clip>> ELSE << >>

\* faulty: a mover that still runs is forgotten, see ClipsAreFound
AddFileToDbAtOnce ==
  IF cur = NoClip
    THEN UNCHANGED <<mover, database>>
    ELSE /\ database' = IF Moving THEN database ELSE database \o Finished
         /\ mover' = [clip |-> cur, alive |-> TRUE]

\* _addFileToDb waits for the mover of the file before
AddFileToDb ==
  IF cur = NoClip
    THEN UNCHANGED <<mover, database>>
    ELSE /\ ~Moving
         /\ database' = database \o Finished
         /\ mover' = [clip |-> cur, alive |-> TRUE]

-----------------------------------------------------------------------------
(***************************************************************************)
(* getNewFrame: a read of the library, the file's name, and a look at the  *)
(* mover.                                                                  *)
(***************************************************************************)
GetNewFrame ==
  /\ call = "idle" /\ BeginRead
  /\ call' = "read"
  /\ UNCHANGED <<cur, mover, database, storage, moveFailed, served>>

LibraryReads ==
  /\ LearnDelay \/ DropEarly \/ NextFile \/ NothingSettled \/ ReadVideo \/ ReadAudio
  /\ UNCHANGED reader

FrameRead ==
  /\ ReturnFrame
  /\ call' = "frame"
  /\ served' = Append(served, returned')
  /\ UNCHANGED <<cur, mover, database, storage, moveFailed>>

\* get_new_frame has returned nothing, and is_running 0
StreamStops ==
  /\ ReadEnds
  /\ call' = "flush"
  /\ UNCHANGED <<cur, mover, database, storage, moveFailed, served>>

HandleFrame ==
  /\ call = "frame" /\ call' = "finalize"
  /\ IF returned.name = cur.name
       THEN cur' = [cur EXCEPT !.last = returned.pts] /\ UNCHANGED <<mover, database>>
       ELSE /\ AddFileToDb
            /\ cur' = [name |-> returned.name, start |-> returned.pts, last |-> returned.pts,
                       prev |-> cur.name]
  /\ UNCHANGED <<vars, storage, moveFailed, served>>

FinalizeMover ==
  /\ call = "finalize" /\ call' = "idle"
  /\ IF Moving THEN UNCHANGED <<mover, database>>
     ELSE database' = database \o Finished /\ mover' = None
  /\ UNCHANGED <<vars, cur, storage, moveFailed, served>>

-----------------------------------------------------------------------------
(***************************************************************************)
(* close, which getNewFrame calls as well when the stream has stopped.     *)
(***************************************************************************)
CloseReader ==
  /\ call = "idle" /\ call' = "flush"
  /\ UNCHANGED <<vars, cur, mover, database, storage, moveFailed, served>>

\* flush_output: the recorder may rotate before the graph is closed
Flush ==
  /\ call = "flush" /\ call' = "free"
  /\ newFileRequested' = TRUE
  /\ UNCHANGED <<ppc, splitter, encoder, packet, file, criticalError, parameters, queue, fileContexts,
                 counters, history, cur, mover, database, storage, moveFailed, served>>

CloseGraph == call = "free" /\ FlushSubgraph /\ UNCHANGED reader
FreeStreamData ==
  /\ call = "free" /\ Close
  /\ call' = "last"
  /\ UNCHANGED <<cur, mover, database, storage, moveFailed, served>>

AddLastFile ==
  /\ call = "last" /\ call' = "terminate"
  /\ AddFileToDb
  /\ UNCHANGED <<vars, cur, storage, moveFailed, served>>

TerminateMover ==
  /\ call = "terminate" /\ ~Moving
  /\ database' = database \o Finished /\ mover' = None
  /\ call' = "closed"
  /\ UNCHANGED <<vars, cur, storage, moveFailed, served>>

Closed == call = "closed" /\ UNCHANGED readerVars

ReaderNext ==
  \/ (Producer \/ RequestNewFile) /\ UNCHANGED reader
  \/ Move
  \/ GetNewFrame \/ LibraryReads \/ FrameRead \/ StreamStops \/ HandleFrame \/ FinalizeMover
  \/ CloseReader \/ Flush \/ CloseGraph \/ FreeStreamData \/ AddLastFile \/ TerminateMover \/ Closed

ReaderSpec == ReaderInit /\ [][ReaderNext]_readerVars

-----------------------------------------------------------------------------
\* the clips, from the first, that were added, are moved or are being read
Clips == database \o Finished \o (IF cur = NoClip \/ call \in {"terminate", "closed"} THEN << >> ELSE <<cur>>)
NamesIn(s) == {s[i].name : i \in DOMAIN s}
\* the k-th frame in s is the first, or the last, of clip c
Begins(c, s, k) == s[k] = [pts |-> c.start, name |-> c.name] /\ \A j \in 1..(k - 1) : s[j].name # c.name
Ends(c, s, k) == s[k] = [pts |-> c.last, name |-> c.name] /\ \A j \in (k + 1)..Len(s) : s[j].name # c.name

\* Each file the application has had a frame of is one clip, in the order of the files, with
\* the times of its first and last frame and the name of the file before it, whenever the
\* mover's thread runs and however the reader is closed (StreamReader.py:624-636, 680-693).
EveryFileIsOneClip ==
  call # "frame" =>
    /\ NamesIn(Clips) = NamesIn(served)
    /\ \A i \in DOMAIN Clips :
         /\ \E k \in DOMAIN served : Begins(Clips[i], served, k)
         /\ \E k \in DOMAIN served : Ends(Clips[i], served, k)
         /\ Clips[i].prev = IF i = 1 THEN None ELSE Clips[i - 1].name
         /\ i > 1 => Clips[i - 1].last < Clips[i].start

\* A file is moved only when the recorder has closed it, although the recorder works ahead
\* of the frames by which the reader tells; and when the clip is in the database, the file
\* is in its place or was reported (StreamReader.py:575-602).
MovedWhenClosed ==
  /\ Moving => /\ ~(outputInitialized /\ uri = mover.clip.name)
               /\ recordInRAM => mover.clip.name \in DOMAIN closedFiles
  /\ NamesIn(database) \subseteq DOMAIN storage \cup moveFailed

\* Together: each file the application was shown is one clip, of a file that is complete.
ClipsAreFound == EveryFileIsOneClip /\ MovedWhenClosed

\* What is saved of a file kept in memory is what the muxer wrote, its header rewritten by the
\* trailer, whatever the places at which buffers end (buffered_file.cpp:155-246); unless the
\* file fills its last buffer, which is then not saved at all (buffered_file.cpp:266).
Contents(f) == <<"completed">> \o FlattenSeq([i \in DOMAIN WrittenTo(f) |-> Units(WrittenTo(f)[i].frame)])
               \o <<"index">>
SavedAsWritten ==
  recordInRAM =>
    \A f \in DOMAIN storage :
      Len(Contents(f)) % BufferSize # 0 => storage[f] = Contents(f)
=============================================================================
