--------------------------- MODULE ThreadConnector ---------------------------
(***************************************************************************)
(* The thread connector (src/videolib/stream_thread_connector.cpp): a      *)
(* producer thread reads frames from the upstream element and deposits     *)
(* them into a bounded queue; callers take them out with read_frame, move  *)
(* the position with seek, edit the upstream graph and close the stream.   *)
(*                                                                         *)
(* A section the code runs under dataMutex is one action.  streamLock is   *)
(* explicit, because it is held across the blocking read of the source:    *)
(* rdHeld is the producer's read lock, wrHolder the client with the write  *)
(* lock.  The two events are sticky flags (sv_event_set / sv_event_reset); *)
(* each of them has one waiter at a time.                                  *)
(***************************************************************************)
EXTENDS Integers, Sequences, FiniteSets

CONSTANTS
  Clients,          \* threads that call into the stream
  NoClient,         \* "streamLock has no writer"
  Source,           \* what the upstream element produces: a sequence of frames
  MaxQueueSize,     \* parameter "maxQueueSize"; 0 is "no limit"
  MaxDropGap,       \* _tc_check_queue_size only drops a frame closer than this
  Lossy,            \* parameter "lossy"
  HasTimeout,       \* parameter "timeout" is not 0
  FpsLimited,       \* parameter "fpsLimit" is not 0
  SilentFpsLimiter, \* parameter "silentFpsLimiter"
  SourceFails,      \* the source may report an error that is not an end of file
  CloseOverlaps,    \* callers may close while another call is in progress
  MaxSeeks          \* bound: number of seek calls in a behaviour

Media    == {"video", "audio", "videotime"}
InvalidPts == -1

ASSUME ClientsAssumption == NoClient \notin Clients
ASSUME SourceAssumption  == Source \in Seq([pts : Nat, media : {"video", "audio"}])
ASSUME LimitsAssumption  == MaxQueueSize \in Nat /\ MaxDropGap \in Nat /\ MaxSeeks \in Nat
ASSUME FlagsAssumption   == {Lossy, HasTimeout, FpsLimited, SilentFpsLimiter,
                             SourceFails, CloseOverlaps} \subseteq BOOLEAN

VARIABLES
  state,           \* tc->state
  ppc,             \* where the producer thread is
  hand,            \* the frame the producer has read and not deposited, 0 if none
  eof,             \* the producer's local variable eof
  src,             \* position of the source: number of the last frame it returned
  queue,           \* tc->queue
  framesInQueue,   \* videoState->framesInQueue
  lastPtsInQueue,  \* videoState->lastPtsInQueue
  lastPtsRead,     \* videoState->lastPtsRead
  event,           \* tc->event, "a frame or an end of stream for the reader"
  queueEvent,      \* tc->queueEvent, "space, a seek or a close for the producer"
  rdHeld,          \* the producer holds streamLock for reading
  wrHolder,        \* the client that holds streamLock for writing
  cpc,             \* where each client is
  frontier,        \* history: the last frame that was read, skipped or given up
  seeks            \* history: number of seeks so far

locks   == <<rdHeld, wrHolder>>
counts  == <<framesInQueue, lastPtsInQueue, lastPtsRead>>
history == <<frontier, seeks>>
vars == <<state, ppc, hand, eof, src, queue, counts, event, queueEvent, locks,
          cpc, history>>

ProducerPCs == {"off", "loop", "read", "deposit", "eofmark", "unlock", "eofset",
                "eofwait", "space", "check", "full", "exit", "done"}
ReadPCs   == {"r_pop", "r_state", "r_wait", "r_eof"}
ClosePCs  == {"c_lock", "c_signal", "c_join", "c_flush"}
ClientPCs == {"idle", "k_lock", "k_seek", "e_lock", "e_edit"} \cup ReadPCs \cup ClosePCs

Positions == 1 .. Len(Source)
Pts(f)    == Source[f.idx].pts
Offsets   == {Source[i].pts : i \in Positions}
Frames    == [idx : Positions, media : Media]

\* No frame is given up: nothing is dropped for lack of space, and the fps limiter
\* replaces the frames it rejects.
Lossless == ~Lossy /\ ~(FpsLimited /\ SilentFpsLimiter)

IsRunning == state \in {"running", "eof"}

TypeOK ==
  /\ state \in {"idle", "running", "eof", "closing", "error"}
  /\ ppc \in ProducerPCs
  /\ hand \in 0 .. Len(Source)
  /\ eof \in BOOLEAN
  /\ src \in 0 .. Len(Source)
  /\ queue \in Seq(Frames)
  /\ framesInQueue \in Int
  /\ lastPtsInQueue \in Int
  /\ lastPtsRead \in Int
  /\ event \in BOOLEAN
  /\ queueEvent \in BOOLEAN
  /\ rdHeld \in BOOLEAN
  /\ wrHolder \in Clients \cup {NoClient}
  /\ cpc \in [Clients -> ClientPCs]
  /\ frontier \in 0 .. Len(Source)
  /\ seeks \in 0 .. MaxSeeks

Init ==
  /\ state = "idle"
  /\ ppc = "off"
  /\ hand = 0
  /\ eof = FALSE
  /\ src = 0
  /\ queue = << >>
  /\ framesInQueue = 0
  /\ lastPtsInQueue = InvalidPts
  /\ lastPtsRead = InvalidPts
  /\ event = FALSE
  /\ queueEvent = FALSE
  /\ rdHeld = FALSE
  /\ wrHolder = NoClient
  /\ cpc = [c \in Clients |-> "idle"]
  /\ frontier = 0
  /\ seeks = 0

\* sv_rwlock_lock_read, sv_rwlock_lock_write.  A definition such as
\* LockWriteIgnoringReaders is a faulty variant of the one it precedes.  Nothing
\* uses it; it exists to show that a property notices that fault.
CanLockRead == wrHolder = NoClient
LockWriteIgnoringReaders == wrHolder = NoClient
CanLockWrite == wrHolder = NoClient /\ ~rdHeld

\* sv_event_set(event): release a reader that waits for a frame.
WakeReader == event' = TRUE

\* sv_event_set(queueEvent): release the producer.
ReleaseIfQueued == queueEvent' = (queueEvent \/ queue # << >>)
ReleaseProducer == queueEvent' = TRUE

ProducerGoes(from, to) == ppc = from /\ ppc' = to
ClientGoes(c, from, to) == cpc[c] = from /\ cpc' = [cpc EXCEPT ![c] = to]

-----------------------------------------------------------------------------
(***************************************************************************)
(* The producer: _tc_thread_func.                                          *)
(***************************************************************************)

\* Take streamLock for reading and look at the state.  The lock is held until
\* Unlock, across the read of the source and the deposit.
LockForRead ==
  /\ CanLockRead
  /\ rdHeld' = TRUE
  /\ eof' = (state = "eof")
  /\ ProducerGoes("loop", CASE state = "running" -> "read"
                            [] state = "eof"     -> "eofmark"
                            [] OTHER             -> "unlock")
  /\ UNCHANGED <<state, hand, src, queue, counts, event, queueEvent, wrHolder,
                 cpc, history>>

SourceHasMoreOffByOne == src <= Len(Source)
SourceHasMore == src < Len(Source)

SourceFrame ==
  /\ SourceHasMore
  /\ ProducerGoes("read", "deposit")
  /\ src' = src + 1
  /\ hand' = src + 1
  /\ UNCHANGED <<state, eof, queue, counts, event, queueEvent, locks, cpc, history>>

SourceEof ==
  /\ src = Len(Source)
  /\ ProducerGoes("read", "eofmark")
  /\ eof' = TRUE
  /\ UNCHANGED <<state, hand, src, queue, counts, event, queueEvent, locks, cpc,
                 history>>

SourceError ==
  /\ SourceFails
  /\ ProducerGoes("read", "unlock")
  /\ state' = "error"
  /\ UNCHANGED <<hand, eof, src, queue, counts, event, queueEvent, locks, cpc,
                 history>>

\* The media type under which the frame in hand enters the queue: a video frame
\* the fps limiter rejects is replaced by a frame that only carries its times.
Deposited(rejected) ==
  [idx |-> hand, media |-> IF rejected THEN "videotime" ELSE Source[hand].media]

\* A rejected frame leaves no trace only if silentFpsLimiter is set.
Discards(rejected) == rejected /\ SilentFpsLimiter

PushedFront(f) == <<f>> \o queue
PushedBack(f) == Append(queue, f)

\* "The frame had been deposited into an empty queue, release the potentially
\* waiting thread"
WakesReader == queue = << >>

\* _tc_deposit_frame: one dataMutex section.  Whether the limiter rejects a
\* video frame depends on the frame rate so far, so both outcomes are possible
\* whenever a limit is set.
Deposit ==
  /\ ProducerGoes("deposit", "unlock")
  /\ hand' = 0
  /\ \E rejected \in BOOLEAN :
       /\ rejected => FpsLimited /\ Source[hand].media = "video"
       /\ IF Discards(rejected)
          THEN UNCHANGED <<queue, event>>
          ELSE /\ queue' = PushedBack(Deposited(rejected))
               /\ event' = (event \/ WakesReader)
       /\ IF Source[hand].media = "video" /\ ~rejected
          THEN /\ framesInQueue' = framesInQueue + 1
               /\ lastPtsInQueue' = IF Source[hand].pts > lastPtsInQueue
                                    THEN Source[hand].pts ELSE lastPtsInQueue
          ELSE UNCHANGED <<framesInQueue, lastPtsInQueue>>
  /\ UNCHANGED <<state, eof, src, lastPtsRead, queueEvent, locks, cpc, history>>

\* "in case of EOF, prepare for hibernation"
MarkEof ==
  /\ ProducerGoes("eofmark", "unlock")
  /\ IF IsRunning
     THEN state' = "eof" /\ queueEvent' = FALSE /\ UNCHANGED eof
     ELSE eof' = FALSE /\ UNCHANGED <<state, queueEvent>>
  /\ UNCHANGED <<hand, src, queue, counts, event, locks, cpc, history>>

Unlock ==
  /\ rdHeld' = FALSE
  /\ ProducerGoes("unlock", CASE eof        -> "eofset"
                              [] ~eof /\ IsRunning  -> "space"
                              [] ~eof /\ ~IsRunning -> "exit")
  /\ UNCHANGED <<state, hand, eof, src, queue, counts, event, queueEvent, wrHolder,
                 cpc, history>>

\* Release a reader that waits for a frame that will not come.
EofSignal ==
  /\ ProducerGoes("eofset", "eofwait")
  /\ WakeReader
  /\ UNCHANGED <<state, hand, eof, src, queue, counts, queueEvent, locks, cpc, history>>

EofWait ==
  /\ queueEvent
  /\ ProducerGoes("eofwait", "loop")
  /\ UNCHANGED <<state, hand, eof, src, queue, counts, event, queueEvent, locks, cpc,
                 history>>

\* _tc_wait_for_space_in_queue, "make sure we're still running": the lock is
\* released before the queue is looked at.
CheckRunning ==
  /\ CanLockRead
  /\ ProducerGoes("space", IF IsRunning THEN "check" ELSE "exit")
  /\ UNCHANGED <<state, hand, eof, src, queue, counts, event, queueEvent, locks, cpc,
                 history>>

HasSpaceOffByOne == framesInQueue <= MaxQueueSize + 1 \/ MaxQueueSize = 0
HasSpace == framesInQueue <= MaxQueueSize \/ MaxQueueSize = 0

\* The pts of the video frame before queue[i], lastPtsRead if there is none.
PrevVideoPts(i) ==
  LET before == {j \in 1 .. i - 1 : queue[j].media = "video"}
  IN IF before = {} THEN lastPtsRead
     ELSE Pts(queue[CHOOSE j \in before : \A k \in before : k <= j])

\* The frame _tc_check_queue_size drops: the video frame closest to the one
\* before it, the first of them.
IsVictim(i) ==
  LET Gap(j) == Pts(queue[j]) - PrevVideoPts(j)
      video  == {j \in DOMAIN queue : queue[j].media = "video"}
  IN /\ i \in video
     /\ Gap(i) < MaxDropGap
     /\ \A j \in video : Gap(i) <= Gap(j) /\ (Gap(i) = Gap(j) => i <= j)

Without(i) == [k \in 1 .. Len(queue) - 1 |-> queue[IF k < i THEN k ELSE k + 1]]

EnoughSpace ==
  /\ HasSpace
  /\ ProducerGoes("check", "loop")
  /\ UNCHANGED <<state, hand, eof, src, queue, counts, event, queueEvent, locks, cpc,
                 history>>

MayAlwaysDrop == TRUE
MayDrop == Lossy

\* A live stream makes room by dropping a frame, if it finds one to drop.
DropFrame ==
  /\ ~HasSpace /\ MayDrop
  /\ ProducerGoes("check", "loop")
  /\ \/ \E i \in DOMAIN queue :
          /\ IsVictim(i)
          /\ queue' = Without(i)
          /\ framesInQueue' = framesInQueue - 1
     \/ /\ \A i \in DOMAIN queue : ~IsVictim(i)
        /\ UNCHANGED <<queue, framesInQueue>>
  /\ UNCHANGED <<state, hand, eof, src, lastPtsInQueue, lastPtsRead, event, queueEvent,
                 locks, cpc, history>>

\* A clip waits for the reader instead.
NoSpace ==
  /\ ~HasSpace /\ ~MayDrop
  /\ ProducerGoes("check", "full")
  /\ queueEvent' = FALSE
  /\ UNCHANGED <<state, hand, eof, src, queue, counts, event, locks, cpc, history>>

FullWait ==
  /\ queueEvent
  /\ ProducerGoes("full", "space")
  /\ UNCHANGED <<state, hand, eof, src, queue, counts, event, queueEvent, locks, cpc,
                 history>>

\* "make sure to signal event, in case someone is waiting on it"
Exit ==
  /\ ProducerGoes("exit", "done")
  /\ WakeReader
  /\ UNCHANGED <<state, hand, eof, src, queue, counts, queueEvent, locks, cpc, history>>

-----------------------------------------------------------------------------
(***************************************************************************)
(* The clients: one sequence of steps per API function.                    *)
(***************************************************************************)

Calling(d, pcs) == cpc[d] \in pcs
MayCall(c, pc) ==
  /\ cpc[c] = "idle"
  /\ cpc' = [cpc EXCEPT ![c] = pc]
  /\ CloseOverlaps \/ \A d \in Clients : ~Calling(d, ClosePCs)

\* tc_stream_open_in.  The source may fail to open, and the thread to start.
Open(c) ==
  /\ state = "idle" /\ ppc = "off"
  /\ \A d \in Clients : cpc[d] = "idle"
  /\ framesInQueue' = 0
  /\ lastPtsInQueue' = InvalidPts
  /\ lastPtsRead' = InvalidPts
  /\ \/ state' = "running" /\ ppc' = "loop"
     \/ state' = "error" /\ UNCHANGED ppc
     \/ UNCHANGED <<state, ppc>>
  /\ UNCHANGED <<hand, eof, src, queue, event, queueEvent, locks, cpc, history>>

\* tc_stream_read_frame.  Callers serialise reads (videolib.c's graphMutex, or
\* one consuming element downstream).
BeginRead(c) ==
  /\ state # "idle"
  /\ \A d \in Clients : ~Calling(d, ReadPCs)
  /\ MayCall(c, "r_pop")
  /\ UNCHANGED <<state, ppc, hand, eof, src, queue, counts, event, queueEvent, locks,
                 history>>

PopFrame(c) ==
  /\ queue # << >>
  /\ ClientGoes(c, "r_pop", "idle")
  /\ queue' = Tail(queue)
  /\ ReleaseProducer
  /\ frontier' = Head(queue).idx
  /\ IF Head(queue).media = "video"
     THEN /\ framesInQueue' = framesInQueue - 1
          /\ lastPtsRead' = IF Pts(Head(queue)) > lastPtsRead
                            THEN Pts(Head(queue)) ELSE lastPtsRead
     ELSE UNCHANGED <<framesInQueue, lastPtsRead>>
  /\ UNCHANGED <<state, ppc, hand, eof, src, lastPtsInQueue, event, locks, seeks>>

PopEmpty(c) ==
  /\ queue = << >>
  /\ ClientGoes(c, "r_pop", "r_state")
  /\ event' = FALSE
  /\ UNCHANGED <<state, ppc, hand, eof, src, queue, counts, queueEvent, locks, history>>

\* The state is read in a section of its own, after dataMutex was released.
ReadState(c) ==
  /\ CanLockRead
  /\ ClientGoes(c, "r_state", CASE state = "running" -> "r_wait"
                                [] state = "eof"     -> "r_eof"
                                [] OTHER             -> "idle")
  /\ UNCHANGED <<state, ppc, hand, eof, src, queue, counts, event, queueEvent, locks,
                 history>>

WaitFrame(c) ==
  /\ event
  /\ ClientGoes(c, "r_wait", "r_pop")
  /\ UNCHANGED <<state, ppc, hand, eof, src, queue, counts, event, queueEvent, locks,
                 history>>

WaitTimeout(c) ==
  /\ HasTimeout
  /\ ClientGoes(c, "r_wait", "idle")
  /\ UNCHANGED <<state, ppc, hand, eof, src, queue, counts, event, queueEvent, locks,
                 history>>

\* "queue may have been refilled since our last attempt to access it"
Refilled == queue # << >>

RecheckEof(c) ==
  /\ ClientGoes(c, "r_eof", IF Refilled THEN "r_pop" ELSE "idle")
  /\ UNCHANGED <<state, ppc, hand, eof, src, queue, counts, event, queueEvent, locks,
                 history>>

\* tc_stream_seek
BeginSeek(c) ==
  /\ state # "idle"
  /\ seeks < MaxSeeks
  /\ MayCall(c, "k_lock")
  /\ seeks' = seeks + 1
  /\ UNCHANGED <<state, ppc, hand, eof, src, queue, counts, event, queueEvent, locks,
                 frontier>>

SeekLock(c) ==
  /\ CanLockWrite
  /\ ClientGoes(c, "k_lock", "k_seek")
  /\ wrHolder' = c
  /\ UNCHANGED <<state, ppc, hand, eof, src, queue, counts, event, queueEvent, rdHeld,
                 history>>

\* "the frame we're seeking to is in queue - no need to flush"
SeekFindsInQueue(p) ==
  /\ p > lastPtsRead \/ lastPtsRead = InvalidPts
  /\ p <= lastPtsInQueue
  /\ lastPtsInQueue # InvalidPts

\* _tc_flush_queue(offset) removes exactly the first n frames.
FlushRemoves(n, p) ==
  /\ n \in 0 .. Len(queue)
  /\ \A i \in 1 .. n : Pts(queue[i]) < p
  /\ n < Len(queue) => Pts(queue[n + 1]) >= p

\* The counter of video frames goes down by one for every frame removed.
SeekInQueue(p) ==
  /\ SeekFindsInQueue(p)
  /\ \E n \in 0 .. Len(queue) :
       /\ FlushRemoves(n, p)
       /\ queue' = SubSeq(queue, n + 1, Len(queue))
       /\ framesInQueue' = framesInQueue - n
       /\ frontier' = IF n = 0 THEN frontier ELSE queue[n].idx
  /\ UNCHANGED <<state, src, lastPtsInQueue, lastPtsRead>>

\* default_seek moves the source to a position that depends on the container (a
\* key frame before the offset), or fails and leaves it where it is.
SeekSource(p) ==
  /\ ~SeekFindsInQueue(p)
  /\ src' \in 0 .. Len(Source)
  /\ queue' = << >>
  /\ framesInQueue' = 0
  /\ lastPtsInQueue' = InvalidPts
  /\ lastPtsRead' = InvalidPts
  /\ state' = "running"
  /\ frontier' = src'

Seek(c) ==
  /\ ClientGoes(c, "k_seek", "idle")
  /\ \E p \in Offsets :
       IF IsRunning THEN SeekInQueue(p) \/ SeekSource(p)
                    ELSE UNCHANGED <<state, src, queue, counts, frontier>>
  /\ ReleaseProducer
  /\ wrHolder' = NoClient
  /\ UNCHANGED <<ppc, hand, eof, event, rdHeld, seeks>>

\* tc_set_source, tc_insert_element, tc_remove_element and the parameters that
\* tc_stream_set_param passes upstream: the graph changes under the write lock.
BeginEdit(c) ==
  /\ state # "idle"
  /\ MayCall(c, "e_lock")
  /\ UNCHANGED <<state, ppc, hand, eof, src, queue, counts, event, queueEvent, locks,
                 history>>

EditLock(c) ==
  /\ CanLockWrite
  /\ ClientGoes(c, "e_lock", "e_edit")
  /\ wrHolder' = c
  /\ UNCHANGED <<state, ppc, hand, eof, src, queue, counts, event, queueEvent, rdHeld,
                 history>>

EditUnlock(c) ==
  /\ ClientGoes(c, "e_edit", "idle")
  /\ wrHolder' = NoClient
  /\ UNCHANGED <<state, ppc, hand, eof, src, queue, counts, event, queueEvent, rdHeld,
                 history>>

\* tc_stream_close, also called by tc_stream_destroy
BeginClose(c) ==
  /\ MayCall(c, "c_lock")
  /\ CloseOverlaps \/ \A d \in Clients : cpc[d] = "idle"
  /\ UNCHANGED <<state, ppc, hand, eof, src, queue, counts, event, queueEvent, locks,
                 history>>

CloseMark(c) ==
  /\ CanLockWrite
  /\ ClientGoes(c, "c_lock", IF state = "closing" THEN "idle" ELSE "c_signal")
  /\ state' = "closing"
  /\ UNCHANGED <<ppc, hand, eof, src, queue, counts, event, queueEvent, locks, history>>

\* "release the producer"
CloseSignal(c) ==
  /\ ClientGoes(c, "c_signal", "c_join")
  /\ UNCHANGED <<state, ppc, hand, eof, src, queue, counts, event, locks, history>>
  /\ ReleaseProducer

\* sv_thread_destroy waits for the thread to return
ThreadFinished == ppc \in {"off", "done"}

CloseJoin(c) ==
  /\ ThreadFinished
  /\ ClientGoes(c, "c_join", "c_flush")
  /\ UNCHANGED <<state, ppc, hand, eof, src, queue, counts, event, queueEvent, locks,
                 history>>

\* Neither streamLock nor dataMutex is held here.
CloseFlush(c) ==
  /\ ClientGoes(c, "c_flush", "idle")
  /\ queue' = << >>
  /\ framesInQueue' = framesInQueue - Len(queue)
  /\ frontier' = src
  /\ UNCHANGED <<state, ppc, hand, eof, src, lastPtsInQueue, lastPtsRead, event,
                 queueEvent, locks, seeks>>

-----------------------------------------------------------------------------
ProducerLocks == LockForRead \/ CheckRunning
ProducerSteps ==
  \/ SourceFrame \/ SourceEof \/ SourceError \/ Deposit \/ MarkEof \/ Unlock
  \/ EofSignal \/ EofWait \/ EnoughSpace \/ DropFrame \/ NoSpace \/ FullWait \/ Exit
Producer == ProducerLocks \/ ProducerSteps

Begin(c) == BeginRead(c) \/ BeginSeek(c) \/ BeginEdit(c) \/ BeginClose(c)
ClientLocks(c) == ReadState(c) \/ SeekLock(c) \/ EditLock(c) \/ CloseMark(c)
ClientSteps(c) ==
  \/ PopFrame(c) \/ PopEmpty(c) \/ WaitFrame(c) \/ WaitTimeout(c) \/ RecheckEof(c)
  \/ Seek(c) \/ EditUnlock(c) \/ CloseSignal(c) \/ CloseJoin(c) \/ CloseFlush(c)
Client(c) == Open(c) \/ Begin(c) \/ ClientLocks(c) \/ ClientSteps(c)

Next == Producer \/ \E c \in Clients : Client(c)

Spec == Init /\ [][Next]_vars

(***************************************************************************)
(* Every thread inside the connector keeps running, and streamLock does    *)
(* not starve: whoever is again and again able to take it gets it.         *)
(***************************************************************************)
Fairness ==
  /\ WF_vars(ProducerSteps)
  /\ SF_vars(LockForRead) /\ SF_vars(CheckRunning)
  /\ \A c \in Clients : WF_vars(ClientSteps(c)) /\ SF_vars(ClientLocks(c))

FairSpec == Spec /\ Fairness

-----------------------------------------------------------------------------
(***************************************************************************)
(* Safety.                                                                 *)
(***************************************************************************)

\* The upstream graph is changed or repositioned only by the one client that
\* has streamLock for writing, and never while the producer is between its
\* read of the source and the deposit of what it read.
GraphChangesAlone ==
  \A c \in Clients :
    cpc[c] \in {"k_seek", "e_edit"} =>
      /\ wrHolder = c
      /\ ~rdHeld /\ hand = 0
      /\ ppc \notin {"read", "deposit", "eofmark", "unlock"}

\* What is queued is what the source produced after the last frame given to
\* the reader, in that order: no frame twice, none from before a seek.
QueueInOrder ==
  /\ \A i \in DOMAIN queue :
       /\ frontier < queue[i].idx /\ queue[i].idx <= src
       /\ hand # 0 => queue[i].idx < hand
       /\ \A j \in DOMAIN queue : i < j => queue[i].idx < queue[j].idx
  /\ hand # 0 => hand = src

\* A clip (not lossy) loses no frame: whatever the source produced and the
\* reader has not seen or skipped is in the queue or in the producer's hand.
NothingLost ==
  Lossless => src - frontier = Len(queue) + (IF hand = 0 THEN 0 ELSE 1)

\* What is between the reader and the source is exactly what the source produced since:
\* in order, once, nothing of an earlier position, and in a clip nothing missing.
QueueIsExact == QueueInOrder /\ NothingLost

VideoInQueue == Cardinality({i \in DOMAIN queue : queue[i].media = "video"})

\* "Blocks for as long as queue depth is more than maximum configured": besides
\* the frame deposited just before the check, at most MaxQueueSize video frames
\* are held.
DepthBounded == MaxQueueSize # 0 => VideoInQueue <= MaxQueueSize + 1

\* After close no thread touches the stream and no frame is left in it.
ClosedIsQuiet ==
  state = "closing" /\ (\A c \in Clients : cpc[c] \notin ClosePCs) =>
    ppc \in {"off", "done"} /\ hand = 0 /\ queue = << >> /\ ~rdHeld

\* A live stream holds no more than its limit while it runs, and nothing once it is closed:
\* the producer, which drops frames, and close, which takes no lock, leave none behind.
LiveQueueBounded == DepthBounded /\ ClosedIsQuiet

(***************************************************************************)
(* Action properties.                                                      *)
(***************************************************************************)

\* A read that gives up because of the end of file does so with every frame of
\* the source delivered, although state and queue are looked at separately and
\* frames may arrive in between (unless a seek of another thread ended the eof).
EofReadMeansDrained ==
  [][\A c \in Clients :
       cpc[c] = "r_eof" /\ cpc'[c] = "idle" /\ state = "eof" =>
         frontier = Len(Source)]_vars

(***************************************************************************)
(* Liveness, under FairSpec.                                               *)
(***************************************************************************)

\* A read returns: with a frame, at the end of the stream, or by its timeout.
ReadsReturn == \A c \in Clients : cpc[c] \in ReadPCs ~> cpc[c] = "idle"

\* Every call returns.
CallsReturn == \A c \in Clients : cpc[c] # "idle" ~> cpc[c] = "idle"

\* A producer that hibernates at the end of the file resumes after a seek, and
\* one that found the queue full resumes when there is space again.
ProducerResumes ==
  /\ ppc = "eofwait" /\ state = "running" ~> ppc # "eofwait"
  /\ ppc = "full" /\ HasSpace ~> ppc # "full"

\* Reads are answered, with the end of the file only after everything in it, and the
\* producer never sleeps through the seek or the space it waits for.
ReadsAreAnswered == EofReadMeansDrained /\ ReadsReturn /\ ProducerResumes

-----------------------------------------------------------------------------
(***************************************************************************)
(* The frame in the producer's hand has not reached the channel yet; the   *)
(* channel closes when the close operation marks the stream.               *)
(***************************************************************************)
Channel == INSTANCE FrameChannel WITH
  Length   <- Len(Source),
  Lossless <- Lossless,
  pos      <- IF hand = 0 THEN src ELSE src - 1,
  chan     <- [i \in DOMAIN queue |-> queue[i].idx],
  open     <- state # "closing"

\* The connector, with its locks, events and counters, is such a channel.
ConnectorIsChannel == Channel!Spec
=============================================================================
