--------------------------- MODULE AudioRenderer ---------------------------
(***************************************************************************)
(* The audio renderer (src/videolib/stream_audio_renderer_portaudio.cpp):  *)
(* an element of the graph that queues the audio frames passing through    *)
(* it, and a thread of its own that writes them to the sound card.         *)
(*                                                                         *)
(* The application's thread reads, seeks, mutes and closes the graph.  It  *)
(* shares with the renderer's thread the queue and buffersPlayed, under a  *)
(* mutex, and threadRunning and a manual-reset event (src/svcore/sv_os.cpp)*)
(* without it.  A section under the mutex is one step; apc and tpc are the *)
(* places between two steps.  Frames are numbered as they are read.        *)
(***************************************************************************)
EXTENDS Integers, Sequences

CONSTANTS
  Prebuffer,    \* gPrebuffer
  NoBuffer,         \* a NULL frame
  MaxFrames,    \* bound: audio frames in the stream
  MaxFlushes,   \* bound: seeks, and changes of "mute"
  MaxFailures   \* bound: times the device cannot be started

ASSUME RendererAssumption ==
  /\ Prebuffer \in Nat /\ MaxFrames \in Nat /\ MaxFlushes \in Nat /\ MaxFailures \in Nat
  /\ NoBuffer \notin Nat

VARIABLES
  apc,          \* the application's thread: in a call of close, or in none
  tpc,          \* the renderer's thread
  passthrough, initializationPending, muted,
  bufferQueue, buffersPlayed, threadRunning, event,
  f, needsStart, needsStop, playing,   \* locals of the renderer's thread
  device,       \* what pa_stream is: "closed", "stopped" or "started"
  framesRead, flushes, failures,   \* bounded counters
  lastWritten,  \* history: the last frame written to the device
  flushedTo     \* history: the last frame read before the queue was last emptied or unmuted

app      == <<apc, passthrough, initializationPending, muted, framesRead, flushedTo>>
queue    == <<bufferQueue, buffersPlayed>>
locals   == <<f, needsStart, needsStop, playing>>
counters == <<flushes, failures>>
vars     == <<app, tpc, queue, threadRunning, event, locals, device, counters, lastWritten>>

HasThread == tpc # "none"
Frame == 1..MaxFrames

Init ==
  /\ apc = "closed" /\ tpc = "none"
  /\ passthrough = FALSE /\ initializationPending = FALSE /\ muted = FALSE
  /\ bufferQueue = << >> /\ buffersPlayed = 0 /\ threadRunning = FALSE /\ event = FALSE
  /\ f = NoBuffer /\ needsStart = FALSE /\ needsStop = FALSE /\ playing = FALSE
  /\ device = "closed"
  /\ framesRead = 0 /\ flushes = 0 /\ failures = 0 /\ lastWritten = 0 /\ flushedTo = 0

-----------------------------------------------------------------------------
(***************************************************************************)
(* _au_attempt_init: the device is opened and the thread created; or the   *)
(* source does not say its format yet, and the first frame is to try again;*)
(* or the audio is muted for good, without a device or without a thread.   *)
(***************************************************************************)
AttemptInit(secondAttempt) ==
  \/ /\ device' = "stopped" /\ tpc' = "loop" /\ threadRunning' = TRUE
     /\ passthrough' = FALSE /\ initializationPending' = FALSE
  \/ /\ ~secondAttempt
     /\ passthrough' = FALSE /\ initializationPending' = TRUE
     /\ UNCHANGED <<device, tpc, threadRunning>>
  \/ /\ passthrough' = TRUE /\ initializationPending' = FALSE
     /\ \/ UNCHANGED <<device, threadRunning>>
        \/ device' = "stopped" /\ threadRunning' = TRUE
     /\ UNCHANGED tpc

\* without audio, or with a codec it cannot play, the renderer does nothing now
OpenIn ==
  /\ apc = "closed" /\ apc' = "open"
  /\ \/ AttemptInit(FALSE)
     \/ UNCHANGED <<device, tpc, threadRunning, passthrough, initializationPending>>
  /\ UNCHANGED <<muted, framesRead, flushedTo, queue, event, locals, counters, lastWritten>>

SetEvent == event' = TRUE

\* the queue is empty afterwards, and the thread starts again with the next frames
FlushQueue ==
  /\ bufferQueue' = << >> /\ buffersPlayed' = 0
  /\ flushedTo' = framesRead'

ReadAudio ==
  /\ apc = "open" /\ framesRead < MaxFrames
  /\ framesRead' = framesRead + 1
  /\ \/ initializationPending /\ AttemptInit(TRUE)
     \/ /\ ~initializationPending
        /\ UNCHANGED <<device, tpc, threadRunning, passthrough, initializationPending>>
  /\ IF passthrough' \/ muted
       THEN /\ flushedTo' = framesRead'
            /\ UNCHANGED <<bufferQueue, event>>
       ELSE /\ bufferQueue' = Append(bufferQueue, framesRead')
            /\ SetEvent
            /\ UNCHANGED flushedTo
  /\ UNCHANGED <<apc, muted, buffersPlayed, locals, counters, lastWritten>>

Seek ==
  /\ apc = "open" /\ flushes < MaxFlushes
  /\ flushes' = flushes + 1
  /\ UNCHANGED framesRead /\ FlushQueue
  /\ UNCHANGED <<apc, tpc, passthrough, initializationPending, muted, threadRunning, event, locals,
                 device, failures, lastWritten>>

SetMute ==
  /\ apc = "open" /\ flushes < MaxFlushes
  /\ flushes' = flushes + 1
  /\ muted' = ~muted
  /\ UNCHANGED framesRead
  /\ IF muted' THEN FlushQueue ELSE UNCHANGED <<queue, flushedTo>>
  /\ UNCHANGED <<apc, tpc, passthrough, initializationPending, threadRunning, event, locals,
                 device, failures, lastWritten>>

-----------------------------------------------------------------------------
(***************************************************************************)
(* au_stream_close: tells the thread to leave, waits for it, and destroys  *)
(* the queue, the device and the event.                                    *)
(***************************************************************************)
Close ==
  /\ apc = "open" /\ apc' = "stopping"
  /\ UNCHANGED <<passthrough, initializationPending, muted, framesRead, flushedTo, tpc, queue,
                 threadRunning, event, locals, device, counters, lastWritten>>

\* faulty: tells the thread before there is anything to tell, see PlaybackEnds
FirstSignal == apc = "stopping" /\ event' = TRUE /\ apc' = "signalling" /\ UNCHANGED threadRunning
ThenStop == apc = "signalling" /\ threadRunning' = FALSE /\ apc' = "joining" /\ UNCHANGED event
SignalThenStop == FirstSignal \/ ThenStop

FirstStop == apc = "stopping" /\ threadRunning' = FALSE /\ apc' = "signalling" /\ UNCHANGED event
ThenSignal == apc = "signalling" /\ event' = TRUE /\ apc' = "joining" /\ UNCHANGED threadRunning
StopThenSignal == FirstStop \/ ThenSignal

StopThread ==
  /\ StopThenSignal
  /\ UNCHANGED <<passthrough, initializationPending, muted, framesRead, flushedTo, tpc, queue,
                 locals, device, counters, lastWritten>>

Destroy ==
  /\ apc = "joining" /\ tpc \in {"none", "exited"}
  /\ apc' = "destroyed"
  /\ bufferQueue' = << >>
  /\ device' = "closed"
  /\ UNCHANGED <<tpc, passthrough, initializationPending, muted, framesRead, flushedTo, buffersPlayed,
                 threadRunning, event, locals, counters, lastWritten>>

-----------------------------------------------------------------------------
(***************************************************************************)
(* _au_thread_func.                                                        *)
(***************************************************************************)
TestRunning ==
  /\ tpc = "loop"
  /\ tpc' = IF threadRunning THEN "take" ELSE "leave"
  /\ UNCHANGED <<app, queue, threadRunning, event, locals, device, counters, lastWritten>>

\* under the mutex
\* faulty: waits for the device's buffer and then for the prebuffer, see DeviceGetsFramesInOrder
StopsOnUnderrun == playing
StopsAfterFlush == buffersPlayed = 0 /\ playing

TakeFront ==
  /\ f' = Head(bufferQueue)
  /\ bufferQueue' = Tail(bufferQueue)

EnoughToPlay == Len(bufferQueue) > (IF playing THEN 0 ELSE Prebuffer)

Take ==
  /\ tpc = "take" /\ tpc' = "decide"
  /\ \/ /\ EnoughToPlay
        /\ TakeFront
        /\ needsStart' = (buffersPlayed = 0 /\ ~playing)
        /\ needsStop' = FALSE
        /\ buffersPlayed' = buffersPlayed + 1
        /\ UNCHANGED event
     \/ /\ ~EnoughToPlay
        /\ f' = NoBuffer /\ needsStart' = FALSE
        /\ needsStop' = StopsAfterFlush
        /\ event' = FALSE
        /\ UNCHANGED queue
  /\ UNCHANGED <<app, threadRunning, playing, device, counters, lastWritten>>

\* without the mutex: threadRunning may have changed since the loop was entered
Decide ==
  /\ tpc = "decide"
  /\ tpc' = IF f = NoBuffer /\ threadRunning
              THEN IF needsStop THEN "abort" ELSE "wait"
              ELSE IF needsStart THEN "start" ELSE "write"
  /\ UNCHANGED <<app, queue, threadRunning, event, locals, device, counters, lastWritten>>

Abort ==
  /\ tpc = "abort" /\ tpc' = "wait"
  /\ device' = "stopped" /\ playing' = FALSE
  /\ UNCHANGED <<app, queue, threadRunning, event, f, needsStart, needsStop, counters, lastWritten>>

Wait ==
  /\ tpc = "wait" /\ event
  /\ tpc' = "loop"
  /\ UNCHANGED <<app, queue, threadRunning, event, locals, device, counters, lastWritten>>

Start ==
  /\ tpc = "start"
  /\ \/ /\ device' = "started" /\ playing' = TRUE /\ tpc' = "write"
        /\ UNCHANGED <<f, failures>>
     \/ /\ failures < MaxFailures /\ failures' = failures + 1
        /\ f' = NoBuffer /\ tpc' = "leave"
        /\ UNCHANGED <<device, playing>>
  /\ UNCHANGED <<app, queue, threadRunning, event, needsStart, needsStop, flushes, lastWritten>>

\* an error of the write is logged and otherwise ignored
Write ==
  /\ tpc = "write" /\ f # NoBuffer
  /\ lastWritten' = f /\ f' = NoBuffer
  /\ tpc' = "loop"
  /\ UNCHANGED <<app, queue, threadRunning, event, needsStart, needsStop, playing, device, counters>>

\* the process ends when the thread looks for the samples of no frame
WriteNothing ==
  /\ tpc = "write" /\ f = NoBuffer
  /\ apc' = "crashed" /\ tpc' = "crashed"
  /\ UNCHANGED <<passthrough, initializationPending, muted, framesRead, flushedTo, queue,
                 threadRunning, event, locals, device, counters, lastWritten>>

Leave ==
  /\ tpc = "leave" /\ tpc' = "exited"
  /\ device' = IF playing THEN "stopped" ELSE device
  /\ playing' = FALSE
  /\ threadRunning' = FALSE
  /\ UNCHANGED <<app, queue, event, f, needsStart, needsStop, counters, lastWritten>>

Calls == OpenIn \/ ReadAudio \/ Seek \/ SetMute \/ Close
Closing == StopThread \/ Destroy
Renderer ==
  \/ TestRunning \/ Take \/ Decide \/ Abort \/ Wait
  \/ Start \/ Write \/ WriteNothing \/ Leave
Next == Calls \/ Closing \/ Renderer

Spec == Init /\ [][Next]_vars
\* the thread is scheduled and the device's calls return; close proceeds once it may
FairSpec == Spec /\ WF_vars(Renderer) /\ WF_vars(Closing)

-----------------------------------------------------------------------------

\* Samples go to a device that is started: a seek or a mute between any two steps of the
\* thread leaves buffersPlayed and the thread's own "playing" in a state from which it
\* starts the device when it must and stops it only if it will (lines 216-234, 237-267).
WritesToStartedDevice ==
  tpc = "write" /\ f # NoBuffer => playing /\ device = "started"

\* Between two flushes the device gets every frame, in order, and what waits are the
\* frames that follow; of the frames before a flush only the one the thread already has
\* in its hand may still be written; a device that cannot be started costs one (lines 216-235,
\* 443-447, 475-482).
PlayedInOrder ==
  LET inHand == IF f = NoBuffer THEN << >> ELSE <<f>>
      pending == inHand \o bufferQueue
  IN /\ \A i \in 1..Len(pending) - 1 :
          pending[i + 1] = pending[i] + 1 \/ (i = 1 /\ f # NoBuffer /\ f <= flushedTo)
     /\ \A i \in 1..Len(bufferQueue) : bufferQueue[i] > flushedTo
     /\ Len(pending) > 0 => lastWritten < pending[1]
     /\ failures = 0 /\ Len(pending) > 0 /\ pending[1] > flushedTo + 1 => lastWritten = pending[1] - 1

\* The device, while it is started, is given the frames of the stream in order.
DeviceGetsFramesInOrder == WritesToStartedDevice /\ PlayedInOrder

\* Closing ends, whatever the thread is doing: it leaves and is waited for, or the
\* process has crashed (lines 511-540).
CloseReturns == (apc = "stopping") ~> (apc \in {"destroyed", "crashed"})

\* What is queued beyond the prebuffer is played, unless it is flushed or the device could
\* not be started, which ends the thread (lines 209-256).
QueueIsPlayed ==
  (HasThread /\ Len(bufferQueue) > Prebuffer) ~>
    (Len(bufferQueue) <= Prebuffer \/ tpc = "exited" \/ apc = "crashed")

\* Nobody waits for ever: not the application in its close, not a frame in the queue.
PlaybackEnds == CloseReturns /\ QueueIsPlayed
=============================================================================
