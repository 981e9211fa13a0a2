# videolib, specified

Specifications of [videolib](../src/README.md), the library that reads cameras and
video files, decodes, filters, records and streams them, and that serves frames to a
C and a Python API. The modules are written from the code in `src/`; paths below are
relative to `src/src/` unless they say otherwise, and C++ files without a directory are
in `src/src/videolib/`.

* [1. The system](#1-the-system): components, what they keep, how they meet
* [2. The modules](#2-the-modules): how state and actions correspond to the code
* [3. The runs](#3-the-runs): what is checked, within which bounds, under which fairness
* [4. The proofs](#4-the-proofs): what is proved, from what, and how
* [5. What the code does not keep](#5-what-the-code-does-not-keep)
* [6. What is not modelled](#6-what-is-not-modelled)
* [7. Plan](#7-plan)

To check a run: `tlc -config tc_clip.cfg MCThreadConnector`. To check the proofs:
`tlapm ThreadConnectorProofs.tla`, and the other `*Proofs` modules alike.

## 1. The system

A stream is a **graph**: a chain of elements, each with the functions of
`svcore/stream_api.h` (`open_in`, `set_source`, `read_frame`, `seek`, `close`,
`get_param`, `set_param`, `insert_element`, ...) and a pointer to its source.
`read_frame` on the last element pulls a frame through all of them. A session
(`videolib/videolib.c`, `open_input`) builds, from the source on:

    FFmpeg, live555 or local camera
      -> [HLS splitter -> resampler -> encoder -> jitter buffer -> recorder]
      -> [file splitter -> encoder -> recorder]
      -> [connector tc_edge]            a thread of its own starts here
      -> decoder -> [audio decoder and renderer] -> resize
      -> [map splitter -> resize -> memory map]       for the viewer's process
      -> [connector] -> fps limiter -> recorder synchroniser -> reader

`create_clip` builds another one, for a list of files: input iterator -> decoder ->
limiter -> metadata injector -> filters -> encoder -> recorder.

Frames and events are reference counted; the memory of a frame comes from the pool of
the element that made it, and goes back to the pool when the last reference is dropped,
usually by another thread.

| component (source) | state it keeps | operations | meets others through |
|---|---|---|---|
| thread connector (`stream_thread_connector.cpp`) | `state`, frame queue, counters, last timestamps, two events, a rwlock, a thread | open, read, seek, set_source, insert/remove element, set_param, close | its thread calls the upstream graph; readers wait for its `event`, it waits for `queueEvent` |
| frame allocator (`svcore/frame_allocator.cpp`, `frame_basic.cpp`) | free list, two counts, `freed` | get, register, return, destroy | the element's thread allocates, threads downstream release |
| clip reader (`videolib.c:2200-2730`, `../python/ClipReader.py`) | frame read ahead, last offset, outstanding frames; two streams, the place of one | next, prev, frame at, offsets, free | frames outlive the reader |
| jitter buffer (`stream_jitter_buffer.cpp`) | queue, history, pause flag, buffer length, timestamps served | read, pause, reset | learns the delay of an encoder upstream, which changes |
| splitter (`stream_splitter.cpp`) | source frames, subgraph, re-entrancy flags, a mutex | read, assign subgraph, set_source, close | a subgraph's head is the splitter itself: reads are re-entrant |
| live streaming (`videolib_hls.cpp`) | the HLS elements of a session | prepare, enable, disable, destroy | edits the graph a connector's thread is reading |
| session API (`videolib.c`, `videolibUtils.cpp`) | the graph, the map's place and view, flags | open, read, map, view, pause, live stream, volume, close | several threads of the application |
| recorders (`stream_ffmpeg_recorder.cpp`, `svcore/buffered_file.cpp`) | open file, frames saved for it, parameter sets, buffers | read, rotate, close | files, the synchroniser's contexts |
| recorder synchroniser (`stream_recorder_sync.cpp`) | pending frames, recorded intervals | read | matches frames with what a recorder reports |
| stream reader (`../python/StreamReader.py`) | current and previous file, a mover thread | get frame, close | moves recorded files, fills the database of clips |
| metadata injector (`stream_metadata_injector.cpp`), box filter (`bounding_boxes.hpp`) | queue of metadata, of frames; boxes looked up | read, seek, look up | the filter reads the injector's queue |
| input iterator (`stream_input_iterator.cpp`) | current file, offsets of its times | read, seek | opens the next file under a graph that stays |
| audio renderer (`stream_audio_renderer_portaudio.cpp`) | queue, an event | read, mute, seek, close | its thread writes to the sound card |
| camera sources (`stream_live555_demux.cpp`, `stream_ffmpeg_demux.cpp`, `timestamp_creator.cpp`) | way to connect, clocks | open, read | network |
| decoder, encoder, transforms (`stream_ffmpeg_decoder.cpp`, `stream_ffmpeg_encoder.cpp`, `stream_mediafoundation_decoder.cpp`) | packets held, device, errors | read, seek | codec libraries |
| local cameras (`stream_local.cpp`, `localVideoLib/`) | a server process, two pipes, a shared file | open, read, close | another process, a callback of the system |
| memory map (`stream_mmap.cpp`, `svcore/sv_os.cpp`) | size, room, shared file | write, resize | the viewer's process, no lock |
| fps limiter (`stream_limiter.cpp`) | times of the last frames | read | |
| default stream, frames, events (`svcore/stream_api.cpp`, `frame_basic.cpp`, `event_basic.cpp`) | source pointer, reference counts | insert, remove, ref, unref | all elements |
| operating system layer (`svcore/sv_os.cpp`) | events, mutexes, rwlocks, threads | set, reset, wait, lock | all threads |
| filters (resize, pixelate, resample) | parameters | read | functions of one frame |

**What is hard here.**

* *Threads.* A connector splits the graph in two threads, with the order
  graphMutex → streamLock → dataMutex, two sticky events, and decisions taken on values
  that were read before a lock was released. The renderer, the file mover, the
  synchroniser and the thread that asks for a JPEG each share something with the reader.
* *Processes.* A local camera is another process that may die between any two
  steps of a request; the viewer's map has no lock.
* *Lifetimes and histories.* Objects whose owner goes first (frames after their reader,
  frames after their allocator), calls that leave through many branches, values that
  describe what happened rather than what is there (`lastMsReturned`, `lastPtsRead`,
  `mmapPosition`).
* *Order in time.* Two media leave an encoder out of order; clocks stand, jump and go
  back; a buffer sorts, keeps a past while paused and puts it back; codecs hold frames back,
  so what was read and what was written are never the same moment.
* *Things fixed when the graph is opened* and changed later: the size of the
  pictures, the codec announced, the source of parameter sets.

What makes each component correct is said with its runs in section 3. The hazards in
`PROJECT.json` name the lines where each could break.

## 2. The modules

| module | models | extends | proofs | run |
|---|---|---|---|---|
| `ThreadConnector` | the connector, its thread and its callers | | `ThreadConnectorProofs` | `tc_clip`, `tc_live` |
| `FrameChannel` | abstract: what a connector promises | | | property of `tc_clip` |
| `FrameAllocator` | a frame pool, its owner and releasing threads | | `FrameMemoryProofs` | with the next |
| `PacketBuffers` | the packets of an RTSP session in frames of such a pool | `FrameAllocator` | `FrameMemoryProofs` | `fa_shared` |
| `ClipStream` | the C API's clip reader | | `ClipStreamProofs` | with the next |
| `ClipReader` | the Python clip reader on two such streams | `ClipStream` | `ClipStreamProofs` | `clip_calls` |
| `JitterBuffer` | the jitter buffer and its source | | `JitterBufferProofs` | `jb_pause` |
| `Splitter` | the state and operations of one splitter | | | part of `LiveStream` |
| `LiveStream` | live streaming: callers, two nested splitters, the connector's thread | `Splitter` twice | `LiveStreamProofs` | `live_calls` |
| `BufferedFile` | a file recorded in memory | | | with the next two |
| `Recording` | splitter, encoder, recorder and synchroniser of a recorded stream | `BufferedFile` | `RecordingProofs` | with the next |
| `StreamReader` | the Python reader, its mover thread and the clip database | `Recording` | `RecordingProofs` | `rec_files` |
| `AudioRenderer` | the renderer, its thread and the reader | | `SessionProofs` | `au_play` |
| `Images` | sizes and formats of pictures through the resize factory and the encoder | | | with Viewer, ClipExport |
| `Session` | the calls that change a session's graph | | `SessionProofs` | with the next |
| `Viewer` | the memory map and the newest frame as a JPEG | `Session`, `Images` | `SessionProofs` | `sess_calls` |
| `LocalCamera` | a camera's library and server process, with the capture callback | | `FrameMemoryProofs` | `lvl_calls` |
| `ClipExport` | create_clip: iterator, decoder, limiter, injector, boxes, encoder | `Images` | | `export_clips` |
| `CameraSource` | live555 and FFmpeg demux of a camera, the timestamp creator | | | with CameraFeed |
| `VideoDecoder`, `AudioTranscoder` | the decoder with its devices; the audio of a recording on Windows | `CameraSource` | | with CameraFeed |
| `CameraFeed` | their composition under a viewer or a recorder | both | `CameraFeedProofs` | `feed_reads` |

The modules named `MC...` give the larger constants of the runs. `FrameMemoryProofs` has the
theorems about memory that a frame's maker shares with its users, a pool or a shared file;
`SessionProofs` those about what a session's client sees and hears.

Variables and constants carry the names of the code where there is one; variables
marked *history* in a module are not in the code and no guard reads them, except where a
bound says so. A definition commented as *faulty* is a wrong variant of the definition
that follows it: nothing uses it, it documents a fault that the named property notices.

### ThreadConnector

One action is one section under `dataMutex`. `streamLock` is explicit because the
producer holds it for reading across the blocking read of its source. `ppc` is the place
of the producer in `_tc_thread_func` and `_tc_wait_for_space_in_queue`; `cpc[c]` that of
client thread `c` in a call. The producer's round is LockForRead, a read (SourceFrame,
SourceEof, SourceError), Deposit or MarkEof, Unlock, then EofSignal and EofWait, or
CheckRunning and one of EnoughSpace, DropFrame, NoSpace and FullWait; Exit ends it.
Calls: Open; BeginRead, PopFrame, PopEmpty, ReadState, WaitFrame, WaitTimeout,
RecheckEof; BeginSeek, SeekLock, Seek; BeginEdit, EditLock, EditUnlock for every call that
changes the graph upstream; BeginClose, CloseMark, CloseSignal, CloseJoin, CloseFlush.

Both events are flags that stay set until a reset; each has one waiter at a time.
Frames are places in `Source`; what the fps limiter rejects is a choice of Deposit, since
it depends on the frame rate so far. Reads of two threads are serialised, as
`graphMutex` or a single consumer does in the code. `CloseOverlaps` decides whether
callers may still be inside while another one closes: no caller in the repository does
that, so it is FALSE in all runs, and the theorems hold for both. Left out: statistics,
the log, `tc_stream_get_param` (reads only), the length of a timeout (a wait with
one may end at any moment).

`FrameChannel` is a connector without threads: frames enter behind each other, leave in
order, are given up only if the channel may lose frames, and nothing of an earlier
position survives a restart. The refinement maps the frames that have been deposited
to the channel; the frame in the producer's hand has not entered yet.

### FrameAllocator and PacketBuffers

`frame_allocator_get`, `_register_frame`, `_return` and `destroy_frame_allocator`.
The only accesses that can meet are those to `allocListCount`: register loads and stores
it without the mutex while another thread is in return, so both are split into a load
and a store; all other sections are one action. `Frames` are objects `malloc` can return.
`raced` records that two updates met, so that properties can say what holds without it.
`old` (how long ago the last allocation was) is a choice.

`PacketBuffers` is the only user of a pool that does more with a frame than fill it: the
buffers of a live555 session (`stream_live555_demux.cpp:128-228`). NewBuffer takes a frame of
the pool (Get or Allocate, then Taken: a frame used before keeps its room, and is made larger
if that is too small); Write makes the frame grow by RoomFor and adds to it; Merge puts the
second packet behind the first; Shrink exchanges a frame that is much too large for a copy
outside the pool; Give hands the first packet on, Drop gives it up, Unref is the end of a
reference downstream, on any thread. A frame is the size of its memory and of its data; what
each held when it was given is a history.

### ClipStream and ClipReader

`ClipStream` has every call of the C reader, from one thread. The loop of
`get_frame_at_or_before` is unrolled: Seek, Read and Judge, whose disjuncts are the
branches of the loop's body. `ClipFrame` objects have an identity, because ownership is
what can go wrong; below the reader, the graph is the number of the frame its next read
returns, and a seek lands on the frame at or before its target, as the decoder's precise
backward seek does (`stream_ffmpeg_decoder.cpp:1119-1148`), or at the end of the file for
a target past the last frame. A search returns the last frame at or before its target; what the
callers document is the closest one (ClosestFrame, section 5).

`ClipReader` is the class of `ClipReader.py` with `FfMpegClipReader.py`: `firstReader`,
`seqReader` and `randReader` say which of two streams is used for what. The variables of
`ClipStream` are those of the stream of the sequential reader; a random reader that is
another stream keeps nothing the application sees, so only its answer is modelled. Each
Python call is an action that makes the C calls it makes; SearchStep continues a
search. Not modelled: the output size, muting, the error path of `open_clip` (`:2376`), a
read error in the middle of a file (the code takes it for the end).

### JitterBuffer

ReadFrame starts a read; the loop of `jitbuf_stream_read_frame` is unrolled into "get"
(GetNotReady, GetPaused, GetTooSoon, GetFiller, GetFrame: the branches of `_jitbuf_get`
and `_jitbuf_generate_frame`) and "source" (SourceEmpty, SourceFrame with the encoder's delay
and `_jitbuf_append`). SetPaused and SetReset are the two parameters that change while
the stream runs; the ones set while a graph is built are constants. The sorted insertion
and the reduction of the history are given as the set of places that satisfy what the
loops look for; there is exactly one. Timestamps are small numbers; `Second`, `JumpGap` and
`TargetGap` stand for 1000, 1000/jumpstartFps and 1000/targetFps. The encoder's delay
may answer anything in `Delays` whenever it is asked, and nothing says that it covers how late frames
are: the histories `waited` and `late` say when a frame is read that is further behind the newest than
the buffer waited when it returned its first frame.

### Splitter and LiveStream

`Splitter` has the operations of one `splitter_stream_obj` on its three variables; it is
instantiated twice, as `Hls` and as `Rec`, because the HLS elements are one splitter
inside the subgraph of another: hls -> limiter -> jitter buffer -> rec -> recorder.

The producer is the connector's thread, reduced to one read of the graph under
streamLock. `ppc` walks through that read: SourceFrame and HlsPush
(`splitter_stream_read_frame`, no mutex), HlsCheck and HlsLock (`_splitter_run_subgraph`),
JitterHoldsBack or JitterReturns, LimiterAccepts, LimiterRejects or NoMoreFrames (the
limiter reads hls again, which now hands out its `source_frames`), then the same for rec.
Every place where the code looks at `subgraph` and acts later is two actions.

A call runs under graphMutex (GraphLock to ExitCall). `prepare_live_stream` and
`enable_live_stream` are Enable, Find, then Insert and Attach, or SetFps if the splitter is
there already, then Query, StartRecording and Resume; `disable_live_stream` is Disable,
DetachRecorder, Pause and SlowDown; `get_new_frame` is ReadFrame and ReadReturns.
Calls of the connector (`tc_insert_element`, `tc_stream_set_param`) take streamLock for
writing first (StreamLock) and give it up in the step itself; the others reach the splitter
hls directly, and meet a producer that is inside the graph. StartRecording does, and holds
the mutexes of both splitters for the assignment.

The profile has an encoder, so there is a limiter; `Excess` stands for a frame the limiter
rejects at any rate. The jitter buffer is its queue, history and pause flag with a fixed
buffer time. Not modelled here: an error of the source or of the recorder's read, flushing at
close (both are in `Recording`), opening a splitter that has a subgraph, errors while the elements are built, the
master playlist, profiles without encoder.

### Recording, BufferedFile and StreamReader

The producer's places `ppc` follow one frame down the splitter `fileRecorder`. The splitter
queues the frame (`sourceFrames`) and runs its subgraph until that returns nothing or an error,
and only then passes the frame on: Deposit. It runs it too when its source has nothing more
(SourceEnds), and a last time before it is closed (FlushSubgraph), which is when frames
that an error has left in the queue are recorded. The encoder gives a packet that is ready
(PendingPacket) or takes frames out of the queue until one makes a packet (PassOn, Encode; it
keeps as many frames as one of `Lags` says, and raises the delay it names when a frame
takes longer). Then the recorder: waiting for parameter sets and for
a keyframe (`savedFrames`), opening a file, rotating at a keyframe past `maxFileDurationMs`
or when the application asks for a new file, closing when something fails. Each tells
the synchroniser's file contexts. The reader's section under the synchroniser's mutex is
one step: it looks at the contexts, the frames and, once, at the encoder's delay.
Files that do not open and packets that cannot be written are a choice, `MaxFailures`
times.

`BufferedFile` is a file in memory: buffers of `BufferSize` units, of which the muxer
writes some and comes back to the first when the file is closed; `Saved` is what
`save` puts on the disk.

`StreamReader` unrolls `getNewFrame` and `close` of `StreamReader.py` into the steps
between which the mover's thread runs: it moves a complete file (or saves it from
memory), which may fail, and adds the clip to the database.

### AudioRenderer

The reader's thread queues a frame per read and signals the event after a section under
the mutex; the renderer's thread (`tpc`) takes a frame, starts and stops the device,
writes, or waits for the event. `threadRunning` and the event are read and written
without the mutex, as in the code. OpenIn and the first frames include `_au_attempt_init`:
the device and the thread may fail to come up, or only one of them.

### Session, Viewer and Images

The graph of `Session` is the sequence of elements reachable from `streamCtx`. Inserted
and Removed are `insert_element` and `remove_element` of `svcore/stream_api.cpp`, which
change the pointer they are *given*: where the code hands over a copy of the head, the
copy changes and the graph does not (`Detached`, `PutBack`). OpenStream builds the graph for one of the
configurations; GetNewFrame, OpenMmap, CloseMmap, SetMmapParams (which repositions or pauses the map),
PrepareLive, SetAudioVolume and FreeStreamData are the calls, with their failures; `mmapPosition` is where the
map was put when it was last put in, not where the view wants it now. Calls do not overlap.

`Viewer` adds what the sink at the end of the map's subgraph remembers: the size it was
asked for, a change that waits for the next frame, the size announced, the room in the
shared file; `memory` is what the viewer's process finds. Frames have references, held
by the session (`lastFrameRead`), the application and the thread that compresses a JPEG.

`Images` are functions: the size a resize filter delivers (aspect ratio, alignment,
no upsizing, one or two steps for NV12), and the format an encoder's converter makes.
Ratios are exact where the code has single precision numbers.

### LocalCamera

The client's request is a step that writes to the pipe and a step that takes the answer,
or notices that the pipe is closed, or gives up; the server reads a request, tries to grab
the frame some times, answers; the callback and the server only *try* the frame's lock.
Either process may die at any place; the client restarts the server when it is opened
again. Where no server can be executed, the child of the fork is a copy of the client ("clone"), of
which the model says only that it holds the pipes, serves nothing, and may exit. Only the Mac implementation is modelled; the Windows one runs in the process.

### ClipExport

One thread; `pc` is the element that runs and `got` what the element it called returned,
so every read, seek and error goes through the whole chain the way calls do. A file is its
packets with times and kinds and the image they hold. The decoder keeps `CodecDelay` frames,
seeks precisely by dropping decoded frames; the iterator opens the next file and shifts
its times by the offset learnt at its first packet of a medium; the injector holds a frame
back until it knows the one after; the box filter looks ahead in the injector's queue;
the encoder converts pictures and keeps `EncoderDelay` frames, which are never flushed.
Opening a file, reading a packet and decoding may fail, `MaxFailures` times; cancelling
is possible at any frame.

### CameraSource, VideoDecoder, AudioTranscoder and CameraFeed

Built like ClipExport. `CameraSource` tries the ways a camera may be reached (TCP or
UDP, with or without parameters) one after the other, and stamps packets with the
camera's time or with the timestamp creator's (three clocks: the camera's, the wall's and
the stream's; `untimed` are the places of the frames before which the wall clock was set back
too far and which were given no time). `VideoDecoder` chooses a device, decodes a first frame while the graph is
opened, and gives up on a device error, on too many skipped frames, on packets without
pictures. `AudioTranscoder` chains a decoder, a resampler and an AAC encoder of Media
Foundation if the codec and rate call for them. `CameraFeed` composes them, once
as the chain of a viewer and once, through a splitter, as that of a recorder. Its histories
are the pictures the camera gave (`pictures`), those the viewer got (`shown`) and the sound a
recorder got with the codec announced for it (`sounds`).

## 3. The runs

| run | instance | checks | distinct states |
|---|---|---|---|
| `tc_clip` | a clip with audio, a limit of one queued video frame, an fps limit that leaves time-only frames, two threads that read, seek twice, edit and close | `TypeOK`, `QueueIsExact`, `GraphChangesAlone`, `ReadsAreAnswered`, `ConnectorIsChannel` | 0.12 M |
| `tc_live` | a lossy stream with timestamps that go back, a silent fps limit, a source that fails, read timeouts, two threads | `LiveQueueBounded`, `CallsReturn` | 0.09 M |
| `fa_shared` | an RTSP session whose packets grow, merge and shrink, two threads that release them, three frames, pool limit one | `PoolServesPackets`, `GoneWithLastFrame` | 0.33 M |
| `clip_calls` | all calls of the Python reader, on two streams of a clip with frames at 3, 5 and 9 | `FramesAreOwned`, `RightFrames`, `CallsReturn`, `ReaderKeepsItsPlace` | 0.45 M |
| `jb_pause` | all sources of three frames over seven timestamps that may be two behind the newest, an encoder's delay named early, late or never; pause, resume and reset between any two steps of reads | `WindowKept`, `MediaOrdered`, `FillersEnd` | 0.39 M |
| `live_calls` | two threads that prepare, enable, disable and read, against the producer; four frames, two recordings | `SubgraphInUse`, `RecordingsExact`, `PauseFollowsRecorder` | 3.3 M |
| `rec_files` | two cameras of five frames, one with sound and a first frame that is no keyframe, encoded or passed on, recorded to files on the disk or in memory, with a request for a new file and a failure anywhere, against the mover's thread | `FramesNameTheirFile`, `RecordingIsWhole`, `ClipsAreFound`, `SavedAsWritten` | 2.4 M |
| `au_play` | six audio frames, two flushes, one failure, a close at any time | `DeviceGetsFramesInOrder`, `PlaybackEnds` | 17 k |
| `sess_calls` | every sequence of the graph's calls with four views, two names of maps and three frames | `GraphServesViewer`, `ViewerSeesItsView`, `JpegKeepsItsFrame` | 0.59 M |
| `lvl_calls` | three opens, four frames, either process dying at any step, a server that cannot be executed | `OneServerAnswers`, `FramesAreFresh`, `DeathIsNoticed` | 0.14 M |
| `export_clips` | one to three files that follow, overlap or leave a gap, four times, three lengths, copied or decoded; pictures of five sorts, six sizes, three codecs; cancelled anywhere, one failure anywhere | `ClipIsWhole`, `EncoderGetsItsImages`, `BoxesMeetTheirFrame`, `ClipEnds` | 0.27 M |
| `feed_reads` | 42 cameras, over live555 or FFmpeg, viewed or recorded, with two failures | `TimesIncrease`, `PicturesAreKept`, `StallIsNoticed`, `AudioIsAsAnnounced`, `CameraIsReached` | 0.14 M |

Every property has mutants of the definitions in `PROJECT.json`: the fault each would notice.
Most type invariants are proved (section 4) and not run again.

Four definitions state what a comment of the code says and the code does not keep. Added to the
configuration named, each is refuted by TLC; what a run checks instead has the exception (section 5).

| definition | said at | refuted in | what is checked |
|---|---|---|---|
| `CameraFeed!SetBackEndsSession` | `timestamp_creator.cpp:68` | `feed_reads`, as an invariant | `TimesIncrease` |
| `Session!ResumedMapIsServed` | `videolib.c:1104` | `sess_calls`, as an invariant | `GraphServesViewer` |
| `LocalCamera!EveryCallReturns` | `localVideo.cpp:295` | `lvl_calls`, as a property | `DeathIsNoticed` |
| `ClipStream!ClosestFrame` | `videolib.c:2710` | `clip_calls`, as a property | `RightFrames` |

**What they show.**

* *Connector.* No frame of a clip is lost or out of order, and none of an earlier
  position is left after a seek (QueueIsExact); the end of the file is reported only when
  everything was read, also when a frame arrives between the two checks, and a
  hibernating producer resumes (ReadsAreAnswered); the graph is edited only while the
  thread is out of it (GraphChangesAlone); a live stream is bounded by its limit, and
  empty after close (LiveQueueBounded); calls return; and all of it implements
  FrameChannel (ConnectorIsChannel).
* *Pool.* The free list is exact, and every packet has a frame of its own, with the room
  asked for and the data received, though frames keep their memory from one packet to the
  next (PoolServesPackets); one thread destroys the pool, and, unless two updates of its
  count met, exactly with the last frame (GoneWithLastFrame).
* *Clip reader.* No leak and no double free on any branch, and the reader released once
  and in time (FramesAreOwned); searches find the last frame at or before their target, and
  the next frame is the next one whatever was read ahead (RightFrames); searches end (CallsReturn); and the
  Python reader's two streams never get into each other's way (ReaderKeepsItsPlace).
* *Jitter buffer.* Nothing is lost but what a pause finds too old, and a pause of any
  length holds a bounded window (WindowKept); each medium is returned in order, clones
  included, until a frame is later than the buffer waited when it began (MediaOrdered); the clones for a gap come to an end (FillersEnd).
* *Live streaming.* A subgraph never vanishes between the producer's look at it and its
  use, though it looks without the mutex (SubgraphInUse); although a recorder is attached
  past streamLock, it gets exactly what the jitter buffer returned from then on, and with the
  history in front its recording increases and has no gap but those the limiter made
  (RecordingsExact); detaching and pausing are two steps, and no frame or other call gets in
  between (PauseFollowsRecorder). With four locks, nobody is left waiting (deadlock). A
  call that fails returns too; the model says nothing about the stream it leaves (section 5).
* *Recording.* Each frame shown to the application names the file that has it, although
  the name is given while its packet is still in the encoder, or is the first of a file
  (FramesNameTheirFile); rotations, late openings and saved frames lose no packet
  (RecordingIsWhole); each file becomes one clip, with the times the application has seen, and
  is moved only when it is complete, in every order of the thread's steps with reads and the
  close (ClipsAreFound); and a file kept in memory is saved as it was written (SavedAsWritten).
* *Audio.* The device gets frames in order, only while started, across seeks and muting at
  any time (DeviceGetsFramesInOrder); close returns and what is queued is played
  (PlaybackEnds).
* *Session.* While the graph is whole, each element lies where its data are right for it
  and the map is where the view needs it, unless it was resumed at the head (GraphServesViewer); every picture written to
  the map fits and has the size of the view (ViewerSeesItsView); the frame a JPEG is made
  of on another thread is kept (JpegKeepsItsFrame).
* *Local camera.* An answer is the one to the request, there is one server
  (OneServerAnswers), pictures are whole and new (FramesAreFresh), and whichever process
  dies, the other notices, and a call returns unless a copy of the client lives on in the
  server's place (DeathIsNoticed).
* *Export.* The clip is the wanted part of its files (ClipIsWhole), the encoder and the
  filters get pictures of the size they were opened for (EncoderGetsItsImages), boxes
  go to the nearest frame (BoxesMeetTheirFrame), and the call ends (ClipEnds).
* *Cameras.* A camera is reached by the one way that works, and no way is tried twice
  (CameraIsReached); made-up times increase, from one frame without a time to the next
  (TimesIncrease); a failed device loses no
  picture (PicturesAreKept), a silent decoder is given up (StallIsNoticed), and the audio
  of a recording is in the codec announced (AudioIsAsAnnounced).

**Bounds, and why they are enough.**

* Connector: two clients are needed for a seek or an edit to meet a read; a third would
  only wait for the same lock. With `MaxQueueSize = 1` a source of four frames fills the
  queue, makes the producer wait and reaches the end. Two seeks are needed for the
  stale `lastPtsRead`. `MaxDropGap` is one million as in the code, beyond any gap here.
* Pool: the limit `DesiredCount` (5 in the code) is 1, so three frames reach the reduction
  on a get and on a return. `MaxDrift` stops allocation when the count is off by one:
  beyond that it only drifts further. With expected sizes 1 and 3, portions of 2, a
  factor of 2 and `MaxRoom` 5, a packet fits at once, grows once or twice, follows a larger or
  a smaller one in the same memory, and is small enough for its frame to be exchanged.
* Clip: the first step back is 1 ms (10 or 500 in the code) against a start at 3 and gaps
  of 2 and 4, so searches double it twice, start before the first frame, hit a frame, fall
  between two or past the end; `MaxHeld` 2 lets frames be freed in both orders.
* Jitter buffer: three frames over seven timestamps reach a history, a gap of several clones, a pause
  that drops, and a resume on a half-filled queue. `BufferTime` is 0, as `videolib_hls.cpp:459` sets it, and
  the encoder names a delay of 1 or none: both are less than the two that frames may be late, so frames
  come too late, and MediaOrdered without its exception is violated.
* Live streaming: two callers, because graphMutex admits one and another must wait. With
  `BufferTime` 0 a frame is returned as soon as a newer one follows, with `PausedTime` 1
  the history keeps two frames: four frames fill the queue, the history, drop an old one
  and resume on top of it; two recordings show what the first leaves behind.
* Recording: the sources differ in where keyframes are and in audio, and either may have
  parameter sets and sizes that come late; `MaxDuration` 2 makes two or three files of
  them, `Lags` {0, 1} keep a packet in the encoder at a rotation or not, and let it come late, and buffers of 2 in a file of
  at most 6 units end in the middle of packets, at their end, and at the limit.
* Audio: with a prebuffer of 2, six frames start the device, run it dry, and start it again
  after each flush.
* Session: the four views are those for which the map's place differs; two names make
  the map move; three frame objects are what application, session and JPEG can hold.
* Local camera: one open after a death and one after that; a skipped frame, two tries and
  two attempts each end in both ways.
* Export: three files are a first, a middle and a last; the times and lengths fall before,
  on, between and behind frames; codecs that hold one frame back are enough for what is read
  and what is written to differ.
* Cameras: each way to connect, clock jump (below, between and above the two limits of
  the timestamp creator), codec and device failure is there with and without the others it
  can meet, and clocks that are set back too far with and without a debt; the list is in
  `MCCameraFeed`.

**Fairness.** Connector: weak fairness of the steps of a thread that is inside the
connector, because nothing in the code suspends it; strong fairness of taking `streamLock`,
because the lock does not starve: glibc's default prefers readers, but the producer is its
only reader that comes again and again and gives it up while it waits or deposits, and the
Windows implementation counts waiting writers and makes readers back off
(`sv_os.cpp:688-718`). Nothing is assumed about callers: no call has to be made, and in
`tc_clip` no wait has a timeout. Clip reader: weak fairness of a search's steps, which run
on the caller's thread. Jitter buffer: weak fairness of reading, because the splitter above reads
until nothing comes (`stream_splitter.cpp:306-328`). Audio renderer: weak fairness of its
thread and of a close that has begun. Local camera: weak fairness of the client's calls, the
server's loop and the end of a callback; nobody need call, no camera need deliver, no one
need die. `ClipExport` and `CameraFeed`: weak fairness of the one thread there is; the
number of files and frames is finite. `LiveStream`, `Recording`, `StreamReader`, `Session`
and `Viewer` state no liveness.

**Deadlock** is checked in `tc_live`, `jb_pause`, `live_calls`, `rec_files` and `feed_reads`.
It is not where the system may stop: in `tc_clip`, because close can wait for ever (section
5), and where everything ends, is closed, has died or has been released in the others.

## 4. The proofs

All theorems hold for every value of the constants that satisfies the named assumptions
of the component's module, and for any number of clients, threads, frames, seeks and
failures.

| theorem | states | rests on |
|---|---|---|
| `TypeCorrect` | TypeOK of the connector | `TypeInv` |
| `GraphChangesAloneHolds` | GraphChangesAlone | `ControlInv` |
| `QueueIsExactHolds` | QueueIsExact | `FrameInv` |
| `ConnectorIsChannelHolds` | ConnectorIsChannel | `FrameInv` |
| `EofReadMeansDrainedHolds`, `ClosedIsQuietHolds` | the end of the file, the end of the stream | `FrameInv /\ EndInv` |
| `LiveQueueBoundedHolds` | LiveQueueBounded | `FrameInv /\ DepthInv`, `ClosedIsQuietHolds` |
| `AllocatorTypeCorrect`, `ListExactHolds` | TypeOK, ListExact | `PoolInv` |
| `GoneWithLastFrameHolds` | GoneWithLastFrame | `PoolInv /\ DestroyInv /\ CountInv` |
| `PacketsUsePool`, `GoneWithLastPacket` | PacketBuffers implements FrameAllocator; GoneWithLastFrame for it | a step each |
| `PoolServesPacketsHolds` | PoolServesPackets | `PoolInv /\ PacketInv` |
| `ClipTypeCorrect`, `FramesAreOwnedHolds`, `RightFramesHolds` | the safety properties of the clip reader | `Inv` |
| `ReaderOwnsFrames`, `ReaderRightFrames`, `ReaderKeepsItsPlaceHolds` | the same of the Python reader, and ReaderKeepsItsPlace | `ReaderInv` |
| `JitterTypeCorrect` | TypeOK of the jitter buffer | itself |
| `QueuesSortedHolds`, `MediaOrderedHolds`, `KeptHolds` | order and conservation | `JitterInv` |
| `WindowKeptHolds` | WindowKept | `JitterInv`, `SourceAfterLook`, `KeptHolds` |
| `LiveTypeCorrect` | TypeOK of live streaming | itself |
| `SubgraphInUseHolds`, `NoStaleFramesHolds` | the splitters under concurrent edits | `SafeInv` |
| `PauseFollowsRecorderHolds` | pauses | `SafeInv /\ PausesInv` |
| `EveryFrameRecordedHolds` | what a recorder gets | `SafeInv /\ PausesInv` |
| `RecordingsExactHolds` | RecordingsExact | `SafeInv /\ PausesInv /\ FlowInv`, the theorem before |
| `FramesNameTheirFileHolds` | FramesNameTheirFile | `RecordingInv` |
| `RecordingIsWholeHolds` | RecordingIsWhole | `RecordingInv /\ WholeInv` |
| `ClipsAreFoundHolds` | ClipsAreFound | `RecordingInv /\ ClipsInv` |
| `ViewerIsASession` | Viewer implements Session | a step each |
| `GraphServesViewerHolds` | GraphServesViewer | `NameInv /\ GraphInv` |
| `FramesAreCounted`, `JpegKeepsItsFrameHolds` | references of frames, JpegKeepsItsFrame | `FrameInv`, and `JpegInv` |
| `DeviceGetsFramesInOrderHolds` | DeviceGetsFramesInOrder | `RendererInv` |
| `OneServerAnswersHolds`, `FramesAreFreshHolds` | OneServerAnswers, FramesAreFresh | `CameraInv` |
| `TimesIncreaseHolds` | TimesIncrease | `SourceType /\ ClockInv /\ WallInv` |
| `StallIsNoticedHolds` | StallIsNoticed | `SourceType /\ ViewInv /\ RecordInv` |
| `PicturesAreKeptHolds` | PicturesAreKept | `SourceType /\ ViewInv /\ PictureInv` |
| `AudioIsAsAnnouncedHolds` | AudioIsAsAnnounced | `SourceType /\ RecordInv /\ SoundInv` |

*Connector.* `TypeInv` adds that the producer has a frame in hand exactly in its deposit
step. `LockInv` ties each thread's place to the lock it holds, and states that a writer
excludes the reader; `StateInv` relates `state` to the places of the producer: together
they make the lock argument of GraphChangesAlone inductive. `OrderInv` and `PlaceInv` say
that the queue is an increasing sequence of places between `frontier` and `src`, and
where the frame in hand fits. That nothing is lost is not inductive alone: that a deposit
adds one to the length *and* keeps the sequence dense needs the order, so it is proved on
top of `FrameInv`. Lemmas on the shapes the queue can take (`WithoutLemma` for the dropped frame,
`FlushLemma` and `PrefixLeaves` for a seek within the queue) carry the arithmetic. The
refinement has one lemma per step of the connector that the channel sees (`DepositIsPut`,
`DropIsDrop`, `PopIsGet`, `SeekIsSkipOrRestart`, `CloseIsClose`, `FlushIsClear`), on top of
what each does to the numbers of the queued frames; the others are stutters, those that
change `state` because `StateInv` says where the producer is then. `EndInv` adds that a stream
at its end has its source at the last frame, which a seek cannot change before the end is
marked, and that a closing stream is quiet or has a client that still has to join and flush.
EofReadMeansDrained is proved for a connector that gives up no frame: a live one may have
dropped the last.

`DepthInv` is about the counter `framesInQueue`: it is the length of the queue (`Counted`), the
queue exceeds the limit by one at most, and does not exceed it from the check for space to the
next deposit (`MadeRoom`). That a producer which may drop finds a victim is `VictimExists`: the
first of the video frames with the least gap. The theorem has three hypotheses, each for
something the code does. All frames are video (`VideoOnly`), and a limiter leaves no frame that
carries only a time (`LeavesNoTrace`): neither is counted, but a seek within the queue takes one off for
every frame it removes (section 5), so with them the counter says too little. In a lossy
stream no two timestamps are `MaxDropGap` apart (`GapsAreSmall`): otherwise the producer may
find no victim, and goes on.

*Pool.* `Apart` (the list has no repetition, is disjoint from the frames out, and the
count is its length) is kept by each operation on lists, by lemmas of its own. `DestroyInv`:
a thread past the check means nobody else is or will be. `CountInv`: while nothing raced,
`allocListCount` is the number of frames out, corrected by the thread that is between
load and store; it is what makes the last frame recognisable. Every step of `PacketBuffers`
is one of the pool's or a stutter of it (`PacketsUsePool`), so what is proved of the pool holds for
it too. `PacketInv` relates three pieces of state: each buffer has a frame of its own among
those in use, with what was received in it and the room asked for; every other frame in use
holds what it held when it was given; and a frame in the pool is empty, but keeps its room. `Keeps`
says it for any frames and rooms, so that each operation is a lemma about `Keeps` (a buffer
more, a buffer less, one that grows, one that changes its frame) and a fact of the pool about
the frame that entered or left it (`TakesOne`, and its counterpart for a return).

*Clip reader.* `Owned` and `Counted` (the pool of objects), `Searching` (during a search
every frame passed lies at or before the target, the current one follows `prevFrame`, and
`prevFrame = NoFrame` means that the search began at the position it sought) and `Cursor`
(the frame read ahead and `position` are consecutive, and follow the last frame shown
unless a search failed). That a search finds its frame follows from `Searching` because
offsets increase: the frame before the first one past the target is the last one at or before
it.

The Python reader's steps are those of the stream or leave it alone, so `Inv` holds for it as
soon as that is shown of each; its own part is that no two readers are one stream while both
are in use (`Apart`), that a stream not used yet is as it was opened (`Sequential`), and
what `lastMsReturned` may be (`LastMs`): the offset of the last frame, of the one read ahead, or of the
one before it, when a frame that a search had read ahead was returned since. From it follows what
`prevMs` tells (`PlaceIsKnown`). An earlier form of `PlaceIsKnown` was true of the clip in
the run, which begins at 3, and not provable: with a first frame at offset 0 a seek to it
may read the second one ahead, and a step back then finds nothing although the second frame was
returned (section 5). TLC confirms it for a clip at 0, 5 and 9.

*Jitter buffer.* `JitterInv` says that the history lies before the queue, that nothing
in the queue is before what was returned since the last splice, that what was returned is
older than the newest frame by the buffer time, and that the queue contains the newest
frame. No source and no encoder is excluded. The buffer time only grows, so what was returned was
older than the newest frame by `waited` at least, the time the buffer waited when it returned its first frame; a
frame that is not further behind the newest than that lies behind all that was returned. The first
that is further behind sets `late`, and from then on order is not claimed (hazard at
`stream_jitter_buffer.cpp:356`). A read comes back empty only after it
has asked its source, and it asks its source only after a look at the queue:
`SourceAfterLook` keeps what the look found until then, which gives the second half of WindowKept.

*Live streaming.* `SafeInv` is TypeOK with `Locks` (which lock is held at which place of the
producer; the reader and a writer exclude each other), `OneCall` (who is past graphMutex owns
it) and `Splitters` (the two properties). A detach needs streamLock for writing, so it
happens only while the producer is out of the graph, where `Locks` says that nothing is in
use. `PausesInv` adds `Calls`, what a call relies on between two of its steps because
`OneCall` keeps the others out: a call about to attach a recorder finds none attached, one
about to pause has detached it. With it, an attach finds the splitter rec empty, and the
mutex of hls, taken on the way, keeps the producer from holding a frame that has left the
jitter buffer: EveryFrameRecorded starts with three empty sequences, and every later step
moves one frame from one of them to the next.

That a recording has no gap is a property of all that comes before it, and `FlowInv` follows
the frames from the source on. `Coming`: behind a frame that is present in hls, or is the newest of the
jitter buffer, every frame the source has given is present too or was rejected; the jitter buffer
never returns its newest frame, so there always is such a frame. `InOrder`: history and queue
are one increasing sequence. `Going`: the queue, what was given to the recorder and the step
from one to the other have no gap after `since`, the moment it was attached; before the jitter
buffer is resumed nothing was given, and the history it puts back lies before that moment
and may be thinned. `Contiguous` says the same of all recordings, and `Opened` that hls keeps its
subgraph, without which frames would be lost between two recordings. The
chains are stated with one operator (`Chain`), and the lemmas are about sequences: a
chain with a frame more, without its first, with another chain in front.

*Recording.* The theorem relates four pieces of state that no lock keeps together: the frames the
reader has not returned yet (`Pending`), those on their way to a file (`Ahead`), what was written,
and the intervals. `RecordingInv` is a chain of invariants, each proved from those before it.
`TypeInv` has, besides types, which fields of the recorder go with which place of the producer.
`FlowInv`: what is ahead and what is pending was delivered by the source, and the splitter's queue, the
codec, the packet in hand and the saved frames follow each other in time, as do the
synchroniser's frames, the connector's and the one in the splitter's hand. So no frame is ever
met twice (`Onward`). `NameInv`: a file is named after the time of a frame
that is past by then, so no two files have one name. `WrittenInv`: video is written in the order of
time, and `videoPackets` and `lastVideoPts` are those of the open file. `ContextInv` is
IntervalsMatchFiles; that the handler ends the *first* open interval does no harm because there is only one,
the newest (`NewestIsOpen`). `CoveredInv`: a frame written, not the first of its file, and still pending
has the interval of its file before it, which is what makes a *return* by interval the right one. That it is
not returned too early, while its packet has still to be written, perhaps to another file, is `QueueInv`
with `ReturnedInv`: what the reader has taken from the connector was passed to the codec before (`QueueIsFed`), so
a frame further back than the delay has either left the codec or was kept longer than that delay.
That is not so after a critical error of the recorder: a packet that the codec had ready then
ends the read before the splitter's queue is empty, and from there on every frame reaches the codec one
read after it was passed on; hence the premise of NamesItsFile (section 5). `DroppedInv`: a frame that is given up lies
before the first interval that is left, and everything still ahead lies behind it.

*Recording is whole.* What is owed is what the recorder has read since the first keyframe and not
written. The theorem says that it is always the end of what waits, in the same order, so that closing
the graph loses at most what is still in hand. "The end of" is stated by places (`IsRestOf`), with lemmas for
each way in which the two sequences change: both grow, only the waiting one does, the first that waits is
dropped, or is written and no longer owed. A packet may be dropped (`LeadIn`) only while
the file has nothing written; `WholeInv` says why it is not owed then. What is owed
begins with a keyframe as long as the file has no first packet (`OwedBeginsWithKey`), because at the first
opening nothing is owed before a keyframe, and at a rotation the keyframe in hand is all that is owed. So
once something is written, an opening follows a rotation, and writes that keyframe (`KeyFollows`);
it never waits for the size again (`SizeStaysKnown`); and a file that has its first packet is the open one
(`BegunIsOpen`), which is why a packet that begins a file is a keyframe.

*Clips.* The reader learns from the name of a frame that the frames of another file have begun, and takes
it from there that the file before is closed, although it never asks the recorder. It is right
because the synchroniser passes from one interval to the next only when the first has an end: `Past` are the
files that are closed and have no interval left, and no step takes a file out of them
(`FilesMoveOn`). `ToldInv` says that each frame the application was shown is of a file in `Past`, or of
the current one if that is the clip being read, and that the clips tell what was shown (`Told`): so a frame of
another name begins a clip of its own, later than the last (`ServedInv`). `MoverInv` has the thread at
work on one closed file that nobody has moved, while the other clips' files are moved and
nothing else is; and since only the thread takes a file out of the memory (`KeptInv`), it finds
it there.

*Session and viewer.* The graph of a session is a sequence without repetitions, and a
call inserts an element before another or takes one out, so the lemmas are about the order of
what remains. `GraphInv` says, while the graph is whole, in which order its elements are
(`Proper`), that the sound is in it as long as it is on, that the map lies at the place that
`mmapPosition` remembers, or was resumed at the head (section 5), and that this is the place for the view. A map that is paused is out of the graph, and
`mmapPosition` may then be anything: it is only used to put back what was there. The steps of
`Viewer` are those of `Session` or leave it alone, hence ViewerIsASession. `FrameInv` counts: the references
of a frame are the number of those who have it, the session, the application
and the JPEG's thread; so the frame of a JPEG is not the one that is given to the next read. That its
picture has pixels (`JpegInv`) needs arithmetic on the fitted size, and a hypothesis: the camera's
pictures are at most four times as wide as high, or as high as wide (`CameraIsProportionate`).
The code accepts any shape, and may leave a longer one without pixels.

*Audio renderer.* What the application does between two steps of the thread is harmless
because of `DeviceInv`: `playing` implies a started device, and a thread that plays nothing
finds `buffersPlayed` 0 at every place where it decides from it, so that clearing it
changes no decision that is under way. `OrderInv` says that the queue is the last frames
read, the frame in the thread's hand the one before them, and that what was written last lies
before both, with nothing left out but what a flush took. The property then compares
neighbours in one sequence, the written frame, the one in hand and the queue
(`PendingInOrder`).

*Local camera.* `MessageInv`: a message is at most once in the system, in one pipe, in the
server's hand or in the other pipe, and it is the one of the client's request; a server
that is gone leaves at most the answer. Each request starts from empty pipes because a
call that ends took its answer (`EndIsQuiet`) or found the pipe closed, and a server that
is started gets new pipes. A copy of the client in its place only holds them. `ResultInv` carries the parameters and results in the shared
file along. `FrameInv`: outside the callback's writing, a buffer marked as updated holds a
frame newer than both the one in the shared file and the one returned; a new server starts
with a cleared mark, so frames of its predecessor cannot come back. FramesAreFresh is an
action property proved from it.

*Cameras.* `ClockInv`, of a live555 session: whatever was given, and the frame kept from the opening,
is not later than the time the timestamp creator assigned last, and at that time it is a fragment
of the frame that got it. The creator's corrections then show in one place
(`LaterThanBefore`): what is taken off a frame's time is at most half of its increment.
A frame before which the clock was set back too far may begin again near zero (`untimed`, section 5), so
all this is said of the frames since the last of those (`Recent`), and the order of those between
two of them (`Ordered`).
`WallInv` is the same for the FFmpeg demux and each medium, with the wall's clock.
The viewer's half has three parts. `Place` says which elements are open while one of them runs, and
`Beginning` that a decoder starts from nothing each time it is opened. `Unanswered` relates the
decoder's count of packets without a picture to the packets the camera has really given since
the last one, across packets submitted again after a change of device, which count twice; that bounds
the stall. `Accounts` and `InOrder`: the pictures the codec was given are those shown, the one held, those in
the codec and those skipped, in order. They hold while the decoder lives
(`Lives`): one that has failed promises nothing.

The recorder's half is about sound. `SoundInv` follows each frame of it through the decoder, the resampler and the
encoder, any of which may be missing, pass frames on, or have failed: the codec a frame has when it leaves an element is the
one that element announces, and behind a working encoder its time is later than those before it.
The theorem has a hypothesis on cameras (`OneKindOfSound`): a live555 session with sounds of several
codecs would have all of them recorded as the first. The cameras of the run satisfy it.

**Only model-checked**: every liveness property (the prover has no support for fairness
and ENABLED); ViewerSeesItsView; SavedAsWritten and the properties of `ClipExport`, which are
about selections and folds over whole files and clips, for which the prover has no induction.

## 5. What the code does not keep

Seen while modelling. The properties are stated so that they hold of the code as it is;
each exception is in the property's comment or in the model's assumptions.

*Connector, pool, jitter buffer, clip reader.*

* The producer checks that the stream runs, releases `streamLock`, and only then resets
  `queueEvent` and waits (`stream_thread_connector.cpp:603`). A close in between sets the
  event too early; for a clip, producer and close wait for ever. The comments at `:140-142`
  and `:884` say that a close releases the producer. A live stream is not affected:
  `tc_live` checks CallsReturn, which includes close.
* Whether a seek target is in the queue is decided from `lastPtsRead` and `lastPtsInQueue`
  (`:733`); after a seek and before the next read they do not describe the queue, and a
  seek back is answered with a later frame (comment at `:737`).
* `framesInQueue` is decremented for audio too (`:407`), so after a seek within the queue a
  clip may queue more than its limit; a source error may be reported although a frame was
  deposited last (`:651`); close empties the queue under no lock (`:895`).
* `allocListCount` is incremented without the mutex (`frame_allocator.cpp:131`); a lost
  update lets the allocator be freed while a frame is out, which the check at `:179-189`
  means to refuse.
* The encoder's delay is asked for once (`stream_jitter_buffer.cpp:356`), but the encoder raises it
  whenever a frame takes longer (`stream_ffmpeg_encoder.cpp:682-684`); later frames may then be returned
  out of order, which MediaOrdered excepts (`late`). Clones that fill a
  slow history take their timestamps from the last video frame alone (`:252`), up to a second
  behind audio already returned, into a muxer for whose sake the order is kept
  (`videolib_hls.cpp:456`). Close drops what is queued (`:365`). `1000/targetFps` is 0 above
  1000 fps; `lastVideoServedFramePts == 0` stands for "none" and for a timestamp of 0.
* `get_frame_at` is documented to return the frame closest to the offset (`videolib.c:2710`,
  `include/videolib.h:427`, `ClipReader.py:375`, `FfMpegClipReader.py:498`), but returns the last one at or
  before it (`:2715`): of frames at 3, 5 and 9 a search for 8 returns 5, not 9 (ClosestFrame).
  RightFrames is what the code does.
* `lastMsReturned` is set by reading, not by returning (`videolib.c:2569`): after
  `get_next_frame_offset`, or after a search that read ahead, `get_prev_frame` (`:2671`)
  does not return the frame before the last one; after a failed search it starts over at
  the beginning (`:2682`), and in a clip whose first frame is at 0 it returns nothing at that frame,
  nor at the second one if a search had read it ahead. `outstandingFrames` is a plain integer (`:2489`).
* Clip reader: `set_output_size` fails unless the size stays (`:2425`); `open_clip` uses a
  stream freed after a failed query (`:2375-2385`); `getMsList` lists the order of
  decoding, and opens anew where its comment says rewinds (`:2720-2728`);
  `ClipReader.setMute` ignores one of its streams (`ClipReader.py:344`), `isDone` stays true
  after a seek back (`:351-371`, `:94`), and both streams open their audio.

*Splitter and live streaming.* A splitter drops the error of its source
(`stream_splitter.cpp:372`), and its close does not close the source. `prepare_live_stream` on a
stream that is being recorded lowers the limiter to the jumpstart rate and leaves it there
(`videolib_hls.cpp:364`, `:404-408`); when the first attach of the HLS subgraph fails, the
splitter stays in the graph without one, and every later enable fails (`:397-416`).

*Recorder and stream reader.*

* The first frame of a file may not be in any interval the synchroniser reports
  (`stream_ffmpeg_recorder.cpp:1516-1523`, `stream_recorder_sync.cpp:277`); it is the exception
  in OnlyFirstFramesSkipped. The queues of the synchroniser (`:334`) have no bound, and its
  close does not clear them.
* `BufferedFile::save` drops the last buffer when the size is an exact multiple of the
  buffer's (`buffered_file.cpp:266`), and a file beyond `maxSize` is invalid and lost
  (`:193`, `:252`); SavedAsWritten excepts both.
* A file whose name never reaches the application is never moved, and its memory is not
  freed; closed files are found by base name only (`sv_ffmpeg.cpp:229-265`). A stream closed
  during its first file adds a clip with size (0, 0) (`StreamReader.py:492-525`, `:561`). The
  name of the previous file is not lower-cased as the others are (`:604-616`).
* `get_new_frame` returns NULL with a running stream when the recorder's file name is not
  known (`videolibUtils.cpp:108`).
* After a critical error the recorder ends a read that began with a packet the codec had ready
  (`stream_ffmpeg_encoder.cpp:643`, `stream_ffmpeg_recorder.cpp:1242-1248`). The frame that started the
  read stays in the splitter's queue (`stream_splitter.cpp:351`) and is encoded with the next one, so from
  then on frames reach a file later than `encoderDelay` says, and the synchroniser may
  name the file before (NamesItsFile excepts it). Frames that are left at the end are written when the
  splitter flushes its subgraph, or not at all.

*Audio renderer.* A close between the thread's look at the queue, which gave it no frame, and
its second look at `threadRunning` (`stream_audio_renderer_portaudio.cpp:237`) makes it ask
frame NULL for its samples (`:264`), which ends the process: WriteNothing, which both parts of
PlaybackEnds except. The queue has no bound (`:478`).

*Session and map.*

* Pausing a map that was put in at the head removes it from a copy of the head, so that the
  elements it leaves in the graph are freed (`videolib.c:1255`; `include/videolib.h:164`).
  GraphServesViewer is about graphs that are still whole.
* Resuming a map inserts it with a copy of the head too (`videolib.c:1245`, `:1268`). Where the place of the
  map is the head itself, as after the audio is rendered, the view is moved to `procResize`, the map paused and the audio
  switched off, only the copy changes: the splitter is lost, `mmapPaused` is 0, and `open_mmap` of the same name
  returns success although no frame reaches the map, against the comment at `:1104`
  (ResumedMapIsServed; GraphServesViewer excepts it). If the splitter could not be opened, it is still held and has the
  head as its source; the next resume releases the graph.
* `set_audio_volume` and `_pause_mmap` (`:1237`), and `free_stream_data` (`:1400`), do without
  graphMutex. `get_newest_frame_as_jpeg` unrefs a packet that was not initialised when there
  is no frame (`:2104`, `:2120-2122`). While a map is reopened its header is zero for a moment, and the
  other process may remove the new file (`sv_os.cpp:432-436`, `:506-508`); when reopening
  fails, reading frames fails.

*Pictures.* With one dimension given, the two-step conversion to NV12 announces another size
than it delivers: a 1366x768 camera at width 640 is announced as 636x356 and delivered as
636x360 (`stream_resize_factory.cpp:300-345`); what follows has room for the size announced.
`Viewer` therefore assumes a camera that does not deliver NV12, and EncoderGetsItsImages excepts
the two steps. `colorRange` answers with the colour space (`stream_resize_base.cpp`).

*Export.* The last frames that the encoder keeps are never written; an error after the
first frame still returns success (`videolib.c:1868`, `:1950`); the iterator and the demux
do not clear their end of file on a seek; seeking past the last frame is an error;
the test for a box ahead is inverted (`bounding_boxes.hpp:282` against `videolib.c:1511-1528`);
metadata after the last frame is dropped; `set_pts` changes a frame that the caller shares
(`stream_metadata_injector.cpp:417`); a next file with pictures of another size ends the clip
with an error; the injector's blocking mode (`:488`) is never used; a configuration that keeps
the original codec ignores boxes without a word.

*Local camera.* When neither path of the server can be executed, the child of the fork returns an error from
`startServer` and goes on in the caller's code as a copy of the client (`localVideo.cpp:260-274`); it holds the
writing end of the client's pipe, so the read of an answer (`:157`) does not return while the copy lives. The
calls document an error in that case (`:182`, `:295`); EveryCallReturns does not hold, and
DeathIsNoticed excepts a copy that lives for ever. `lvlNew` leaves `gServerPid` set when the test of a server fails
(`localVideo.cpp:478` against `:490-493`), so the next call meets the same server; a second
thread that lists devices (`:549`) would meet the first one's pipes; a server that dies
between the setup and the size leaves a stream of width 0.

*Cameras and codecs.* A clock that is set back by 100 ms or more does not end the session, as the comment
(`timestamp_creator.cpp:68`) and the log (`:233`) say: `_assignTs` sets its result to -1 and returns 0
(`:235`, `:275`), and the debt is taken off `INVALID_PTS` (`:272`), so that with a debt left the test at `:123-124`
passes and a time near zero is handed out, from which the next ones go on (SetBackEndsSession; TimesIncrease
excepts that step). Only without a debt does the session end. `tsBase` of the timestamp creator is not initialised, its first debt has
the opposite sign of its comment, and a fragment moves the time but not the debt; the test of
`disableGetParameter` is inverted; a failed connection is tried again although a comment calls
it final (`stream_live555_demux.cpp`). A hardware device named in the configuration that does
not know the codec is tried for ever (`stream_ffmpeg_decoder.cpp:695-697`); a packet given again after a
change of device counts as a key frame with no distance; a decoder that has failed returns
success without a frame, and a codec that fails while pictures are left in it loses them
(PicturesAreKept excepts both). On Windows, after a failure of a transform raw audio is handed on
under the name of AAC once it was announced, until the failure is noticed;
`_mfdec_get_output_size` returns a boolean.

## 6. What is not modelled

`PROJECT.json` lists every component with its status. Not modelled at all: capture by
DirectShow and QuickTime (`videoInput.cpp`, `vdigGrab.cpp`), the older FFmpeg source
(`stream_ffmpeg.cpp`), the reverse reader, which no graph in the repository contains, the NAL
parser, the capture of packets, the colour conversions, the wrappers of frames and events.
External libraries (FFmpeg, live555, Media Foundation, PortAudio) are what the code asks of
them and what they may answer. The payload of frames, logging, statistics and error texts are
left out everywhere. Memory is sequentially consistent except where a module splits an access.

Within modelled components: the master playlist and profiles without encoder; calls of a
session that overlap (`Session` makes them one at a time; `ThreadConnector` and `LiveStream`
have the overlap where it matters); the limiter by wall clock; the map's reader, which
takes no lock; a closing splitter with a subgraph.

## 7. Plan

What a next step would be:

1. The error of a splitter's source in `LiveStream`, as `Recording` has it.
2. `free_stream_data` beside a call that is inside, which needs `Session` with overlapping calls.
3. The reverse reader.
