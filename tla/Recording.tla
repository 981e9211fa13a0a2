------------------------------ MODULE Recording ------------------------------
(***************************************************************************)
(* Recording a live stream in files: the splitter "fileRecorder" that      *)
(* videolib.c inserts (_enable_file_recording), in its subgraph an encoder *)
(* (src/videolib/stream_ffmpeg_encoder.cpp) and the recorder that rotates  *)
(* the files (stream_ffmpeg_recorder.cpp), and at the end of the graph the *)
(* synchroniser (stream_recorder_sync.cpp), which returns the frames to    *)
(* the application once it knows in which file they are.                   *)
(*                                                                         *)
(* The producer is the thread that reads the graph up to the connector     *)
(* "edge"; the reader is the application's thread, which reads the         *)
(* synchroniser.  They share the file contexts, under the synchroniser's   *)
(* mutex, which the reader holds while rpc = "queue".  In that section it  *)
(* looks at nothing of the producer but the encoder's delay, once, so the  *)
(* section is not interleaved with steps of the producer.                  *)
(*                                                                         *)
(* A file that is recorded in memory (BufferedFile) is kept, once closed,  *)
(* in a table under its name, until the application moves it.              *)
(***************************************************************************)
EXTENDS BufferedFile, FiniteSetsExt

CONSTANTS
  Sources,      \* what the source may deliver: sequences of frames by increasing timestamp
  Lags,         \* how many frames the codec may keep when it is asked for a packet
  MaxDuration,  \* maxFileDurationMs
  None,         \* NULL, AV_NOPTS_VALUE, and an interval without end
  MaxRequests,  \* bound: new files the application asks for
  MaxFailures   \* bound: files that cannot be opened and packets that cannot be written

Frame == [pts : Nat, video : BOOLEAN, key : BOOLEAN]

ASSUME RecordingAssumption ==
  /\ \A s \in Sources :
       /\ Len(s) \in Nat /\ s \in [1..Len(s) -> Frame]
       /\ \A i, j \in 1..Len(s) : i < j => s[i].pts < s[j].pts
       /\ \A i \in 1..Len(s) : s[i].key => s[i].video
  /\ Lags \subseteq Nat
  /\ MaxDuration \in Nat /\ MaxRequests \in Nat /\ MaxFailures \in Nat
  /\ None \notin Int \cup Frame

VARIABLES
  ppc,          \* the producer's place in the splitter, the encoder and the recorder
  frame,        \* the frame the splitter has read
  sourceFrames, flushing,   \* the splitter's source_frames and flushing_subgraph
  passthrough,  \* the source is H264 already: the encoder passes its frames on
  inEncoder,    \* video frames the codec has taken and not returned
  lastInputPts, encoderDelay,
  packet,       \* the frame the recorder has read
  uri, outputInitialized, savedFrames, firstPts, lastVideoPts,
  videoPackets, audioPackets,      \* packetsWritten
  newFileRequested, criticalError,
  recordsAudio,   \* the files have an audio stream
  sizeKnown,      \* width and height are set
  spsFromSource,  \* the source answers "sps" and "pps"
  sps,            \* sps and pps are set
  recordInRAM, buffer,   \* the file that is written, if it is written in memory
  closedFiles,  \* _gClosedFiles, by name
  edge,         \* frames between the splitter and the synchroniser
  rpc, knownDelay, lastPtsInQueue, fileContexts, frames,
  source, framesRead,   \* what the source delivers, and how much of it has been read
  requests, failures,   \* bounded counters
  owed,         \* history: packets the recorder has read since the first keyframe and not written
  written,      \* history: packets written, with their file, and how long the codec kept them
  returned,     \* history: the frame last returned to the application, and the file named
  dropped       \* history: the frame the synchroniser has last dropped

splitter   == <<frame, sourceFrames, flushing, edge>>
encoder    == <<passthrough, inEncoder, lastInputPts, encoderDelay>>
parameters == <<recordsAudio, sizeKnown, spsFromSource, sps>>
output     == <<recordInRAM, buffer, closedFiles>>
file       == <<uri, outputInitialized, savedFrames, firstPts, lastVideoPts, videoPackets, audioPackets, output>>
recorder   == <<packet, file, newFileRequested, criticalError, parameters>>
queue      == <<rpc, knownDelay, lastPtsInQueue, frames>>
producer   == <<ppc, splitter, encoder, recorder>>
counters   == <<source, framesRead, requests, failures>>
history    == <<owed, written, returned, dropped>>
vars       == <<producer, queue, fileContexts, counters, history>>
Known(x) == x # None

SplitterInit == ppc = "source" /\ frame = None /\ sourceFrames = << >> /\ flushing = FALSE /\ edge = << >>

\* ffenc_stream_open_in: there is nothing to encode if the source has the codec already
EncoderInit ==
  /\ passthrough \in BOOLEAN
  /\ encoderDelay = IF passthrough THEN 0 ELSE -1
  /\ inEncoder = << >> /\ lastInputPts = 0

RecorderInit ==
  /\ packet = None /\ uri = None /\ outputInitialized = FALSE /\ savedFrames = << >>
  /\ firstPts = None /\ lastVideoPts = 0 /\ videoPackets = 0 /\ audioPackets = 0
  /\ newFileRequested = FALSE /\ criticalError = FALSE /\ sps = FALSE
  /\ recordInRAM \in BOOLEAN /\ buffer = EmptyFile /\ closedFiles = << >>

\* an encoder knows the size and the parameter sets of what it produces
SourceInit ==
  /\ source \in Sources /\ framesRead = 0
  /\ sizeKnown \in {~passthrough, TRUE}
  /\ spsFromSource \in {~passthrough, TRUE}

\* _ffsink_add_audio_stream: no stream without audio, if audio is off, or for a codec the
\* container does not take
AudioInit == recordsAudio \in {\E i \in DOMAIN source : ~source[i].video, FALSE}

SynchroniserInit ==
  /\ rpc = "idle" /\ knownDelay = -1 /\ lastPtsInQueue = 0
  /\ fileContexts = << >> /\ frames = << >>

Init ==
  /\ SplitterInit /\ EncoderInit /\ RecorderInit /\ SourceInit /\ AudioInit /\ SynchroniserInit
  /\ requests = 0 /\ failures = 0
  /\ owed = << >> /\ written = << >> /\ returned = None /\ dropped = None

Fails == failures < MaxFailures /\ failures' = failures + 1

-----------------------------------------------------------------------------
(***************************************************************************)
(* The splitter reads a frame, runs the subgraph until it returns nothing, *)
(* or an error, and returns the frame.  It runs it as well when the source *)
(* fails, and once more before it is closed.                               *)
(***************************************************************************)
SourceFrame ==
  /\ ppc = "source" /\ framesRead < Len(source)
  /\ framesRead' = framesRead + 1
  /\ frame' = source[framesRead + 1]
  /\ sourceFrames' = Append(sourceFrames, frame')
  /\ ppc' = "encoder"
  /\ UNCHANGED <<flushing, edge, encoder, recorder, queue, fileContexts, source, requests, failures, history>>

RunAgain ==
  /\ frame' = None /\ ppc' = "encoder"
  /\ UNCHANGED <<sourceFrames, edge, encoder, recorder, queue, fileContexts, counters, history>>
SourceEnds == ppc = "source" /\ RunAgain /\ UNCHANGED flushing
FlushSubgraph == rpc = "idle" /\ ppc \in {"source", "ended"} /\ RunAgain /\ flushing' = TRUE

-----------------------------------------------------------------------------
(***************************************************************************)
(* The encoder's read: a packet that is ready, else the frames of the      *)
(* source until one makes a packet.                                        *)
(***************************************************************************)
Ready(s) == \E lag \in Lags : Len(s) > lag
NotReady(s) == \E lag \in Lags : Len(s) <= lag
Owes(p) == p.key \/ ((written # << >> \/ owed # << >>) /\ (p.video \/ recordsAudio))
Offer(p) ==
  /\ packet' = p /\ ppc' = "check"
  /\ owed' = IF Owes(p) THEN Append(owed, p) ELSE owed

PendingPacket ==
  /\ ppc = "encoder" /\ ~passthrough /\ Ready(inEncoder)
  /\ Offer(Head(inEncoder)) /\ inEncoder' = Tail(inEncoder)
  /\ UNCHANGED <<splitter, passthrough, lastInputPts, encoderDelay, file, newFileRequested, criticalError,
                 parameters, queue, fileContexts, counters, written, returned, dropped>>

Reads == (ppc = "encoder" /\ (passthrough \/ NotReady(inEncoder))) \/ ppc = "retry"
Gets == Reads /\ sourceFrames # << >> /\ sourceFrames' = Tail(sourceFrames)
Input == Head(sourceFrames)

PassOn ==
  /\ Gets /\ (passthrough \/ ~Input.video)
  /\ Offer(Input)
  /\ UNCHANGED <<frame, flushing, edge, encoder, file, newFileRequested, criticalError,
                 parameters, queue, fileContexts, counters, written, returned, dropped>>

Encode ==
  /\ Gets /\ ~passthrough /\ Input.video
  /\ lastInputPts' = Input.pts
  /\ LET taken == Append(inEncoder, Input)
         delay == Input.pts - Head(taken).pts
     IN \/ /\ Ready(taken)
           /\ Offer(Head(taken)) /\ inEncoder' = Tail(taken)
           /\ encoderDelay' = Max({encoderDelay, delay})
           /\ UNCHANGED failures
        \/ /\ NotReady(taken)
           /\ inEncoder' = taken /\ ppc' = "retry"
           /\ UNCHANGED <<encoderDelay, packet, owed, failures>>
        \/ /\ Fails      \* avcodec_send_frame
           /\ ppc' = "deposit"
           /\ UNCHANGED <<inEncoder, encoderDelay, packet, owed>>
  /\ UNCHANGED <<frame, flushing, edge, passthrough, file, newFileRequested, criticalError, parameters,
                 queue, fileContexts, source, framesRead, requests, written, returned, dropped>>

\* the subgraph has returned nothing, or an error
Deposit ==
  /\ ppc = "deposit" \/ (Reads /\ sourceFrames = << >>)
  /\ IF Known(frame) THEN edge' = Append(edge, frame) /\ ppc' = "source"
                     ELSE UNCHANGED edge /\ ppc' = IF flushing THEN "flushed" ELSE "ended"
  /\ UNCHANGED <<frame, sourceFrames, flushing, encoder, recorder, queue, fileContexts, counters, history>>

-----------------------------------------------------------------------------
(***************************************************************************)
(* The synchroniser's handlers of the recorder's events.                   *)
(***************************************************************************)
NotifyNewFile(ts) ==
  /\ fileContexts' = IF fileContexts # << >> /\ Last(fileContexts).name = uri THEN fileContexts
                     ELSE Append(fileContexts, [start |-> ts, end |-> None, name |-> uri])

Unended == {i \in DOMAIN fileContexts : fileContexts[i].end = None}
NotifyCloseFile ==
  /\ fileContexts' = IF Unended = {} THEN fileContexts
                     ELSE [fileContexts EXCEPT ![Min(Unended)].end = lastVideoPts]

-----------------------------------------------------------------------------
(***************************************************************************)
(* The recorder, with the packet it has read.                              *)
(***************************************************************************)
PacketsTotal == videoPackets + audioPackets

\* Written to memory: a header, which the trailer completes, the packets, and an index.  A
\* keyframe takes two units.
Units(p) == IF p.key THEN <<p.pts, p.pts>> ELSE <<p.pts>>
WithHeader == IF recordInRAM THEN Write(EmptyFile, <<"header">>) ELSE EmptyFile
WithPacket(p) == IF recordInRAM THEN Write(buffer, Units(p)) ELSE buffer
WithTrailer ==
  LET completed == Write(SeekTo(buffer, 0), <<"completed">>)
  IN Write(SeekTo(completed, completed.lastWrittenPos), <<"index">>)

Filed(files, name, content) == [f \in DOMAIN files \cup {name} |-> IF f = name THEN content ELSE files[f]]

\* ffmpeg_close_buffered_io
KeepInMemory(name, bf) ==
  /\ closedFiles' = IF recordInRAM THEN Filed(closedFiles, name, bf) ELSE closedFiles
  /\ buffer' = EmptyFile
  /\ UNCHANGED recordInRAM

\* what _ffsink_stream_close leaves, without the event
Reset ==
  /\ uri' = None /\ outputInitialized' = FALSE /\ savedFrames' = << >> /\ firstPts' = None
  /\ videoPackets' = 0 /\ audioPackets' = 0 /\ sps' = FALSE
  /\ UNCHANGED lastVideoPts

\* _ffsink_stream_close(bCloseAll = false) of a file that is open
CloseOut ==
  /\ Reset
  /\ KeepInMemory(uri, IF PacketsTotal > 0 THEN WithTrailer ELSE buffer)
  /\ IF PacketsTotal > 0 THEN NotifyCloseFile ELSE UNCHANGED fileContexts

NextTs == IF savedFrames # << >> THEN Head(savedFrames).pts ELSE packet.pts

WantsNewFile ==
  /\ PacketsTotal > 0
  /\ newFileRequested \/ NextTs - firstPts > MaxDuration
\* faulty: rotates at any frame, see RecordingIsWhole
CanAlwaysStart == packet.video
CanStartNewFile == packet.video /\ packet.key

Rotate ==
  /\ ppc = "check" /\ outputInitialized
  /\ WantsNewFile /\ CanStartNewFile
  /\ CloseOut
  /\ ppc' = "reopen"
  /\ UNCHANGED <<splitter, encoder, packet, newFileRequested, criticalError, recordsAudio, sizeKnown, spsFromSource,
                 queue, counters, history>>

Opening == ppc \in {"open", "reopen"} \/ (ppc = "check" /\ ~outputInitialized)

\* read_frame leaves with the frame, and the splitter reads again; after a critical error
\* it leaves without, unless it meant to rotate
LeaveUnopened(critical) == ppc' = IF critical /\ ppc # "reopen" THEN "deposit" ELSE "encoder"

OpenWaitsForSize ==
  /\ Opening /\ ~sizeKnown
  /\ uri' = IF Known(uri) THEN uri ELSE NextTs
  /\ \/ /\ savedFrames' = Append(savedFrames, packet)
        /\ LeaveUnopened(criticalError)
        /\ UNCHANGED sizeKnown
     \/ /\ sizeKnown' = TRUE
        /\ ppc' = "open"
        /\ UNCHANGED savedFrames
  /\ UNCHANGED <<splitter, encoder, packet, outputInitialized, firstPts, lastVideoPts, videoPackets,
                 audioPackets, output, newFileRequested, criticalError, recordsAudio, spsFromSource, sps,
                 queue, fileContexts, counters, history>>

\* sps and pps: set before, answered by the source, or found in the packet
FoundSps(found) == sps \/ spsFromSource \/ (found /\ packet.key)
SavedSinceKey == IF ~sps /\ ~spsFromSource /\ packet.key THEN << >> ELSE savedFrames

OpenWaitsForSps ==
  /\ Opening /\ sizeKnown
  /\ ~FoundSps(FALSE)
  /\ uri' = IF Known(uri) THEN uri ELSE NextTs
  /\ savedFrames' = Append(SavedSinceKey, packet)
  /\ LeaveUnopened(criticalError)
  /\ UNCHANGED <<splitter, encoder, packet, outputInitialized, firstPts, lastVideoPts, videoPackets,
                 audioPackets, output, newFileRequested, criticalError, parameters,
                 queue, fileContexts, counters, history>>

OpenOut ==
  /\ Opening /\ sizeKnown
  /\ \E found \in BOOLEAN : FoundSps(found)
  /\ uri' = IF Known(uri) THEN uri ELSE NextTs
  /\ sps' = TRUE
  /\ savedFrames' = SavedSinceKey
  /\ outputInitialized' = TRUE /\ newFileRequested' = FALSE
  /\ buffer' = WithHeader
  /\ ppc' = "saved"
  /\ UNCHANGED <<recordInRAM, closedFiles, splitter, encoder, packet, firstPts, lastVideoPts, videoPackets, audioPackets, criticalError,
                 recordsAudio, sizeKnown, spsFromSource, queue, fileContexts, counters, history>>

\* no context, no stream, no I/O or no header; only the I/O is critical, and without a header
\* the I/O is closed
OpenFails ==
  /\ Opening /\ sizeKnown
  /\ \E found \in BOOLEAN : FoundSps(found)
  /\ Fails
  /\ Reset
  /\ \/ KeepInMemory(IF Known(uri) THEN uri ELSE NextTs, EmptyFile)
     \/ UNCHANGED output
  /\ criticalError' \in {criticalError, TRUE}
  /\ LeaveUnopened(criticalError')
  /\ UNCHANGED <<splitter, encoder, packet, newFileRequested, recordsAudio, sizeKnown, spsFromSource,
                 queue, fileContexts, source, framesRead, requests, history>>

\* history
Without(s, p) == IF s # << >> /\ Head(s) = p THEN Tail(s) ELSE s

\* _ffsink_stream_write_frame
Ignored(p) == ~p.video /\ ~recordsAudio
LeadIn(p) == ~Known(firstPts) /\ ~p.key

WriteFrame(p) ==
  \/ /\ Ignored(p) \/ LeadIn(p)
     /\ UNCHANGED <<firstPts, lastVideoPts, videoPackets, audioPackets, buffer, fileContexts, failures, written, owed>>
  \/ /\ ~Ignored(p) /\ ~LeadIn(p)
     /\ firstPts' = IF Known(firstPts) THEN firstPts ELSE p.pts
     /\ lastVideoPts' = IF p.video THEN p.pts ELSE lastVideoPts
     /\ \/ /\ Fails \/ (WithPacket(p).invalid /\ failures' = failures + 1)
           /\ buffer' = IF WithPacket(p).invalid THEN WithPacket(p) ELSE buffer
           /\ UNCHANGED <<videoPackets, audioPackets, fileContexts, written, owed>>
        \/ /\ buffer' = WithPacket(p) /\ ~buffer'.invalid
           /\ videoPackets' = videoPackets + (IF p.video THEN 1 ELSE 0)
           /\ audioPackets' = audioPackets + (IF p.video THEN 0 ELSE 1)
           /\ IF p.video /\ videoPackets = 1 THEN NotifyNewFile(p.pts) ELSE UNCHANGED fileContexts
           /\ written' = Append(written, [file |-> uri, frame |-> p, delay |-> lastInputPts - p.pts])
           /\ owed' = Without(owed, p)
           /\ UNCHANGED failures

WriteSaved ==
  /\ ppc = "saved" /\ savedFrames # << >>
  /\ WriteFrame(Head(savedFrames))
  /\ savedFrames' = Tail(savedFrames)
  /\ UNCHANGED <<recordInRAM, closedFiles, ppc, splitter, encoder, packet, uri, outputInitialized, newFileRequested, criticalError,
                 parameters, queue, source, framesRead, requests, returned, dropped>>

KeepsFile == ppc = "check" /\ outputInitialized /\ ~(WantsNewFile /\ CanStartNewFile)

WritePacket ==
  /\ KeepsFile \/ (ppc = "saved" /\ savedFrames = << >>)
  /\ WriteFrame(packet)
  /\ ppc' = "encoder"
  /\ UNCHANGED <<recordInRAM, closedFiles, splitter, encoder, packet, uri, outputInitialized, savedFrames, newFileRequested, criticalError,
                 parameters, queue, source, framesRead, requests, returned, dropped>>

\* the application asks for a new file (videolibUtils.cpp), under the graph's mutex, which a
\* read holds, but without the recorder's
RequestNewFile ==
  /\ rpc = "idle" /\ ~flushing /\ requests < MaxRequests
  /\ requests' = requests + 1 /\ newFileRequested' = TRUE
  /\ UNCHANGED <<ppc, splitter, encoder, packet, file, criticalError, parameters, queue, fileContexts,
                 source, framesRead, failures, history>>

\* the graph is closed, which joins the thread of the connector; what the codec still keeps is lost
Close ==
  /\ rpc = "idle" /\ ppc = "flushed"
  /\ IF outputInitialized THEN CloseOut ELSE Reset /\ UNCHANGED <<output, fileContexts>>
  /\ ppc' = "closed"
  /\ UNCHANGED <<splitter, encoder, packet, newFileRequested, criticalError, recordsAudio, sizeKnown, spsFromSource,
                 queue, counters, history>>

-----------------------------------------------------------------------------
(***************************************************************************)
(* The synchroniser's read: _rs_stream_get_frame_from_queue under the      *)
(* mutex, then a read of the source.                                       *)
(***************************************************************************)
BeginRead ==
  /\ rpc = "idle" /\ ~flushing /\ rpc' = "queue"
  /\ UNCHANGED <<producer, knownDelay, lastPtsInQueue, frames, fileContexts, counters, history>>

DelayKnown == knownDelay >= 0

LearnDelay ==
  /\ rpc = "queue" /\ ~DelayKnown /\ encoderDelay >= 0
  /\ knownDelay' = encoderDelay
  /\ UNCHANGED <<producer, rpc, lastPtsInQueue, frames, fileContexts, counters, history>>

HasCandidate == rpc = "queue" /\ DelayKnown /\ frames # << >> /\ fileContexts # << >>
Candidate == Head(frames)
Current == Head(fileContexts)
Before == Candidate.pts < Current.start
Beyond == Known(Current.end) /\ Candidate.pts > Current.end
\* faulty: forgets the encoder, see FramesNameTheirFile
SettledAtOnce == Candidate.pts < lastPtsInQueue
Settled == Candidate.pts + knownDelay < lastPtsInQueue

DropEarly ==
  /\ HasCandidate /\ Before
  /\ frames' = Tail(frames) /\ dropped' = Candidate.pts
  /\ UNCHANGED <<producer, rpc, knownDelay, lastPtsInQueue, fileContexts, counters, owed, written, returned>>

NextFile ==
  /\ HasCandidate /\ ~Before /\ Beyond
  /\ fileContexts' = Tail(fileContexts)
  /\ UNCHANGED <<producer, queue, counters, history>>

ReturnFrame ==
  /\ HasCandidate /\ ~Before /\ ~Beyond /\ Settled
  /\ frames' = Tail(frames) /\ rpc' = "idle"
  /\ returned' = [pts |-> Candidate.pts, name |-> Current.name]
  /\ UNCHANGED <<producer, knownDelay, lastPtsInQueue, fileContexts, counters, owed, written, dropped>>

NothingSettled ==
  /\ rpc = "queue"
  /\ IF DelayKnown THEN HasCandidate => ~Before /\ ~Beyond /\ ~Settled ELSE encoderDelay < 0
  /\ rpc' = "source"
  /\ UNCHANGED <<producer, knownDelay, lastPtsInQueue, frames, fileContexts, counters, history>>

ReadVideo ==
  /\ rpc = "source" /\ edge # << >> /\ Head(edge).video
  /\ edge' = Tail(edge)
  /\ lastPtsInQueue' = Head(edge).pts /\ frames' = Append(frames, Head(edge))
  /\ rpc' = "queue"
  /\ UNCHANGED <<ppc, frame, sourceFrames, flushing, encoder, recorder, knownDelay, fileContexts, counters, history>>

ReadAudio ==
  /\ rpc = "source" /\ edge # << >> /\ ~Head(edge).video
  /\ edge' = Tail(edge) /\ rpc' = "queue"
  /\ UNCHANGED <<ppc, frame, sourceFrames, flushing, encoder, recorder, knownDelay, lastPtsInQueue, frames, fileContexts,
                 counters, history>>

ReadEnds ==
  /\ rpc = "source" /\ edge = << >> /\ ppc = "ended"
  /\ rpc' = "idle"
  /\ UNCHANGED <<producer, knownDelay, lastPtsInQueue, frames, fileContexts, counters, history>>

Producer ==
  /\ rpc # "queue"
  /\ \/ SourceFrame \/ PendingPacket \/ PassOn \/ Encode \/ Deposit
     \/ Rotate \/ OpenWaitsForSize \/ OpenWaitsForSps \/ OpenOut \/ OpenFails
     \/ WriteSaved \/ WritePacket \/ SourceEnds
Reader ==
  \/ LearnDelay \/ DropEarly \/ NextFile \/ ReturnFrame \/ NothingSettled
  \/ ReadVideo \/ ReadAudio \/ ReadEnds
Next == Producer \/ RequestNewFile \/ BeginRead \/ Reader \/ FlushSubgraph \/ Close

Spec == Init /\ [][Next]_vars

-----------------------------------------------------------------------------
WrittenTo(f) == SelectSeq(written, LAMBDA w : w.file = f)
VideoOf(f) == {i \in DOMAIN written : written[i].file = f /\ written[i].frame.video}
NotFirst(f) == {i \in VideoOf(f) : \E j \in VideoOf(f) : j < i}

\* A frame is returned under the name of the file that has its packet, although the
\* recorder works ahead of the reader, rotates in between, and the encoder keeps packets
\* back (stream_recorder_sync.cpp:267-300); unless the encoder kept that packet for longer
\* than the delay it named when the synchroniser asked for it, which it does once; and unless
\* a critical error has left frames in the splitter's queue, which nobody's delay counts.
NamesItsFile ==
  Known(returned) /\ (passthrough \/ ~criticalError) =>
    \A i \in DOMAIN written :
      written[i].frame.pts = returned.pts => \/ written[i].file = returned.name
                                            \/ written[i].delay > knownDelay

\* The intervals the synchroniser keeps are those of the files, apart from each file's
\* first frame: each starts with the second video packet of its file, covers all later ones, lies
\* before the next, and is open exactly while its file is; the handlers match an end with
\* the first open interval, whatever file has ended (stream_recorder_sync.cpp:168-180).
IntervalsMatchFiles ==
  /\ \A c \in {fileContexts[i] : i \in DOMAIN fileContexts} :
       /\ \E i \in NotFirst(c.name) :
            c.start = written[i].frame.pts /\ \A j \in NotFirst(c.name) : i <= j
       /\ c.end = None <=> outputInitialized /\ uri = c.name
       /\ Known(c.end) => \A i \in VideoOf(c.name) : written[i].frame.pts <= c.end
  /\ \A i, j \in DOMAIN fileContexts :
       i < j => Known(fileContexts[i].end) /\ fileContexts[i].end < fileContexts[j].start
  /\ outputInitialized /\ videoPackets > 1 => fileContexts # << >> /\ Last(fileContexts).name = uri

\* The synchroniser gives up only frames that are in no file, or the first of their file
\* (stream_recorder_sync.cpp:276-282, stream_ffmpeg_recorder.cpp:1516-1519).
OnlyFirstFramesSkipped ==
  \A i \in DOMAIN written :
    written[i].frame.pts = dropped => i \in VideoOf(written[i].file) \ NotFirst(written[i].file)

\* Between them the three say where every recorded frame is found: under the name of the file
\* that has it, in an interval of that file, or as the first of its file.
FramesNameTheirFile == NamesItsFile /\ IntervalsMatchFiles /\ OnlyFirstFramesSkipped

\* While nothing fails and the parameter sets are known upstream, the files together hold
\* every packet from the first keyframe on, in the order the recorder read them: none is
\* lost to a rotation, to a delayed opening or to the frames saved for it; and each file
\* starts with a keyframe (stream_ffmpeg_recorder.cpp:1237-1283, 1068-1079).
InFlight == IF ppc \in {"check", "open", "reopen", "saved"} THEN <<packet>> ELSE << >>
Waiting == savedFrames \o InFlight
Goes(p) == p.video \/ recordsAudio
\* s is the end of those in w that go into a file
IsRestOf(s, w) ==
  \E at \in [DOMAIN s -> DOMAIN w] :
    \A i \in DOMAIN s :
      /\ w[at[i]] = s[i] /\ Goes(s[i])
      /\ \A j \in DOMAIN w : j > at[i] /\ Goes(w[j]) <=> \E k \in DOMAIN s : k > i /\ at[k] = j
StartsWithKey(i) == (\A j \in 1..(i - 1) : written[j].file # written[i].file) => written[i].frame.key
RecordingIsWhole ==
  failures = 0 /\ spsFromSource =>
    /\ ppc # "closed" => IsRestOf(owed, Waiting)
    /\ \A i \in DOMAIN written : StartsWithKey(i)
=============================================================================
