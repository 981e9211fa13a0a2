------------------------------ MODULE Session ------------------------------
(***************************************************************************)
(* A session with a camera (src/videolib/videolib.c): open_stream builds   *)
(* the graph, get_new_frame reads it, and calls made while the stream runs *)
(* put elements into it and take them out: the memory map for the viewer   *)
(* (open_mmap, close_mmap, set_mmap_params), the live stream               *)
(* (videolib_hls.cpp) and the audio (set_audio_volume).                    *)
(*                                                                         *)
(* The graph is the sequence of the elements reachable from streamCtx, the *)
(* one that is read first and the camera's demux last.  insert_element and *)
(* remove_element are those of src/svcore/stream_api.cpp, which change the *)
(* pointer they are given: the caller's own head, or the source of the     *)
(* element downstream.  The calls are made one after the other.            *)
(***************************************************************************)
EXTENDS Integers, Sequences, SequencesExt

CONSTANTS
  Views,        \* what the viewer may ask for: records of a height and a frame rate
  Fps,          \* the rate at which the stream is processed, inputData2.fps
  Filenames,    \* names of memory maps
  None          \* NULL

ProcHeight == 240   \* PROC_IMAGE_HEIGHT
NoView == [height |-> 0, fps |-> 0]

Element == {"demux", "fileRecorder", "decoder", "hls", "mmapSplitter", "tc_edge", "audio_decode",
            "audio_render", "procPixfmt", "procResize", "fileRecorderSync"}

ASSUME SessionAssumption ==
  /\ \A v \in Views : v \in [height : Nat, fps : Nat]
  /\ Fps \in Nat \ {0}
  /\ None \notin Filenames \cup Element

VARIABLES
  status,         \* "new", "open", "closed", or "crashed"
  isRunning,
  local,          \* a local camera, which needs no decoder
  hasAudio, audioVolume,
  graph,          \* what streamCtx reaches
  mmapFilename, mmapSubgraph, mmapPosition, mmapPaused,
  view,           \* mmapWidth, mmapHeight, mmapFps
  mmapOpened,     \* history: the last attempt to put a new memory map into the graph succeeded
  ended           \* history: the camera has stopped delivering

camera      == <<local, hasAudio>>
mmap        == <<mmapFilename, mmapSubgraph, mmapPosition, mmapPaused, view, mmapOpened>>
sessionVars == <<status, isRunning, camera, audioVolume, graph, mmap, ended>>

SessionInit ==
  /\ status = "new" /\ isRunning = FALSE /\ local = FALSE /\ hasAudio = FALSE /\ audioVolume = 0
  /\ graph = << >>
  /\ mmapFilename = None /\ mmapSubgraph = None /\ mmapPosition = None /\ mmapPaused = FALSE
  /\ view = NoView /\ mmapOpened = FALSE /\ ended = FALSE

-----------------------------------------------------------------------------
(***************************************************************************)
(* The graph's operations.  An element is inserted downstream of the one   *)
(* named, or at the head.                                                  *)
(***************************************************************************)
InGraph(e) == Contains(graph, e)
Place(g, e) == SelectInSeq(g, LAMBDA x : x = e)
Inserted(g, at, e) == IF at = None THEN <<e>> \o g ELSE InsertAt(g, Place(g, at), e)
Removed(g, e) == RemoveFirst(g, e)

Aux == IF local THEN "demux" ELSE "decoder"   \* auxInsertionPoint

-----------------------------------------------------------------------------
(***************************************************************************)
(* open_stream and open_input.  The graph is opened before the elements    *)
(* that record and that play audio are inserted; a recorder that cannot be *)
(* opened is taken out again, and the stream is opened without it.         *)
(***************************************************************************)
Opened(isLocal) ==
  IF isLocal THEN <<"procResize", "procPixfmt", "tc_edge", "demux">>
             ELSE <<"procResize", "procPixfmt", "tc_edge", "decoder", "demux">>

\* H264 is recorded as it comes, before the decoder
RecordAt(h264) == IF h264 THEN "demux" ELSE Aux'
WithRecorder(g, h264) ==
  Inserted(Inserted(g, RecordAt(h264), "fileRecorder"), None, "fileRecorderSync")

WithAudio(g, at) == Inserted(Inserted(g, at, "audio_decode"), "audio_decode", "audio_render")

OpenStream ==
  /\ status = "new"
  /\ local' \in BOOLEAN /\ hasAudio' \in BOOLEAN
  /\ \/ /\ status' = "open" /\ isRunning' = TRUE
        /\ \E records, h264, rendersAudio \in BOOLEAN :
             LET recorded == IF records THEN WithRecorder(Opened(local'), h264) ELSE Opened(local')
             IN /\ h264 => ~local'
                /\ audioVolume' = IF hasAudio' /\ rendersAudio THEN 1 ELSE 0
                /\ graph' = IF audioVolume' = 1 THEN WithAudio(recorded, None) ELSE recorded
     \/ /\ status' = "closed"      \* open_in of the graph has failed
        /\ UNCHANGED <<isRunning, audioVolume, graph>>
  /\ UNCHANGED <<mmap, ended>>

Open == status = "open"

\* the splitter lies at the head of the graph, and pausing it has cut the rest off
CutOff == graph = <<"mmapSplitter">>

GetNewFrame ==
  /\ Open /\ isRunning
  /\ isRunning' = ~(CutOff \/ ended)
  /\ UNCHANGED <<status, camera, audioVolume, graph, mmap, ended>>

\* the camera stops delivering
SourceEnds ==
  /\ Open /\ ~ended /\ ended' = TRUE
  /\ UNCHANGED <<status, isRunning, camera, audioVolume, graph, mmap>>

-----------------------------------------------------------------------------
(***************************************************************************)
(* The memory map.                                                         *)
(***************************************************************************)
\* _get_mmap_position
Large(v) == v.height > ProcHeight \/ v.height = 0
Position(v) ==
  IF ~Large(v) THEN "procResize"
  ELSE IF v.fps > Fps THEN Aux
  ELSE IF InGraph("procPixfmt") THEN "procPixfmt" ELSE "tc_edge"

\* _close_mmap removes the splitter from the graph, and closes one that is held.  When the
\* graph is cut off nothing is left of it, and the next use is of a NULL interface.
Closed == Removed(graph, "mmapSplitter")

\* open_mmap from the place where the old element is gone, with graph g
PutMmap(g, filename) ==
  /\ mmapFilename' = filename
  /\ mmapPosition' = Position(view')
  /\ mmapSubgraph' = None
  /\ \/ /\ graph' = Inserted(g, mmapPosition', "mmapSplitter")
        /\ mmapPaused' = FALSE /\ mmapOpened' = TRUE
     \/ /\ graph' = g             \* the subgraph cannot be configured or opened
        /\ UNCHANGED mmapPaused /\ mmapOpened' = FALSE

Crash ==
  /\ status' = "crashed"
  /\ UNCHANGED <<graph, mmapFilename, mmapSubgraph, mmapPosition, mmapPaused, mmapOpened>>

\* _pause_mmap(0)
CanUnpause == mmapPaused /\ mmapFilename # None /\ mmapSubgraph # None

\* insert_element is called with a copy of the head: where the place of the map is the head
\* itself, only the copy comes to lie behind the splitter.  One that is opened there is lost;
\* one that is not is still held, with the head as its source
PutBack == IF mmapPosition' = Head(graph) THEN graph ELSE Inserted(graph, mmapPosition', "mmapSplitter")
StillHeld == IF mmapPosition' = Head(graph) THEN "onHead" ELSE mmapSubgraph

\* faulty: taken for resumed although its place was not found or it was not opened, see GraphServesViewer
UnpauseAnyway ==
  /\ mmapPosition' = Position(view')
  /\ mmapSubgraph' = None /\ mmapPaused' = FALSE
  /\ \/ InGraph(mmapPosition') /\ graph' = PutBack
     \/ UNCHANGED graph

Unpause ==
  /\ mmapPosition' = Position(view')
  /\ \/ ~InGraph(mmapPosition') /\ UNCHANGED <<graph, mmapSubgraph, mmapPaused>>
     \/ /\ InGraph(mmapPosition')
        /\ graph' = PutBack
        /\ \/ mmapSubgraph' = None /\ mmapPaused' = FALSE
           \/ mmapSubgraph' = StillHeld /\ UNCHANGED mmapPaused      \* inserted, but not opened

\* a splitter that is put into the graph a second time becomes its own source, and one that
\* has the head as its source releases it first, and with it the graph
OpenMmap(filename) ==
  /\ Open /\ UNCHANGED <<isRunning, camera, audioVolume, view, ended>>
  /\ \/ /\ mmapFilename # filename
        /\ IF CutOff THEN Crash ELSE UNCHANGED status /\ PutMmap(Closed, filename)
     \/ /\ mmapFilename = filename /\ CanUnpause
        /\ IF (InGraph("mmapSplitter") /\ ~CutOff) \/ mmapSubgraph = "onHead"
             THEN Crash
             ELSE Unpause /\ UNCHANGED <<status, mmapFilename, mmapOpened>>

\* _pause_mmap(1) calls remove_element with a copy of the head: a splitter at the head is
\* detached from its source, and stays the head
Detached == IF Head(graph) = "mmapSplitter" THEN <<"mmapSplitter">> ELSE Closed

CanPause ==
  /\ ~mmapPaused /\ mmapFilename # None
  /\ mmapSubgraph = None /\ InGraph("mmapSplitter")

CloseMmap ==
  /\ Open /\ CanPause
  /\ graph' = Detached
  /\ mmapSubgraph' = "mmapSplitter" /\ mmapPosition' = None /\ mmapPaused' = TRUE
  /\ UNCHANGED <<status, isRunning, camera, audioVolume, mmapFilename, mmapOpened, view, ended>>

\* set_mmap_params.  A map whose place changes is opened again, and so is one that is paused,
\* which has no place; one that stays in its place is taken out, changed and put back.
Repositions == mmapFilename # None /\ Position(view') # mmapPosition

Reconfigure ==
  /\ UNCHANGED <<status, mmapFilename, mmapOpened>>
  /\ IF ~CanPause
       THEN UNCHANGED <<graph, mmapSubgraph, mmapPosition, mmapPaused>>
       ELSE /\ mmapPosition' = Position(view')
            /\ IF Head(graph) = "mmapSplitter"
                 THEN graph' = Detached /\ mmapSubgraph' = "mmapSplitter" /\ mmapPaused' = TRUE
                 ELSE /\ UNCHANGED graph
                      /\ \/ UNCHANGED <<mmapSubgraph, mmapPaused>>
                         \/ mmapSubgraph' = "mmapSplitter" /\ mmapPaused' = TRUE

SetMmapParams(v) ==
  /\ Open /\ v # view /\ view' = v
  /\ UNCHANGED <<isRunning, camera, audioVolume, ended>>
  /\ IF Repositions
       THEN IF CutOff THEN Crash ELSE UNCHANGED status /\ PutMmap(Closed, mmapFilename)
       ELSE Reconfigure

-----------------------------------------------------------------------------
(***************************************************************************)
(* The live stream, the audio and the end.                                 *)
(***************************************************************************)

\* faulty: a live stream that is prepared again is inserted again, see GraphServesViewer
PrepareLiveAgain(remux) ==
  /\ Open /\ ~CutOff /\ Len(graph) < 20
  /\ graph' = Inserted(graph, "demux", "hls")
  /\ UNCHANGED <<status, isRunning, camera, audioVolume, mmap, ended>>

\* enable_live_stream_base, which needs no encoder when the profile is sent as it was received
PrepareLive(remux) ==
  /\ Open /\ ~CutOff /\ ~InGraph("hls")
  /\ LET hasDecoder   == InGraph("decoder")
         needsEncoder == ~remux \/ ~hasDecoder
     IN graph' = Inserted(graph, IF needsEncoder /\ hasDecoder THEN "decoder" ELSE "demux", "hls")
  /\ UNCHANGED <<status, isRunning, camera, audioVolume, mmap, ended>>

\* _enable_audio_playback, which reports nothing: in a graph that is cut off it fails, and is
\* taken for done
SetAudioVolume(volume) ==
  /\ Open /\ hasAudio /\ volume # audioVolume
  /\ audioVolume' = volume
  /\ graph' = IF CutOff THEN graph
              ELSE IF volume = 1 THEN WithAudio(graph, "tc_edge")
              ELSE Removed(Removed(graph, "audio_decode"), "audio_render")
  /\ UNCHANGED <<status, isRunning, camera, mmap, ended>>

FreeStreamData ==
  /\ Open
  /\ IF CutOff
       THEN Crash
       ELSE /\ status' = "closed" /\ graph' = << >>
            /\ mmapFilename' = None /\ mmapSubgraph' = None
            /\ UNCHANGED <<mmapPosition, mmapPaused, mmapOpened>>
  /\ UNCHANGED <<isRunning, camera, audioVolume, view, ended>>

SessionNext ==
  \/ OpenStream \/ GetNewFrame \/ SourceEnds \/ CloseMmap \/ FreeStreamData
  \/ \E f \in Filenames : OpenMmap(f)
  \/ \E v \in Views : SetMmapParams(v)
  \/ \E remux \in BOOLEAN : PrepareLive(remux)
  \/ \E volume \in {0, 1} : SetAudioVolume(volume)

SessionSpec == SessionInit /\ [][SessionNext]_sessionVars

-----------------------------------------------------------------------------
(***************************************************************************)
(* Properties.                                                             *)
(***************************************************************************)
Whole == Open /\ ~CutOff
Upstream(e1, e2) == InGraph(e1) /\ InGraph(e2) => Place(graph, e1) > Place(graph, e2)

\* Whatever was put into the graph and taken out of it while it ran, its elements lie in the
\* order of the diagram in open_input (videolib.c:469): the recorder and the live stream see
\* every frame, upstream of the thread connector that drops frames; the synchroniser lies
\* downstream of the recorder; audio is decoded before it is played; the camera is the source;
\* and none is there twice.
ElementsInOrder ==
  Whole =>
    /\ IsInjective(graph)
    /\ Last(graph) = "demux"
    /\ Upstream("decoder", "tc_edge")
    /\ Upstream("tc_edge", "procPixfmt") /\ Upstream("procPixfmt", "procResize")
    /\ Upstream("fileRecorder", "tc_edge") /\ Upstream("tc_edge", "fileRecorderSync")
    /\ Upstream("hls", "tc_edge")
    /\ Upstream("audio_decode", "audio_render")
    /\ (audioVolume = 1) <=> ({"audio_decode", "audio_render"} \subseteq Range(graph))

\* The map in the graph is where the present view needs it, after any sequence of changes of
\* the view, pauses and resumptions: a small view takes the frames that were resized for the
\* analysis, a large one those before, and a large one that is faster than the analysis those
\* upstream of the thread connector that limits the rate.
MmapFitsView ==
  Whole /\ InGraph("mmapSplitter") =>
    /\ Large(view) <=> (Place(graph, "mmapSplitter") > Place(graph, "procResize"))
    /\ Large(view) /\ view.fps > Fps => Place(graph, "mmapSplitter") > Place(graph, "tc_edge")

\* A map that has a name, whose last opening succeeded and which is not paused is in the
\* graph: no call takes it out and leaves it for served.  open_mmap relies on that when it
\* returns without opening the map of that name again (videolib.c:1104).  The exception is a
\* map that was resumed where its place is the head of the graph: see ResumedMapIsServed.
ViewerIsServed ==
  Whole /\ mmapFilename # None /\ mmapOpened /\ ~mmapPaused =>
    InGraph("mmapSplitter") \/ mmapPosition = Head(graph)

\* A map that is not paused is active and does not need to be opened again (the comment at
\* videolib.c:1104, where open_mmap returns on the strength of it).  It does not hold: see PutBack.
ResumedMapIsServed ==
  Whole /\ mmapFilename # None /\ mmapOpened /\ ~mmapPaused => InGraph("mmapSplitter")

\* Together: the viewer is served, at the place for its view, by a graph that is in order.
GraphServesViewer == ElementsInOrder /\ MmapFitsView /\ ViewerIsServed
=============================================================================
