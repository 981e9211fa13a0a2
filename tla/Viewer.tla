------------------------------- MODULE Viewer -------------------------------
(***************************************************************************)
(* What other threads and processes see of a session: the memory map with  *)
(* the pictures of the stream (stream_mmap.cpp behind a resize factory,    *)
(* and sv_open_mmap of sv_os.cpp), and the newest frame as a JPEG          *)
(* (get_newest_frame_as_jpeg of videolib.c, called from a thread that is   *)
(* not the reader's).                                                      *)
(*                                                                         *)
(* A picture is its size.  Maps that are in the graph can be opened again. *)
(* Sizes of frames reach the sink while the graph runs, on whichever       *)
(* thread reads the part of the graph the map is in.                       *)
(***************************************************************************)
EXTENDS Session, Images

CONSTANTS
  Camera,    \* the picture the camera sends
  Requests   \* sizes that JPEGs are asked for

ASSUME ViewerAssumption ==
  /\ Camera \in Image /\ Camera.pix # "NV12"
  /\ Requests \subseteq [w : Int, h : Int]

VARIABLES
  sink,           \* the map's resize factory and sink: their settings, the announced size, the room
  memory,         \* what the other process finds under each name
  refs,           \* references to each frame object
  lastFrameRead,
  frameData,      \* the frame the application processes
  jpeg            \* the frame a JPEG is made of, and the size of the JPEG

maps       == <<sink, memory>>
frames     == <<refs, lastFrameRead, frameData, jpeg>>
viewerVars == <<sessionVars, maps, frames>>

NoFrame  == 0
FrameIds == 1..3    \* bound: the frames that are in use at a time
NoJpeg   == [frame |-> NoFrame, size |-> [w |-> 0, h |-> 0]]
NoSink   == [asked |-> OnlyFormat("RGB24"), pending |-> FALSE, size |-> [w |-> 0, h |-> 0], room |-> 0]

\* a map that is closed, and one just opened, whose first byte keeps the other process from
\* removing it
Zeroed == [w |-> -1, h |-> -1]
Blank  == [w |-> 0, h |-> 0]

SizeOf(image) == [w |-> image.w, h |-> image.h]

ViewerInit ==
  /\ SessionInit
  /\ sink = NoSink /\ memory = [f \in Filenames |-> Zeroed]
  /\ refs = [f \in FrameIds |-> 0]
  /\ lastFrameRead = NoFrame /\ frameData = NoFrame /\ jpeg = NoJpeg

-----------------------------------------------------------------------------
(***************************************************************************)
(* The map's part of the graph.                                            *)
(***************************************************************************)
Rgb(size) == [w |-> size.w, h |-> size.h, pix |-> "RGB24"]
Fitted(height) == Rgb(PreserveAspectRatio(Camera, [w |-> (16 * height) \div 9, h |-> height]))

\* the frames where the map is
ProcImage == Fitted(ProcHeight)
SourceAt(place) ==
  CASE place = "procResize" -> ProcImage
    [] place = "procPixfmt" -> [Camera EXCEPT !.pix = "RGB24"]
    [] OTHER                -> Camera

\* set_mmap_params: a size with both dimensions takes the camera's aspect ratio
Asked(v) == IF v.height = 0 THEN OnlyFormat("RGB24") ELSE Fitted(v.height)

\* _mmapsink_open: room for a picture of the announced size, a header and a trailer
Room(image) == 32 + 3 * image.w * image.h + 1024

OpenedSink(asked, in) ==
  LET announced == Resized(Constrained(asked, in), in)
  IN [asked |-> Constrained(asked, in), pending |-> FALSE, size |-> SizeOf(announced), room |-> Room(announced)]

\* sv_close_mmap clears the old map, sv_open_mmap makes one whose first byte is set
Remapped(name, opened) ==
  LET cleared == IF mmapFilename \in Filenames THEN [memory EXCEPT ![mmapFilename] = Zeroed] ELSE memory
  IN IF opened THEN [cleared EXCEPT ![name] = Blank] ELSE cleared

\* open_mmap with a map that is not there yet
NewMap(name) ==
  /\ sink' = IF mmapOpened' THEN OpenedSink(Asked(view'), SourceAt(mmapPosition')) ELSE NoSink
  /\ memory' = Remapped(name, mmapOpened')

SameMap == UNCHANGED maps

\* resize_base_set_param "updateSize": the filter is opened again when it is read next
UpdateSize == sink' = [sink EXCEPT !.asked = Asked(view'), !.pending = TRUE] /\ UNCHANGED memory

\* faulty: the map stays as it was opened, see ViewerSeesItsView
KeepsItsRoom(s, resized, image) == [resized EXCEPT !.size = SizeOf(image), !.room = s.room]

\* mmapsink_stream_read_frame: a frame of another size than the last
RoomFor(s, resized, image) ==
  IF SizeOf(image) = s.size THEN [s EXCEPT !.asked = resized.asked, !.pending = FALSE] ELSE resized

FrameArrives ==
  /\ Open /\ isRunning /\ ~CutOff /\ ~ended /\ InGraph("mmapSplitter")
  /\ LET in    == SourceAt(mmapPosition)
         image == Delivered(IF sink.pending THEN Constrained(sink.asked, in) ELSE sink.asked, in)
     IN /\ sink' = RoomFor(sink, OpenedSink(sink.asked, in), image)
        /\ memory' = [memory EXCEPT ![mmapFilename] =
                        IF 3 * image.w * image.h + 32 <= sink'.room THEN SizeOf(image)
                        ELSE IF sink'.room = sink.room THEN @ ELSE Blank]
  /\ UNCHANGED <<sessionVars, frames>>

-----------------------------------------------------------------------------
(***************************************************************************)
(* The session's calls, with the map they open, change and close.          *)
(***************************************************************************)
ViewerOpensMmap(f) ==
  /\ OpenMmap(f) /\ UNCHANGED frames
  /\ IF status' = "open" /\ mmapFilename # f THEN NewMap(f) ELSE SameMap

ViewerSetsParams(v) ==
  /\ SetMmapParams(v) /\ UNCHANGED frames
  /\ IF status' # "open" THEN SameMap
     ELSE IF Repositions THEN NewMap(mmapFilename)
     ELSE IF CanPause \/ mmapSubgraph # None THEN UpdateSize ELSE SameMap

Others ==
  /\ \/ OpenStream \/ SourceEnds \/ CloseMmap
     \/ \E remux \in BOOLEAN : PrepareLive(remux)
     \/ \E volume \in {0, 1} : SetAudioVolume(volume)
  /\ UNCHANGED <<maps, frames>>

-----------------------------------------------------------------------------
(***************************************************************************)
(* The frames.  The application has one at a time.                         *)
(***************************************************************************)
With(f, n, counts) == IF f = NoFrame THEN counts ELSE [counts EXCEPT ![f] = @ + n]

Unused == Min({f \in FrameIds : refs[f] = 0})

\* get_new_frame: the frame is the application's and remembered
ReaderGetsFrame ==
  /\ frameData = NoFrame /\ GetNewFrame /\ UNCHANGED maps
  /\ IF isRunning'
       THEN /\ lastFrameRead' = Unused /\ frameData' = Unused
            /\ refs' = With(Unused, 2, With(lastFrameRead, -1, refs))
       ELSE UNCHANGED <<refs, lastFrameRead, frameData>>
  /\ UNCHANGED jpeg

FreeFrame ==
  /\ frameData # NoFrame /\ frameData' = NoFrame
  /\ refs' = With(frameData, -1, refs)
  /\ UNCHANGED <<sessionVars, maps, lastFrameRead, jpeg>>

\* at least 16 pixels, so that the scaler does not fail, and never more than the frame has
Clamped(n, limit) == Min({IF n < 16 THEN 16 ELSE n, limit})
JpegSize(size) ==
  PreserveAspectRatio(ProcImage, [w |-> Clamped(size.w, ProcImage.w), h |-> Clamped(size.h, ProcImage.h)])

\* faulty: the frame is used without a reference to it, see JpegKeepsItsFrame
JpegBorrows(size) ==
  /\ Open /\ jpeg = NoJpeg /\ lastFrameRead # NoFrame
  /\ jpeg' = [frame |-> lastFrameRead, size |-> JpegSize(size)]
  /\ UNCHANGED <<sessionVars, maps, refs, lastFrameRead, frameData>>

JpegBegins(size) ==
  /\ Open /\ jpeg = NoJpeg /\ lastFrameRead # NoFrame
  /\ jpeg' = [frame |-> lastFrameRead, size |-> JpegSize(size)]
  /\ refs' = With(lastFrameRead, 1, refs)
  /\ UNCHANGED <<sessionVars, maps, lastFrameRead, frameData>>

JpegEnds ==
  /\ jpeg # NoJpeg /\ jpeg' = NoJpeg
  /\ refs' = With(jpeg.frame, -1, refs)
  /\ UNCHANGED <<sessionVars, maps, lastFrameRead, frameData>>

\* free_stream_data destroys the graph with its map
StreamIsFreed ==
  /\ jpeg = NoJpeg /\ FreeStreamData
  /\ IF status' = "closed"
       THEN /\ sink' = NoSink /\ memory' = Remapped(None, FALSE)
            /\ lastFrameRead' = NoFrame /\ refs' = With(lastFrameRead, -1, refs)
       ELSE UNCHANGED <<maps, lastFrameRead, refs>>
  /\ UNCHANGED <<frameData, jpeg>>

ViewerNext ==
  \/ Others \/ FrameArrives \/ ReaderGetsFrame \/ FreeFrame \/ JpegEnds \/ StreamIsFreed
  \/ \E f \in Filenames : ViewerOpensMmap(f)
  \/ \E v \in Views : ViewerSetsParams(v)
  \/ \E size \in Requests : JpegBegins(size)

ViewerSpec == ViewerInit /\ [][ViewerNext]_viewerVars

-----------------------------------------------------------------------------
(***************************************************************************)
(* Properties.                                                             *)
(***************************************************************************)
\* Every frame that reaches the map is copied into it, in the size of the view that was asked
\* for last: through changes of the view that take effect when the next frame is read, pauses,
\* a move of the map to a place with other frames and other maps in between, the map has room
\* for what is written (stream_mmap.cpp:210-252).
ViewerSeesItsView ==
  [][FrameArrives =>
       LET in == SourceAt(Position(view))
       IN memory'[mmapFilename] = SizeOf(Resized(Asked(view), in))]_viewerVars

\* A frame has exactly the references of the application, the session and the JPEG that is
\* being made, so none is freed under the thread that compresses it, whatever is read and
\* freed meanwhile; and the JPEG has pixels and no more of them than the frame.
JpegKeepsItsFrame ==
  /\ \A f \in FrameIds :
       refs[f] = Quantify({"last", "data", "jpeg"}, LAMBDA who :
                   CASE who = "last" -> lastFrameRead = f
                     [] who = "data" -> frameData = f
                     [] who = "jpeg" -> jpeg.frame = f)
  /\ jpeg # NoJpeg => jpeg.size.w \in 4..ProcImage.w /\ jpeg.size.h \in 4..ProcImage.h
=============================================================================
