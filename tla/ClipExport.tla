------------------------------ MODULE ClipExport ------------------------------
(***************************************************************************)
(* create_clip (src/videolib/videolib.c): a part of one or more recorded   *)
(* files is written to a new one.  The elements of its graph read one      *)
(* another, in one thread: the demux and the iterator over the files, and, *)
(* unless the packets are copied, the decoder, the fps limiter, the filter *)
(* that writes the time on the pictures, the one that resizes them, the    *)
(* injector of the preloaded boxes, the filter that draws them, the        *)
(* encoder, and before it the converter to a format it takes.              *)
(*                                                                         *)
(* pc is the element that runs; got is what the element it has called has  *)
(* returned.  A packet is a time and a kind; a file is its packets, and    *)
(* the size and format of its pictures.  What the recorder does with the   *)
(* packets is the subject of Recording.                                    *)
(***************************************************************************)
EXTENDS Images, Sequences, SequencesExt

CONSTANTS
  Clips,        \* the calls: files, offsets and images, the part wanted, the options and the boxes
  CodecDelay,   \* how many frames the decoder keeps until the next packet, or the end
  EncoderDelay, \* the same of the encoder, which is never told of the end
  BoxDuration,  \* BBOX_DURATION
  MaxDistance,  \* _kMaxApplicableMetadataDistance
  Nothing, Error, None,
  MaxFailures   \* bound: files that do not open, packets that cannot be read or decoded

Packet == [pts : Int, kind : {"key", "delta", "audio"}]
Frame == [pts : Int, kind : {"key", "delta", "audio"}, image : Image]
\* profile and size are codecConfig's, None and zero without one
Clip == [files : Seq(Seq(Packet)), offsets : Seq(Nat), images : Seq(Image), first : Nat, last : Nat,
         profile : {None, "original", "encode"}, size : [w : Nat, h : Nat],
         format : {"H264", "MJPEG", "GIF"}, limit : BOOLEAN, stamps : BOOLEAN,
         boxes : Seq([pts : Int, uid : Nat])]

ASSUME ClipExportAssumption ==
  /\ \A c \in Clips :
       /\ c \in Clip /\ Len(c.files) = Len(c.offsets) /\ Len(c.files) = Len(c.images)
       /\ Len(c.files) > 0 /\ c.first <= c.last
       /\ c.profile = None => c.size = [w |-> 0, h |-> 0]
       /\ \A f \in Range(c.files) : f # << >> /\ f[1].kind = "key" /\ f[1].pts = 0
       /\ \A i, j \in DOMAIN c.boxes : i < j => c.boxes[i].pts <= c.boxes[j].pts
  /\ {CodecDelay, EncoderDelay, BoxDuration, MaxDistance, MaxFailures} \subseteq Nat

VARIABLES
  clip, pc, got,
  opening,                  \* the decoder reads its first frame while it is opened
  graph, resized, encoded,  \* the elements, and the images that the last filter and the encoder are opened for
  currentURL, isOpen, packets, demuxEof, listEof,
  started,                  \* packetsProcessedInFile is not zero, by medium
  fileOffset,               \* by medium
  shape,                    \* what the decoder announces: the image of its first frame
  codec, decoderEof, seekingTo, prevSeekFrame, nextFrameToReturn, lastOutputPts, producing,
  dataFrames, metadataFrames, injectorEof,
  accepted,                 \* the limiter has let a frame through
  current, future,          \* the boxes the filter draws, and the next ones it has looked up
  inEncoder,
  written, realFirstMs, canceled, failures,
  injected,                 \* history: what the injector has returned
  drawn                     \* history: the boxes drawn on the last frame

input    == <<currentURL, isOpen, packets, demuxEof, listEof, started, fileOffset>>
seeking  == <<seekingTo, prevSeekFrame, nextFrameToReturn>>
decoder  == <<shape, codec, decoderEof, seeking, lastOutputPts, producing>>
injector == <<dataFrames, metadataFrames, injectorEof, injected>>
filter   == <<current, future, drawn>>
output   == <<written, realFirstMs, canceled>>
built    == <<clip, graph, resized, encoded>>
elements == <<input, decoder, accepted, injector, filter, inEncoder>>
vars     == <<built, pc, got, opening, elements, output, failures>>

Known(x) == x # None
IsVideo(p) == p.kind \in {"key", "delta"}
Medium(p) == IF IsVideo(p) THEN "video" ELSE "audio"
Videos(s) == SelectSeq(s, IsVideo)
At(p, ts) == [p EXCEPT !.pts = ts]
AsPacket(f) == [pts |-> f.pts, kind |-> f.kind]

-----------------------------------------------------------------------------
(***************************************************************************)
(* The graph.                                                              *)
(***************************************************************************)
UsesDecoder(c) ==
  IF c.profile = None THEN c.stamps \/ c.boxes # << >> \/ c.format # "H264" ELSE c.profile = "encode"

\* the resize filter's setting
ResizeSetting ==
  [w |-> clip.size.w, h |-> clip.size.h, pix |-> IF clip.stamps \/ clip.boxes # << >> THEN "RGB24" ELSE Undefined]

\* what works as a passthrough is left out
WithConverter(image) == IF NeedsConverter(clip.format, image) THEN <<"convert">> ELSE << >>
WithBoxes == IF clip.boxes # << >> THEN <<"filter", "inject">> ELSE << >>
WithResize == IF IsPassthrough(ResizeSetting, shape) THEN << >> ELSE <<"resize">>
WithStamps == IF clip.stamps THEN <<"stamp">> ELSE << >>
Downstream(image) == <<"loop", "encode">> \o WithConverter(image) \o WithBoxes \o WithResize
ToDecoder == WithStamps \o (IF clip.limit THEN <<"limit">> ELSE << >>) \o <<"decode", "list">>
Place(e) == SelectInSeq(graph, LAMBDA x : x = e)
Above(e) == IF opening /\ e = "decode" THEN "open" ELSE graph[Place(e) - 1]
Below(e) == graph[Place(e) + 1]

Call == pc' = Below(pc) /\ got' = Nothing
Return(x) == pc' = Above(pc) /\ got' = x
Stay == pc' = pc /\ got' = Nothing
Runs(e) == pc = e /\ got = Nothing
Gets(e) == pc = e /\ got \notin {Nothing, Error}
GetsError(e) == pc = e /\ got = Error
Fails == failures < MaxFailures /\ failures' = failures + 1

NoFrame == [pts |-> None, uids |-> {}]
Init ==
  /\ clip \in Clips
  /\ pc = "create" /\ got = Nothing /\ opening = FALSE
  /\ graph = << >> /\ resized = None /\ encoded = None
  /\ currentURL = 1 /\ isOpen = FALSE /\ packets = << >> /\ demuxEof = FALSE /\ listEof = FALSE
  /\ started = [m \in {"audio", "video"} |-> FALSE] /\ fileOffset = [m \in {"audio", "video"} |-> 0]
  /\ shape = None /\ codec = << >> /\ decoderEof = FALSE /\ lastOutputPts = 0 /\ producing = FALSE
  /\ seekingTo = None /\ prevSeekFrame = None /\ nextFrameToReturn = None
  /\ dataFrames = << >> /\ metadataFrames = << >> /\ injectorEof = FALSE
  /\ accepted = FALSE /\ current = NoFrame /\ future = NoFrame /\ inEncoder = << >>
  /\ written = << >> /\ realFirstMs = -1 /\ canceled = FALSE /\ failures = 0
  /\ injected = << >> /\ drawn = [pts |-> None, boxes |-> {}]

-----------------------------------------------------------------------------
(***************************************************************************)
(* The iterator over the files, and the demux.                             *)
(***************************************************************************)
\* _list_open_source: the demux is closed and opened on another file
OpenSource(url, from) ==
  /\ currentURL' = url
  /\ isOpen' = TRUE /\ demuxEof' = FALSE
  /\ packets' = from
  /\ started' = [m \in {"audio", "video"} |-> FALSE]

OpenSourceFails(url) ==
  /\ Fails
  /\ currentURL' = url
  /\ isOpen' = FALSE /\ demuxEof' = FALSE /\ packets' = << >>
  /\ started' = [m \in {"audio", "video"} |-> FALSE]

\* faulty: the offset of the file before is kept, see ClipIsWhole
OffsetOfFirst(m) == IF fileOffset[m] = 0 THEN clip.offsets[currentURL] ELSE fileOffset[m]
OffsetOf(m) == IF started[m] THEN fileOffset[m] ELSE clip.offsets[currentURL]

ReadPacket ==
  /\ Runs("list") /\ ~listEof /\ isOpen /\ packets # << >>
  /\ LET p == Head(packets)
         offset == OffsetOf(Medium(p))
     IN /\ fileOffset' = [fileOffset EXCEPT ![Medium(p)] = offset]
        /\ started' = [started EXCEPT ![Medium(p)] = TRUE]
        /\ Return([pts |-> p.pts + offset, kind |-> p.kind, image |-> clip.images[currentURL]])
  /\ packets' = Tail(packets)
  /\ UNCHANGED <<built, opening, currentURL, isOpen, demuxEof, listEof,
                 decoder, accepted, injector, filter, inEncoder, output, failures>>

AtEndOfFile == Runs("list") /\ ~listEof /\ isOpen /\ packets = << >>

NextFile ==
  /\ AtEndOfFile /\ currentURL < Len(clip.files)
  /\ \/ OpenSource(currentURL + 1, clip.files[currentURL + 1]) /\ Stay /\ UNCHANGED failures
     \/ OpenSourceFails(currentURL + 1) /\ Return(Error)
  /\ UNCHANGED <<built, opening, listEof, fileOffset,
                 decoder, accepted, injector, filter, inEncoder, output>>

EndOfList ==
  /\ AtEndOfFile /\ currentURL = Len(clip.files)
  /\ demuxEof' = TRUE /\ listEof' = TRUE
  /\ Return(Error)
  /\ UNCHANGED <<built, opening, currentURL, isOpen, packets, started, fileOffset,
                 decoder, accepted, injector, filter, inEncoder, output, failures>>

\* the end was reached before, and no seek has cleared it
ReadAfterEnd ==
  /\ Runs("list") /\ (listEof \/ ~isOpen)
  /\ Return(Error)
  /\ UNCHANGED <<built, opening, elements, output, failures>>

ReadFails ==
  /\ Runs("list") /\ ~listEof /\ isOpen
  /\ Fails /\ Return(Error)
  /\ demuxEof' = FALSE
  /\ UNCHANGED <<built, opening, currentURL, isOpen, packets, listEof, started, fileOffset,
                 decoder, accepted, injector, filter, inEncoder, output>>

\* the file that holds an offset: the last one that starts at or before it
FileOf(offset) ==
  Min({i \in DOMAIN clip.files : i = Len(clip.files) \/ offset < clip.offsets[i + 1]})
OffsetInFile(offset, i) == Max({0, offset - clip.offsets[i]})
\* av_seek_frame, backward: the packets from the last keyframe at or before the offset
PacketsFrom(file, offset) ==
  SubSeq(file, Max({i \in DOMAIN file : file[i].kind = "key" /\ file[i].pts <= offset}), Len(file))

-----------------------------------------------------------------------------
(***************************************************************************)
(* Opening and positioning the graph.                                      *)
(***************************************************************************)
Fail == pc' = "done" /\ got' = Error

Create ==
  /\ pc = "create"
  /\ graph' = IF UsesDecoder(clip) THEN ToDecoder ELSE <<"loop", "list">>
  /\ \/ /\ OpenSource(1, clip.files[1]) /\ UNCHANGED failures
        /\ opening' = UsesDecoder(clip)
        /\ pc' = (IF UsesDecoder(clip) THEN "decode" ELSE "seek") /\ got' = Nothing
     \/ OpenSourceFails(1) /\ Fail /\ UNCHANGED opening
  /\ UNCHANGED <<clip, resized, encoded, listEof, fileOffset, decoder, accepted, injector, filter, inEncoder, output>>

\* ffdec_stream_open_in: the first video frame, which the seek below gives back.  Then those that
\* read the decoder are opened.
OpenedDecoder ==
  /\ Gets("open")
  /\ IF IsVideo(got)
       THEN /\ pc' = "seek" /\ opening' = FALSE
            /\ resized' = Resized(ResizeSetting, shape)
            /\ encoded' = EncoderImage(clip.format, resized')
            /\ graph' = Downstream(resized') \o ToDecoder
       ELSE pc' = "decode" /\ UNCHANGED <<opening, graph, resized, encoded>>
  /\ got' = Nothing
  /\ UNCHANGED <<clip, elements, output, failures>>

OpenFails ==
  /\ GetsError("open")
  /\ Fail /\ opening' = FALSE
  /\ UNCHANGED <<built, elements, output, failures>>

\* _preload_metadata: boxes of one time that follow each other become one frame
Metadata ==
  FoldLeft(LAMBDA sets, b :
             IF sets # << >> /\ Last(sets).pts = b.pts
               THEN [sets EXCEPT ![Len(sets)].uids = @ \cup {b.uid}]
               ELSE Append(sets, [pts |-> b.pts, uids |-> {b.uid}]), << >>, clip.boxes)
Preloaded(offset) == SelectSeq(Metadata, LAMBDA b : b.pts + MaxDistance >= offset)

\* ffdec_stream_seek, metainject_filter_seek and ff_filter_seek
SeekElements ==
  /\ codec' = << >> /\ decoderEof' = FALSE /\ producing' = FALSE
  /\ prevSeekFrame' = None /\ nextFrameToReturn' = None
  /\ seekingTo' = IF UsesDecoder(clip) THEN clip.first ELSE None
  /\ dataFrames' = << >> /\ metadataFrames' = Preloaded(clip.first) /\ injectorEof' = FALSE
  /\ current' = NoFrame /\ future' = NoFrame

Seek ==
  /\ pc = "seek"
  /\ LET i == FileOf(clip.first)
         from == PacketsFrom(clip.files[i], OffsetInFile(clip.first, i))
     IN \/ /\ i = currentURL
           /\ packets' = from
           /\ UNCHANGED <<currentURL, isOpen, demuxEof, started, failures>>
           /\ SeekElements /\ pc' = "loop" /\ got' = Nothing
        \/ /\ i # currentURL
           /\ OpenSource(i, from) /\ UNCHANGED failures
           /\ SeekElements /\ pc' = "loop" /\ got' = Nothing
        \/ /\ i # currentURL
           /\ OpenSourceFails(i) /\ Fail
           /\ UNCHANGED <<decoder, dataFrames, metadataFrames, injectorEof, current, future>>
  /\ UNCHANGED <<built, opening, listEof, fileOffset, shape, lastOutputPts, accepted, injected, drawn, inEncoder, output>>

-----------------------------------------------------------------------------
(***************************************************************************)
(* The decoder.                                                            *)
(***************************************************************************)
ReturnStored ==
  /\ Runs("decode") /\ Known(nextFrameToReturn)
  /\ Return(nextFrameToReturn)
  /\ nextFrameToReturn' = None
  /\ UNCHANGED <<built, opening, input, shape, codec, decoderEof, seekingTo, prevSeekFrame, lastOutputPts, producing,
                 accepted, injector, filter, inEncoder, output, failures>>

HasDecoded == Len(codec) > CodecDelay \/ (decoderEof /\ codec # << >>)
Receives == Runs("decode") /\ ~Known(nextFrameToReturn) /\ HasDecoded
Decoded == Head(codec)
Stale == producing /\ lastOutputPts > Decoded.pts
\* faulty: the height may change, see EncoderGetsItsImages
FitsInWidth == Known(shape) => Decoded.image.w = shape.w /\ Decoded.image.pix = shape.pix
\* _ffdec_export_video_frame
Fits == Known(shape) => Decoded.image = shape

SkipStale ==
  /\ Receives /\ Stale
  /\ codec' = Tail(codec) /\ Stay
  /\ UNCHANGED <<built, opening, input, shape, decoderEof, seeking, lastOutputPts, producing,
                 accepted, injector, filter, inEncoder, output, failures>>

\* the frame at the position, else the one before it and then the one after
Reached ==
  IF Decoded.pts = seekingTo \/ ~Known(prevSeekFrame) THEN {Decoded} ELSE {prevSeekFrame, Decoded}

\* a picture of another size or format than the first one
RejectFrame ==
  /\ Receives /\ ~Stale /\ ~Fits
  /\ codec' = Tail(codec) /\ lastOutputPts' = Decoded.pts /\ producing' = TRUE
  /\ Return(Error)
  /\ UNCHANGED <<built, opening, input, shape, decoderEof, seeking, accepted, injector, filter,
                 inEncoder, output, failures>>

ReceiveFrame ==
  /\ Receives /\ ~Stale /\ Fits
  /\ shape' = Decoded.image
  /\ codec' = Tail(codec)
  /\ lastOutputPts' = Decoded.pts /\ producing' = TRUE
  /\ IF ~Known(seekingTo)
       THEN Return(Decoded) /\ UNCHANGED seeking
     ELSE IF Decoded.pts < seekingTo
       THEN prevSeekFrame' = Decoded /\ Stay /\ UNCHANGED <<seekingTo, nextFrameToReturn>>
     ELSE /\ seekingTo' = None /\ prevSeekFrame' = None
          /\ IF prevSeekFrame \in Reached
               THEN Return(prevSeekFrame) /\ nextFrameToReturn' = Decoded
               ELSE Return(Decoded) /\ UNCHANGED nextFrameToReturn
  /\ UNCHANGED <<built, opening, input, decoderEof, accepted, injector, filter, inEncoder, output, failures>>

NeedsPacket == Runs("decode") /\ ~Known(nextFrameToReturn) /\ ~HasDecoded

ReadForDecoder ==
  /\ NeedsPacket /\ ~decoderEof
  /\ Call
  /\ UNCHANGED <<built, opening, elements, output, failures>>

DecoderEnds ==
  /\ NeedsPacket /\ decoderEof
  /\ Return(Error)
  /\ UNCHANGED <<built, opening, elements, output, failures>>

SubmitPacket ==
  /\ Gets("decode")
  /\ \/ /\ ~IsVideo(got) /\ Return(got) /\ UNCHANGED <<codec, failures>>
     \/ /\ IsVideo(got) /\ Stay /\ codec' = Append(codec, got) /\ UNCHANGED failures
     \/ /\ IsVideo(got) /\ Return(Error) /\ Fails /\ UNCHANGED codec
  /\ UNCHANGED <<built, opening, input, shape, decoderEof, seeking, lastOutputPts, producing,
                 accepted, injector, filter, inEncoder, output>>

\* _ffdec_on_read_error: the iterator passes "eof" on, the answer is the demux's
FlushDecoder ==
  /\ GetsError("decode")
  /\ decoderEof' = demuxEof
  /\ IF demuxEof THEN Stay ELSE Return(Error)
  /\ UNCHANGED <<built, opening, input, shape, codec, seeking, lastOutputPts, producing,
                 accepted, injector, filter, inEncoder, output, failures>>

-----------------------------------------------------------------------------
(***************************************************************************)
(* The fps limiter: which frames it drops depends on their times, of which *)
(* it keeps an average; the first one it never drops.                      *)
(***************************************************************************)
Limit ==
  /\ pc = "limit"
  /\ \/ got = Nothing /\ Call /\ UNCHANGED accepted
     \/ /\ got # Nothing /\ Return(got)
        /\ accepted' = (accepted \/ (got # Error /\ IsVideo(got)))
     \/ Gets("limit") /\ IsVideo(got) /\ accepted /\ Call /\ UNCHANGED accepted
  /\ UNCHANGED <<built, opening, input, decoder, injector, filter, inEncoder, output, failures>>

-----------------------------------------------------------------------------
(***************************************************************************)
(* The elements that change the pictures and have no other state: the      *)
(* stamp, the resize filter and the converter.                             *)
(***************************************************************************)
ChangesPicture(e, image) ==
  /\ pc = e
  /\ \/ got = Nothing /\ Call /\ UNCHANGED failures
     \/ got # Nothing /\ UNCHANGED failures
          /\ Return(IF got # Error /\ IsVideo(got) THEN [got EXCEPT !.image = image] ELSE got)
     \/ Gets(e) /\ IsVideo(got) /\ Fails /\ Return(Error)
  /\ UNCHANGED <<built, opening, elements, output>>

Stamp == ChangesPicture("stamp", got.image)
Resize == ChangesPicture("resize", Delivered(ResizeSetting, shape))
Convert == ChangesPicture("convert", Delivered(ConverterSetting(clip.format), resized))

-----------------------------------------------------------------------------
(***************************************************************************)
(* The injector of preloaded metadata: _metainject_get_frame, and a read   *)
(* of the source when that has nothing.                                    *)
(***************************************************************************)
First == Head(dataFrames)
Second == Videos(dataFrames)[2]
Meta == Head(metadataFrames)
HasSecond == Len(Videos(dataFrames)) >= 2
\* faulty: the nearer frame is not looked for, see BoxesMeetTheirFrame
FirstIsAlwaysNearer == TRUE
FirstIsNearer == Meta.pts < Second.pts /\ Meta.pts - First.pts <= Second.pts - Meta.pts

\* what is returned next; Nothing if the source must be read first
NextFrame ==
  IF dataFrames = << >> THEN "nothing"
  ELSE IF ~IsVideo(First) \/ metadataFrames = << >> THEN "data"
  ELSE IF Meta.pts <= First.pts THEN "meta"
  ELSE IF ~HasSecond THEN (IF injectorEof THEN "data" ELSE "nothing")
  ELSE IF FirstIsNearer THEN "adjusted" ELSE "data"

ReturnData ==
  /\ Runs("inject") /\ NextFrame = "data"
  /\ Return(First)
  /\ dataFrames' = Tail(dataFrames)
  /\ injected' = IF IsVideo(First) THEN Append(injected, First) ELSE injected
  /\ UNCHANGED <<built, opening, input, decoder, accepted, metadataFrames, injectorEof, filter,
                 inEncoder, output, failures>>

AsFrame(box, ts) == [pts |-> ts, kind |-> "metadata", uids |-> box.uids]

ReturnMeta ==
  /\ Runs("inject") /\ NextFrame \in {"meta", "adjusted"}
  /\ Return(AsFrame(Meta, IF NextFrame = "adjusted" THEN First.pts ELSE Meta.pts))
  /\ metadataFrames' = Tail(metadataFrames)
  /\ injected' = Append(injected, AsFrame(Meta, Meta.pts))
  /\ UNCHANGED <<built, opening, input, decoder, accepted, dataFrames, injectorEof, filter,
                 inEncoder, output, failures>>

\* faulty: the end is not remembered, see ClipEnds
NeverAtEnd == FALSE
AtEnd == demuxEof

ReadForInjector ==
  /\ pc = "inject"
  /\ \/ /\ got = Nothing /\ NextFrame = "nothing"
        /\ IF injectorEof THEN Return(Error) ELSE Call
        /\ UNCHANGED <<dataFrames, injectorEof>>
     \/ /\ Gets("inject")
        /\ dataFrames' = Append(dataFrames, got) /\ Stay /\ UNCHANGED injectorEof
     \/ /\ got = Error
        /\ injectorEof' = AtEnd
        /\ (IF demuxEof THEN Stay ELSE Return(Error)) /\ UNCHANGED dataFrames
  /\ UNCHANGED <<built, opening, input, decoder, accepted, metadataFrames, injected, filter,
                 inEncoder, output, failures>>

-----------------------------------------------------------------------------
(***************************************************************************)
(* The filter that draws the boxes.                                        *)
(***************************************************************************)
Present(b) == Known(b.pts)
PassThrough ==
  /\ pc = "filter"
  /\ \/ got = Nothing /\ Call
     \/ GetsError("filter") /\ Return(Error)
     \/ Gets("filter") /\ got.kind = "audio" /\ Return(got)
  /\ UNCHANGED <<built, opening, elements, output, failures>>

TakeBoxes ==
  /\ Gets("filter") /\ got.kind = "metadata"
  /\ current' = [pts |-> got.pts, uids |-> got.uids]
  /\ future' = NoFrame
  /\ Return(got)
  /\ UNCHANGED <<built, opening, input, decoder, accepted, injector, drawn, inEncoder, output, failures>>

Boxes(f) == {[uid |-> u, pts |-> f.pts] : u \in f.uids}
\* _ff_filter_interpolate_metadata; interpolated boxes are known by both of their times
CanUseCurrent(cur, ts) == cur.pts + BoxDuration > ts
CanUseFuture(fut, ts) == Present(fut) /\ ts + BoxDuration <= fut.pts
Interpolated(cur, fut, ts) ==
  LET InBoth(f) == [f EXCEPT !.uids = cur.uids \cap fut.uids]
  IN IF CanUseCurrent(cur, ts)
       THEN IF CanUseFuture(fut, ts) THEN Boxes(InBoth(cur)) \cup Boxes(InBoth(fut)) ELSE Boxes(cur)
       ELSE IF CanUseFuture(fut, ts) THEN Boxes(fut) ELSE {}
\* "nextMetadata", the first that the injector holds
LookedUp(fut) == IF Present(fut) \/ metadataFrames = << >> THEN fut ELSE Meta

\* _ff_filter_determine_metadata
DrawBoxes ==
  /\ Gets("filter") /\ IsVideo(got)
  /\ LET ts        == got.pts
         activates == Present(future) /\ ts >= future.pts
         cur       == IF activates THEN future ELSE current
         fut       == IF activates THEN NoFrame ELSE future
         Draw(boxes) == drawn' = [pts |-> ts, boxes |-> boxes]
     IN \/ /\ ~Present(cur)
           /\ Draw({}) /\ current' = cur /\ future' = fut
        \/ /\ Present(cur) /\ ts < cur.pts
           /\ Draw({}) /\ current' = NoFrame /\ future' = NoFrame
        \/ /\ Present(cur) /\ ts = cur.pts
           /\ Draw(Boxes(cur)) /\ current' = cur /\ future' = fut
        \/ /\ Present(cur) /\ ts > cur.pts
           /\ Draw(Interpolated(cur, LookedUp(fut), ts)) /\ current' = cur /\ future' = LookedUp(fut)
  /\ Return(got)
  /\ UNCHANGED <<built, opening, input, decoder, accepted, injector, inEncoder, output, failures>>

-----------------------------------------------------------------------------
(***************************************************************************)
(* The encoder, and the loop in create_clip_base.                          *)
(***************************************************************************)
Encode ==
  /\ pc = "encode"
  /\ IF got = Nothing
       THEN IF Len(inEncoder) > EncoderDelay
              THEN Return(Head(inEncoder)) /\ inEncoder' = Tail(inEncoder)
              ELSE Call /\ UNCHANGED inEncoder
     ELSE IF got # Error /\ IsVideo(got)
       THEN Stay /\ inEncoder' = Append(inEncoder, AsPacket(got))
     ELSE Return(got) /\ UNCHANGED inEncoder
  /\ UNCHANGED <<built, opening, input, decoder, accepted, injector, filter, output, failures>>

ReadNext ==
  /\ Runs("loop")
  /\ Call
  /\ UNCHANGED <<built, opening, elements, output, failures>>

OverTime(p) == p.pts > 0 /\ p.pts >= clip.last /\ IsVideo(p)

FrameWritten ==
  /\ Gets("loop")
  /\ written' = IF IsVideo(got) THEN Append(written, AsPacket(got)) ELSE written
  /\ realFirstMs' = IF written = << >> /\ IsVideo(got) THEN got.pts ELSE realFirstMs
  /\ canceled' \in BOOLEAN
  /\ pc' = (IF canceled' \/ OverTime(got) THEN "done" ELSE "loop") /\ got' = Nothing
  /\ UNCHANGED <<built, opening, elements, failures>>

ReadError ==
  /\ GetsError("loop")
  /\ Fail
  /\ UNCHANGED <<built, opening, elements, output, failures>>

List == ReadPacket \/ NextFile \/ EndOfList \/ ReadAfterEnd \/ ReadFails
Decoder == ReturnStored \/ SkipStale \/ ReceiveFrame \/ ReadForDecoder \/ DecoderEnds \/ SubmitPacket \/ FlushDecoder
             \/ RejectFrame
Injector == ReturnData \/ ReturnMeta \/ ReadForInjector
Filter == PassThrough \/ TakeBoxes \/ DrawBoxes
Next ==
  \/ Create \/ OpenedDecoder \/ OpenFails \/ Seek
  \/ List \/ Decoder \/ Limit \/ Stamp \/ Resize \/ Convert \/ Injector \/ Filter \/ Encode
  \/ ReadNext \/ FrameWritten \/ ReadError

Spec == Init /\ [][Next]_vars
FairSpec == Spec /\ WF_vars(Next)

-----------------------------------------------------------------------------
(***************************************************************************)
(* What a clip should hold, from the call alone.                           *)
(***************************************************************************)
\* the packets of all files, one after the other, at their times in the whole
Timeline(c) ==
  FlattenSeq([i \in DOMAIN c.files |->
                [j \in DOMAIN c.files[i] |-> At(c.files[i][j], c.files[i][j].pts + c.offsets[i])]])
\* the last keyframe at or before the time wanted
FromKeyframe(c) ==
  LET w == Timeline(c)
  IN SubSeq(w, Max({1} \cup {i \in DOMAIN w : w[i].kind = "key" /\ w[i].pts <= c.first}), Len(w))
\* what the files hold twice, where they overlap, is decoded once
InOrder(s) ==
  FoldLeft(LAMBDA done, p : IF done = << >> \/ Last(done).pts <= p.pts THEN Append(done, p) ELSE done, << >>, s)
\* the frame shown at the time wanted, and those that follow
FromTime(s, ts) == SubSeq(s, Max({1} \cup {i \in DOMAIN s : s[i].pts <= ts}), Len(s))
Expected(c) ==
  IF UsesDecoder(c) THEN FromTime(InOrder(Videos(FromKeyframe(c))), c.first) ELSE Videos(FromKeyframe(c))
\* nothing at all is exported from files that the decoder reads to their end before it has a
\* frame, and from a time after the last frame; and nothing after a picture of another size
Exportable(c) ==
  UsesDecoder(c) =>
              /\ \A i \in DOMAIN c.images : c.images[i] = c.images[1]
              /\ Len(Videos(Timeline(c))) > CodecDelay
              /\ Expected(c)[Len(Expected(c))].pts >= c.first

-----------------------------------------------------------------------------
(***************************************************************************)
(* Properties.                                                             *)
(***************************************************************************)
\* A clip holds the frames of the files it was made from, each once and in order, across the
\* change from one file to the next: from the keyframe at or before the time wanted if
\* packets are copied, from the frame shown at that time if they are decoded, to the first frame
\* at or after the end wanted; or, if the files end before, all but those the encoder keeps
\* (stream_input_iterator.cpp:322-427, stream_ffmpeg_decoder.cpp:1090-1150, videolib.c:1868-1898).
ClipIsWhole ==
  pc = "done" =>
    /\ IF clip.limit
         THEN /\ Range(written) \subseteq Range(Expected(clip))
              /\ \A i \in 1..Len(written) - 1 : written[i].pts < written[i + 1].pts
              /\ written # << >> => written[1] = Expected(clip)[1]
         ELSE IsPrefix(written, Expected(clip))
    /\ failures = 0 /\ ~canceled /\ ~clip.limit /\ Exportable(clip) =>
         \/ written # << >> /\ OverTime(Last(written))
         \/ written \o inEncoder = Expected(clip)

Distance(a, b) == IF a.pts < b.pts THEN b.pts - a.pts ELSE a.pts - b.pts
InjectedVideo(is) == {i \in is : injected[i].kind # "metadata"}

\* Each set of boxes goes before the frame that is nearest to its time, none is late, and the
\* filter, which has looked the next ones up, never meets a frame they should have preceded; and
\* no box is drawn BBOX_DURATION after its time
\* (stream_metadata_injector.cpp:313-437, bounding_boxes.hpp:275-375).
BoxesMeetTheirFrame ==
  /\ \A i \in DOMAIN injected :
       IF injected[i].kind = "metadata"
         THEN LET before == InjectedVideo(1..i - 1)
                  after  == InjectedVideo(i + 1..Len(injected))
              IN after # {} =>
                   \A other \in (IF before = {} THEN {} ELSE {Max(before)}) \cup (after \ {Min(after)}) :
                     Distance(injected[i], injected[Min(after)]) <= Distance(injected[i], injected[other])
         ELSE \A m \in Range(metadataFrames) : m.pts > injected[i].pts
  /\ Gets("filter") /\ IsVideo(got) =>
       /\ Present(current) => current.pts <= got.pts
       /\ Present(future) => future.pts > got.pts
  /\ \A b \in drawn.boxes : b.pts + BoxDuration > drawn.pts

\* Every picture has the size and format that the element it is given to was opened for, which
\* reads that many bytes of it and does not look at its size: the encoder above all
\* (stream_ffmpeg_encoder.cpp:605-611), and so the stamp, the resize filter and the converter;
\* whatever the size of the files after the first, the size wanted and the codec's formats.
\* A converter that follows two steps is not among them: those announce another size.
OpenedFor(e) ==
  CASE e \in {"stamp", "resize"} -> shape [] e = "convert" -> resized [] e = "encode" -> encoded
EncoderGetsItsImages ==
  \A e \in {"stamp", "resize", "convert", "encode"} :
    Gets(e) /\ IsVideo(got) => got.image = OpenedFor(e) \/ (e = "convert" /\ TwoSteps(ResizeSetting, shape))

\* Every call ends, whatever fails: no element reads another for ever, at the end of the
\* files or at that of the metadata.
ClipEnds == <>(pc = "done")

=============================================================================
