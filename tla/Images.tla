-------------------------------- MODULE Images --------------------------------
(***************************************************************************)
(* The size and the pixel format of a picture, and what the elements that  *)
(* convert pictures make of them: the resize factory                       *)
(* (stream_resize_factory.cpp), its settings (stream_resize_base.cpp) and  *)
(* the converter that an encoder puts before itself                        *)
(* (stream_ffmpeg_encoder.cpp).  Ratios are exact here, and single         *)
(* precision numbers there.                                                *)
(***************************************************************************)
EXTENDS Integers, FiniteSetsExt

Undefined == "undefined"
Pixfmt == {"YUV420P", "YUVJ420P", "YUVJ422P", "NV12", "RGB24", "RGB8"}
Image == [w : Nat \ {0}, h : Nat \ {0}, pix : Pixfmt]
\* what a resize filter is told: zero for a dimension that is not given
Setting == [w : Nat, h : Nat, pix : Pixfmt \cup {Undefined}]
OnlyFormat(pix) == [w |-> 0, h |-> 0, pix |-> pix]

-----------------------------------------------------------------------------
(***************************************************************************)
(* The sizes.                                                              *)
(***************************************************************************)
Aligned(n) == n - (n % 4)
Nearest(a, b) == (2 * a + b) \div (2 * b)

\* videolibapi_preserve_aspect_ratio, with forceAlignment: the side that is too long shrinks
PreserveAspectRatio(in, size) ==
  [w |-> Aligned(IF in.w * size.h < in.h * size.w THEN Nearest(in.w * size.h, in.h) ELSE size.w),
   h |-> Aligned(IF in.w * size.h > in.h * size.w THEN Nearest(in.h * size.w, in.w) ELSE size.h)]

\* without allowUpsize
Constrained(s, in) == [s EXCEPT !.w = Min({@, in.w}), !.h = Min({@, in.h})]

WantedSize(s, in) ==
  [w |-> IF s.w # 0 THEN s.w ELSE IF s.h # 0 THEN (in.w * s.h) \div in.h ELSE in.w,
   h |-> IF s.h # 0 THEN s.h ELSE IF s.w # 0 THEN (in.h * s.w) \div in.w ELSE in.h]
WantedFormat(s, in) == IF s.pix = Undefined THEN in.pix ELSE s.pix

\* resize_base_open_in.  An odd width becomes even, which some encoders insist on.
IsPassthrough(s, in) ==
  /\ WantedSize(Constrained(s, in), in) = [w |-> in.w, h |-> in.h]
  /\ WantedFormat(s, in) = in.pix

Even(image) == [image EXCEPT !.w = @ - (@ % 2)]
Resized(s, in) ==
  LET c    == Constrained(s, in)
      want == WantedSize(c, in)
      size == IF c.w # 0 /\ c.h # 0 THEN want ELSE PreserveAspectRatio(in, want)
  IN IF IsPassthrough(s, in) THEN in
     ELSE Even([w |-> size.w, h |-> size.h, pix |-> WantedFormat(s, in)])

-----------------------------------------------------------------------------
(***************************************************************************)
(* The factory: one filter, or two when one of the formats is NV12, of     *)
(* which the first only changes the format.  The factory says the size it  *)
(* has worked out itself, and hands on what the last filter makes.         *)
(***************************************************************************)
TwoSteps(s, in) ==
  \E pair \in {<<in.pix, WantedFormat(s, in)>>, <<WantedFormat(s, in), in.pix>>} :
    pair[1] = "NV12" /\ pair[2] \notin {"NV12", "YUV420P"}

Delivered(s, in) ==
  IF TwoSteps(s, in) THEN Resized(Constrained(s, in), Resized(OnlyFormat("YUV420P"), in)) ELSE Resized(s, in)

-----------------------------------------------------------------------------
(***************************************************************************)
(* The encoder.                                                            *)
(***************************************************************************)
Compatible(codec) ==
  CASE codec = "H264" -> {"YUV420P", "YUVJ420P", "NV12"}
    [] codec = "MJPEG" -> {"YUVJ420P", "YUVJ422P"}
    [] codec = "GIF" -> {"RGB8"}
CompatibleFormat(codec) ==
  CASE codec = "H264" -> "YUV420P" [] codec = "MJPEG" -> "YUVJ420P" [] codec = "GIF" -> "RGB8"

NeedsConverter(codec, in) == in.pix \notin Compatible(codec)
ConverterSetting(codec) == OnlyFormat(CompatibleFormat(codec))

\* _ffenc_prepare_video_encoder: the size that the encoder is opened with
EncoderImage(codec, in) == IF NeedsConverter(codec, in) THEN Resized(ConverterSetting(codec), in) ELSE in
=============================================================================
