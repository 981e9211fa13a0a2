-------------------------- MODULE MCThreadConnector --------------------------
(***************************************************************************)
(* Values of ThreadConnector's constants for model checking: short sources *)
(* with the mixes of media that make a difference.                         *)
(***************************************************************************)
EXTENDS ThreadConnector, TLC

Symmetry == Permutations(Clients)

Video(p) == [pts |-> p, media |-> "video"]
Audio(p) == [pts |-> p, media |-> "audio"]

\* A video-only clip.
VideoSource == <<Video(10), Video(20), Video(30), Video(40)>>

\* Video with audio interleaved, as a demuxer delivers it.
MixedSource == <<Video(10), Audio(12), Video(20), Video(30)>>

\* A live source whose video timestamps are unevenly spaced and once go back.
UnevenSource == <<Video(10), Video(20), Video(22), Video(15)>>

\* Just enough video to fill a queue of one.
ShortSource == <<Video(10), Audio(12), Video(20)>>
=============================================================================
