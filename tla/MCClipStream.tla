---------------------------- MODULE MCClipStream ----------------------------
(* Small clips for ClipStream: the first frame away from offset 0, gaps that  *)
(* are shorter and longer than the first step back of a search.              *)
EXTENDS ClipReader, TLC

Symmetry == Permutations(ClipFrames)

LateStart == <<3, 5, 9>>
=============================================================================
