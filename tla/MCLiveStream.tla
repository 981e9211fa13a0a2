---------------------------- MODULE MCLiveStream ----------------------------
(* Small instances of LiveStream: the callers are interchangeable. *)
EXTENDS LiveStream, TLC

Symmetry == Permutations(Callers)
=============================================================================
