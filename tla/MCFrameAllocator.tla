-------------------------- MODULE MCFrameAllocator --------------------------
(***************************************************************************)
(* Frames are interchangeable until they are allocated, and so are the     *)
(* threads downstream.                                                     *)
(***************************************************************************)
EXTENDS PacketBuffers, TLC

MCSymmetry == Permutations(Frames) \cup Permutations(Releasers)
=============================================================================
