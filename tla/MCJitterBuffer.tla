--------------------------- MODULE MCJitterBuffer ---------------------------
(* Small instances of JitterBuffer.  The delays of an encoder upstream: not   *)
(* known yet, and longer than the configured buffer; without an encoder the   *)
(* buffer keeps its own time.                                                *)
EXTENDS JitterBuffer

SomeDelays == {-1, BufferTime + 1, NoParam}
=============================================================================
