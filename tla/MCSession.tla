----------------------------- MODULE MCSession -----------------------------
(* A small view, two large ones, of which one is faster than the analysis, and *)
(* a view of the camera's own size; two names for the memory map.               *)
EXTENDS Viewer

MCViews == {[height |-> 120, fps |-> 5], [height |-> 480, fps |-> 5],
            [height |-> 720, fps |-> 20], [height |-> 0, fps |-> 5]}

MCCamera   == [w |-> 1280, h |-> 720, pix |-> "YUVJ420P"]
MCRequests == {[w |-> 4000, h |-> 0]}
=============================================================================
