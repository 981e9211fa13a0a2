------------------------------ MODULE Splitter ------------------------------
(***************************************************************************)
(* A splitter (src/videolib/stream_splitter.cpp): an element that gives    *)
(* every frame it reads to a subgraph, whose root has the splitter itself  *)
(* as its source.  While the splitter runs the subgraph, that root reads   *)
(* the splitter again and gets the frames in source_frames.                *)
(*                                                                         *)
(* The operations are conjuncts of the actions of LiveStream, which runs   *)
(* two splitters, one in the subgraph of the other.  The mutex is          *)
(* recursive; only the outermost enter and exit of a thread are modelled.  *)
(***************************************************************************)
EXTENDS Sequences

CONSTANTS
  NoThread,     \* "the mutex is free"
  NoSubgraph    \* a NULL subgraph

VARIABLES
  subgraph,
  source_frames,
  subgraphMutex

splitter == <<subgraph, source_frames, subgraphMutex>>

Init ==
  /\ subgraph = NoSubgraph
  /\ source_frames = << >>
  /\ subgraphMutex = NoThread

Free == subgraphMutex = NoThread
Enter(t) == Free /\ subgraphMutex' = t
Exit == subgraphMutex' = NoThread

\* the test splitter->subgraph, made with and without the mutex
Attached == subgraph # NoSubgraph

\* splitter_stream_read_frame keeps f for the subgraph
Push(f) == source_frames' = Append(source_frames, f)

\* the recursive read returns the oldest frame kept
Pop == source_frames # << >> /\ source_frames' = Tail(source_frames)
Drained == source_frames = << >>

\* _splitter_subgraph_assign of a subgraph that opens
Attach(g) == subgraph' = g /\ UNCHANGED source_frames

\* _splitter_subgraph_assign of NULL, and of a subgraph that does not open
Detach ==
  /\ subgraph' = NoSubgraph
  /\ source_frames' = IF Attached THEN << >> ELSE source_frames

AttachFails == subgraph' = NoSubgraph /\ source_frames' = << >>
=============================================================================
