---------------------------- MODULE PacketBuffers ----------------------------
(***************************************************************************)
(* The packets of an RTSP session (FrameBufferImpl and Live555APIBridge of *)
(* src/videolib/stream_live555_demux.cpp) in frames of a pool, see         *)
(* FrameAllocator: a frame is taken for a packet of unknown size, grows    *)
(* while data arrives, takes the data of the next packet, or is exchanged  *)
(* for a small copy (src/svcore/frame_basic.cpp), and goes downstream.     *)
(* A frame that is returned keeps its memory, and the next packet gets it. *)
(*                                                                         *)
(* The session's library, which calls these operations, is external.  What *)
(* a frame holds is a number of bytes.  Memory can be had.                 *)
(***************************************************************************)
EXTENDS FrameAllocator

CONSTANTS
  Sizes,         \* what a packet is expected to need
  Chunks,        \* what arrives at once
  GrowFactor,    \* kReallocGrowFactor
  ReallocFactor, \* kReallocFactor
  Padding,       \* FF_INPUT_BUFFER_PADDING_SIZE
  MaxRoom        \* bound: the size of a frame

ASSUME PacketBuffersAssumption ==
  /\ Sizes \subseteq Nat /\ Chunks \subseteq Nat /\ Padding \in Nat /\ MaxRoom \in Nat
  /\ GrowFactor \in Nat \ {0} /\ ReallocFactor \in Nat \ {0}

VARIABLES
  allocSize, dataSize,  \* of each frame
  unpooled,             \* frames without an allocator that exist
  buffers,              \* the session's FrameBuffers: their frame; history: the room asked for, what was put in
  given                 \* history: what each frame downstream held when it went there

memory  == <<allocSize, dataSize>>
allVars == <<vars, memory, unpooled, buffers, given>>

FramesOf(bs) == {bs[i].frame : i \in 1..Len(bs)}
Downstream == (out \cup unpooled) \ FramesOf(buffers)
\* the session runs on the owner's thread, one call at a time
Idle == pc[Owner] = "idle"

PacketInit ==
  /\ Init
  /\ allocSize = [f \in Frames |-> 0] /\ dataSize = [f \in Frames |-> 0]
  /\ unpooled = {} /\ buffers = << >> /\ given = [f \in Frames |-> 0]

-----------------------------------------------------------------------------
(***************************************************************************)
(* The frames.                                                             *)
(***************************************************************************)
\* alloc_basic_frame
Created(f, size) ==
  allocSize' = [allocSize EXCEPT ![f] = size] /\ dataSize' = [dataSize EXCEPT ![f] = 0]

\* alloc_basic_frame2 of a frame that was in the pool: it has what its last user needed
\* faulty: ... and is not made larger
TakenAsIs(f, size) == UNCHANGED memory
Taken(f, size) ==
  IF allocSize[f] < size
    THEN allocSize' = [allocSize EXCEPT ![f] = size] /\ dataSize' = [dataSize EXCEPT ![f] = 0]
    ELSE UNCHANGED memory

\* ensure_basic_frame_free_space
Larger(a, b) == IF a > b THEN a ELSE b
RoomFor(f, n) ==
  IF allocSize[f] - dataSize[f] < n THEN allocSize[f] + Larger(allocSize[f] \div GrowFactor, n) ELSE allocSize[f]

\* the last reference is given up: basic_frame_destroy, on thread t
Released(t, f) ==
  IF f \in unpooled THEN unpooled' = unpooled \ {f} /\ UNCHANGED vars
                    ELSE ReturnFrame(t) /\ out' = out \ {f} /\ UNCHANGED unpooled

-----------------------------------------------------------------------------
(***************************************************************************)
(* The session's calls.                                                    *)
(***************************************************************************)
NewBuffer(size) ==
  /\ Len(buffers) < 2
  /\ \/ Get /\ Taken(Head(freeList), size)
     \/ Allocate /\ \E f \in out' : out' \ out = {f} /\ f \notin unpooled /\ Created(f, size)
  /\ \E f \in out' : out' \ out = {f} /\ buffers' = Append(buffers, [frame |-> f, asked |-> size, received |-> 0])
  /\ UNCHANGED <<unpooled, given>>

\* EnsureFreeSpace, and what the library writes behind WritePtr; Append does both
Write(i, n) ==
  LET f == buffers[i].frame
  IN /\ Idle /\ RoomFor(f, n) <= MaxRoom
     /\ allocSize' = [allocSize EXCEPT ![f] = RoomFor(f, n)]
     /\ dataSize' = [dataSize EXCEPT ![f] = @ + n]
     /\ buffers' = [buffers EXCEPT ![i].received = @ + n]
     /\ UNCHANGED <<vars, unpooled, given>>

\* the data of the second packet, with its padding, follows that of the first
Merge ==
  LET f == buffers[1].frame
      n == dataSize[buffers[2].frame]
  IN /\ Idle /\ Len(buffers) = 2
     /\ RoomFor(f, n + Padding) <= MaxRoom
     /\ allocSize' = [allocSize EXCEPT ![f] = RoomFor(f, n + Padding)]
     /\ dataSize' = [dataSize EXCEPT ![f] = @ + n, ![buffers[2].frame] = 0]
     /\ Released(Owner, buffers[2].frame)
     /\ buffers' = <<[buffers[1] EXCEPT !.received = @ + buffers[2].received]>>
     /\ UNCHANGED given

\* a frame with far more room than data goes back, and a copy without allocator takes its place
Shrink(i) ==
  LET f == buffers[i].frame
  IN /\ Idle /\ allocSize[f] > ReallocFactor * dataSize[f]
     /\ \E copy \in Frames \ (Allocated \cup unpooled) :
          /\ allocSize' = [allocSize EXCEPT ![copy] = dataSize[f]]
          /\ dataSize' = [dataSize EXCEPT ![copy] = dataSize[f], ![f] = 0]
          /\ IF f \in unpooled THEN unpooled' = (unpooled \ {f}) \cup {copy} /\ UNCHANGED vars
                               ELSE ReturnFrame(Owner) /\ out' = out \ {f} /\ unpooled' = unpooled \cup {copy}
          /\ buffers' = [buffers EXCEPT ![i] = [@ EXCEPT !.frame = copy, !.asked = 0]]
     /\ UNCHANGED given

\* GetFrameAndRelease
Give ==
  /\ Idle /\ buffers # << >>
  /\ given' = [given EXCEPT ![Head(buffers).frame] = dataSize[Head(buffers).frame]]
  /\ buffers' = Tail(buffers)
  /\ UNCHANGED <<vars, memory, unpooled>>

\* Release of a buffer with its frame
Drop ==
  /\ Idle /\ buffers # << >>
  /\ Released(Owner, Head(buffers).frame)
  /\ dataSize' = [dataSize EXCEPT ![Head(buffers).frame] = 0]
  /\ buffers' = Tail(buffers)
  /\ UNCHANGED <<allocSize, given>>

\* a thread downstream, or the session's own, is done with a frame
Unref(t) ==
  \E f \in Downstream :
    /\ Released(t, f)
    /\ dataSize' = [dataSize EXCEPT ![f] = 0] /\ given' = [given EXCEPT ![f] = 0]
    /\ UNCHANGED <<allocSize, buffers>>

\* the bridge is destroyed after the session
EndSession ==
  /\ buffers = << >> /\ BeginDestroy
  /\ UNCHANGED <<memory, unpooled, buffers, given>>

PoolSteps ==
  /\ \/ RegisterLoad \/ RegisterStore
     \/ \E t \in Threads : ReturnStore(t) \/ Destroy(t) \/ Free(t)
  /\ UNCHANGED <<memory, unpooled, buffers, given>>

PacketNext ==
  \/ \E size \in Sizes : NewBuffer(size)
  \/ \E i \in 1..Len(buffers) : Shrink(i) \/ \E n \in Chunks : Write(i, n)
  \/ Merge \/ Give \/ Drop \/ EndSession \/ PoolSteps
  \/ \E t \in Threads : Unref(t)

PacketSpec == PacketInit /\ [][PacketNext]_allVars

-----------------------------------------------------------------------------
(***************************************************************************)
(* Properties                                                              *)
(***************************************************************************)
\* A packet's frame has the room that was asked for and holds what was received, however it
\* grew, was merged or exchanged, and whoever had its memory before (frame_basic.cpp:608);
\* and the frames downstream hold what they held when they were given, until they are returned.
PacketsAreKept ==
  /\ \A i \in 1..Len(buffers) :
       LET b == buffers[i]
       IN dataSize[b.frame] = b.received /\ {b.asked, b.received} \subseteq 0..allocSize[b.frame]
  /\ \A f \in Downstream : dataSize[f] = given[f] /\ dataSize[f] <= allocSize[f]

\* The pool never gives a frame to two users, and each user keeps his data in it.
PoolServesPackets == ListExact /\ PacketsAreKept
=============================================================================
