---------------------------- MODULE FrameChannel ----------------------------
(***************************************************************************)
(* What the thread connector promises its callers, without threads, locks  *)
(* or events: an ordered channel of frames over a source that can be       *)
(* repositioned.  A frame enters right behind the one the source gave      *)
(* before it, leaves at the other end, and after a repositioning nothing   *)
(* of the earlier position is left, in the channel or on its way there.    *)
(***************************************************************************)
EXTENDS Naturals, Sequences

CONSTANTS
  Length,     \* number of frames in the source
  Lossless    \* no frame is given up except by a seek or a close

VARIABLES
  pos,        \* number of the last frame that reached the channel
  chan,       \* numbers of the frames in the channel
  open        \* not closed yet

vars == <<pos, chan, open>>

TypeOK ==
  /\ pos \in 0 .. Length
  /\ chan \in Seq(1 .. Length)
  /\ open \in BOOLEAN

Init == pos = 0 /\ chan = << >> /\ open = TRUE

\* The next frame of the source enters the channel.
Put ==
  /\ open /\ pos < Length
  /\ pos' = pos + 1
  /\ chan' = Append(chan, pos + 1)
  /\ UNCHANGED open

\* The next frame of the source is given up before it enters.
Refuse ==
  /\ open /\ pos < Length /\ ~Lossless
  /\ pos' = pos + 1
  /\ UNCHANGED <<chan, open>>

Get ==
  /\ chan # << >>
  /\ chan' = Tail(chan)
  /\ UNCHANGED <<pos, open>>

\* A frame in the channel is given up to make room.
Drop ==
  /\ ~Lossless
  /\ \E i \in 1 .. Len(chan) :
       chan' = SubSeq(chan, 1, i - 1) \o SubSeq(chan, i + 1, Len(chan))
  /\ UNCHANGED <<pos, open>>

\* A seek within the channel.
Skip ==
  /\ open
  /\ \E n \in 1 .. Len(chan) : chan' = SubSeq(chan, n + 1, Len(chan))
  /\ UNCHANGED <<pos, open>>

\* A seek of the source.
Restart ==
  /\ open
  /\ pos' \in 0 .. Length
  /\ chan' = << >>
  /\ UNCHANGED open

Close ==
  /\ open' = FALSE
  /\ UNCHANGED <<pos, chan>>

Clear ==
  /\ ~open
  /\ chan' = << >>
  /\ UNCHANGED <<pos, open>>

Next == Put \/ Refuse \/ Get \/ Drop \/ Skip \/ Restart \/ Close \/ Clear

Spec == Init /\ [][Next]_vars
=============================================================================
