---------------------------- MODULE BufferedFile ----------------------------
(***************************************************************************)
(* A file that is recorded in memory (src/svcore/buffered_file.cpp): it is *)
(* written and rewritten by the muxer in buffers of one size, which are    *)
(* allocated as they are needed, and saved when the recording is moved to  *)
(* its place.  Bytes are abstracted to units, a few of which make a packet.*)
(***************************************************************************)
EXTENDS Integers, Sequences, SequencesExt

CONSTANTS
  BufferSize,   \* mBufferSize
  MaxSize       \* mMaxSize

ASSUME BufferedFileAssumption == BufferSize \in Nat \ {0} /\ MaxSize \in Nat

Unwritten == "unwritten"   \* what a new buffer holds
EmptyFile == [buffers |-> << >>, lastWrittenPos |-> 0, writePos |-> 0, invalid |-> FALSE]

\* not beyond the end of what is written
SeekTo(bf, pos) ==
  IF pos \in 0..bf.lastWrittenPos /\ ~bf.invalid THEN [bf EXCEPT !.writePos = pos] ELSE bf

Full(bf) == BufferSize * Len(bf.buffers) >= MaxSize
WithBuffer(bf) == Append(bf.buffers, [i \in 1..BufferSize |-> Unwritten])

\* _writeToBuffer writes as much as the current buffer takes, and write goes on with the next;
\* a buffer that cannot be had makes the whole file invalid
WriteUnit(bf, unit) ==
  LET current   == bf.writePos \div BufferSize
      offset    == bf.writePos % BufferSize
      needsNew  == current = Len(bf.buffers)
      available == IF needsNew THEN WithBuffer(bf) ELSE bf.buffers
  IN IF bf.invalid \/ (needsNew /\ Full(bf))
       THEN [bf EXCEPT !.invalid = TRUE]
       ELSE [bf EXCEPT !.buffers = [available EXCEPT ![current + 1][offset + 1] = unit],
                       !.writePos = @ + 1,
                       !.lastWrittenPos = IF @ > bf.writePos THEN @ ELSE bf.writePos + 1]

Write(bf, units) == FoldLeft(WriteUnit, bf, units)

\* faulty: saves the last buffer in full as well, see SavedAsWritten
SavedInFull(bf) == FlattenSeq(bf.buffers)

\* save: every buffer in full, and of the last what is beyond a multiple of the buffer's size
Saved(bf) ==
  IF bf.buffers = << >> THEN << >>
  ELSE FlattenSeq(Front(bf.buffers)) \o SubSeq(Last(bf.buffers), 1, bf.lastWrittenPos % BufferSize)
=============================================================================
