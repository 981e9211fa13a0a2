-------------------------- MODULE RecordingProofs --------------------------
(***************************************************************************)
(* Whatever the source delivers, however long the codec keeps a frame and  *)
(* wherever the recorder rotates, waits or fails, a frame that is returned *)
(* names the file it is in (FramesNameTheirFile).                          *)
(***************************************************************************)
EXTENDS StreamReader, SequenceTheorems, TLAPS

(***************************************************************************)
(* Sequences of frames by increasing timestamp.                            *)
(***************************************************************************)
In(s) == {s[i] : i \in DOMAIN s}
Rising(s) == \A i, j \in DOMAIN s : i < j => s[i].pts < s[j].pts
RisingVideo(s) == \A i, j \in DOMAIN s : i < j /\ s[i].video /\ s[j].video => s[i].pts < s[j].pts
Lower(S, T) == \A x \in S, y \in T : x.video /\ y.video => x.pts < y.pts

LEMMA AppendIn ==
  ASSUME NEW s \in Seq(Frame), NEW e \in Frame
  PROVE  /\ Append(s, e) \in Seq(Frame) /\ Append(s, e) # << >>
         /\ In(Append(s, e)) = In(s) \cup {e}
         /\ Rising(s) /\ (\A x \in In(s) : x.pts < e.pts) => Rising(Append(s, e))
         /\ RisingVideo(s) /\ Lower(In(s), {e}) => RisingVideo(Append(s, e))
<1>1. /\ Append(s, e) \in Seq(Frame) /\ Len(s) \in Nat /\ DOMAIN s = 1..Len(s)
      /\ DOMAIN Append(s, e) = 1..(Len(s) + 1) /\ Append(s, e)[Len(s) + 1] = e
      /\ \A i \in 1..Len(s) : Append(s, e)[i] = s[i]
  BY AppendProperties, LenProperties
<1>2. Append(s, e) # << >>
  BY AppendProperties
<1>3. In(Append(s, e)) = In(s) \cup {e}
  BY <1>1 DEF In
<1>4. \A i \in 1..Len(s) : s[i] \in In(s)
  BY <1>1 DEF In
<1>5. ASSUME Rising(s), \A x \in In(s) : x.pts < e.pts PROVE Rising(Append(s, e))
  BY <1>1, <1>4, <1>5 DEF Rising
<1>6. ASSUME RisingVideo(s), Lower(In(s), {e}) PROVE RisingVideo(Append(s, e))
  BY <1>1, <1>4, <1>6 DEF RisingVideo, Lower
<1> QED BY <1>1, <1>2, <1>3, <1>5, <1>6

LEMMA TailIn ==
  ASSUME NEW s \in Seq(Frame), s # << >>
  PROVE  /\ Tail(s) \in Seq(Frame) /\ Head(s) \in Frame /\ Head(s) \in In(s)
         /\ In(s) = In(Tail(s)) \cup {Head(s)}
         /\ Rising(s) => Rising(Tail(s)) /\ \A x \in In(Tail(s)) : Head(s).pts < x.pts
         /\ RisingVideo(s) => RisingVideo(Tail(s)) /\ Lower({Head(s)}, In(Tail(s)))
<1>1. /\ Tail(s) \in Seq(Frame) /\ Head(s) \in Frame
      /\ Len(s) \in Nat /\ Len(s) > 0 /\ DOMAIN s = 1..Len(s) /\ Head(s) = s[1]
      /\ DOMAIN Tail(s) = 1..(Len(s) - 1)
      /\ \A i \in 1..(Len(s) - 1) : Tail(s)[i] = s[i + 1]
  BY HeadTailProperties, LenProperties, EmptySeq
<1>2. \A i \in 1..(Len(s) - 1) : i + 1 \in 1..Len(s)
  BY <1>1
<1>3. \A i \in 1..Len(s) : i = 1 \/ (i - 1 \in 1..(Len(s) - 1) /\ Tail(s)[i - 1] = s[i])
  BY <1>1
<1>4. In(s) = In(Tail(s)) \cup {Head(s)}
  <2>1. ASSUME NEW x \in In(s) PROVE x \in In(Tail(s)) \cup {Head(s)}
    <3>1. PICK i \in 1..Len(s) : x = s[i]
      BY <1>1, <2>1 DEF In
    <3> QED BY <3>1, <1>1, <1>3 DEF In
  <2>2. ASSUME NEW x \in In(Tail(s)) PROVE x \in In(s)
    <3>1. PICK i \in 1..(Len(s) - 1) : x = Tail(s)[i]
      BY <1>1, <2>2 DEF In
    <3> QED BY <3>1, <1>1, <1>2 DEF In
  <2>3. Head(s) \in In(s)
    BY <1>1 DEF In
  <2> QED BY <2>1, <2>2, <2>3
<1>b. \A x \in In(Tail(s)) : \E i \in 1..(Len(s) - 1) : x = s[i + 1]
  BY <1>1 DEF In
<1>c. \A i \in 1..(Len(s) - 1) : 1 < i + 1 /\ 1 \in 1..Len(s)
  BY <1>1
<1>5. ASSUME Rising(s) PROVE Rising(Tail(s)) /\ \A x \in In(Tail(s)) : Head(s).pts < x.pts
  <2>1. \A i, j \in 1..(Len(s) - 1) : i < j => i + 1 < j + 1
    OBVIOUS
  <2>2. Rising(Tail(s))
    BY <1>1, <1>2, <1>5, <2>1 DEF Rising
  <2>3. \A x \in In(Tail(s)) : Head(s).pts < x.pts
    BY <1>1, <1>2, <1>5, <1>b, <1>c DEF Rising
  <2> QED BY <2>2, <2>3
<1>6. ASSUME RisingVideo(s) PROVE RisingVideo(Tail(s)) /\ Lower({Head(s)}, In(Tail(s)))
  <2>1. \A i, j \in 1..(Len(s) - 1) : i < j => i + 1 < j + 1
    OBVIOUS
  <2>2. RisingVideo(Tail(s))
    BY <1>1, <1>2, <1>6, <2>1 DEF RisingVideo
  <2>3. Lower({Head(s)}, In(Tail(s)))
    BY <1>1, <1>2, <1>6, <1>b, <1>c DEF RisingVideo, Lower
  <2> QED BY <2>2, <2>3
<1>7. Head(s) \in In(s)
  BY <1>4
<1> QED BY <1>1, <1>4, <1>5, <1>6, <1>7

LEMMA EmptyIn == In(<< >>) = {} /\ Rising(<< >>) /\ RisingVideo(<< >>)
BY DEF In, Rising, RisingVideo

LEMMA MaxOfTwo ==
  ASSUME NEW a \in Int, NEW b \in Int
  PROVE  Max({a, b}) \in Int
<1>1. \E m \in {a, b} : \A y \in {a, b} : m >= y
  BY SMT
<1>2. Max({a, b}) \in {a, b}
  BY <1>1 DEF Max
<1> QED BY <1>2

-----------------------------------------------------------------------------
(***************************************************************************)
(* What the variables hold, and what the recorder's place says of them.    *)
(***************************************************************************)
Holding == {"check", "open", "reopen", "saved"}
Busy == Holding \cup {"encoder", "retry", "deposit"}
Place == Busy \cup {"source", "ended", "flushed", "closed"}
Entry == [file : Nat, frame : Frame, delay : Int]
Context == [start : Nat, end : Nat \cup {None}, name : Nat]

SplitterTypes ==
  /\ source \in Sources /\ framesRead \in 0..Len(source)
  /\ ppc \in Place
  /\ frame \in Frame \cup {None} /\ packet \in Frame \cup {None}
  /\ ppc \in Holding => packet \in Frame
  /\ sourceFrames \in Seq(Frame) /\ edge \in Seq(Frame)
EncoderTypes ==
  /\ passthrough \in BOOLEAN
  /\ inEncoder \in Seq(Frame)
  /\ lastInputPts \in Nat /\ encoderDelay \in Int
  /\ passthrough => inEncoder = << >> /\ encoderDelay = 0
RecorderTypes ==
  /\ outputInitialized \in BOOLEAN /\ criticalError \in BOOLEAN
  /\ uri \in Nat \cup {None} /\ savedFrames \in Seq(Frame)
  /\ videoPackets \in Nat /\ audioPackets \in Nat /\ lastVideoPts \in Nat
  /\ written \in Seq(Entry)
SynchroniserTypes ==
  /\ frames \in Seq(Frame)
  /\ knownDelay \in Int /\ lastPtsInQueue \in Nat
  /\ passthrough => knownDelay \in {-1, 0}
  /\ fileContexts \in Seq(Context)
\* A file is opened before it is written; what was saved for it is written first.
OpenInv ==
  /\ ppc = "saved" => outputInitialized
  /\ outputInitialized => uri \in Nat /\ ppc \notin {"open", "reopen"}
  /\ ppc = "open" => uri \in Nat
  /\ ~outputInitialized => videoPackets = 0
  /\ outputInitialized /\ ppc # "saved" => savedFrames = << >>
  /\ uri = None => savedFrames = << >>
TypeInv == SplitterTypes /\ EncoderTypes /\ RecorderTypes /\ SynchroniserTypes /\ OpenInv

LEMMA SourceFacts ==
  ASSUME SplitterTypes
  PROVE  /\ Len(source) \in Nat /\ source \in [1..Len(source) -> Frame]
         /\ \A i, j \in 1..Len(source) : i < j => source[i].pts < source[j].pts
         /\ \A i \in 1..Len(source) : source[i].key => source[i].video
BY RecordingAssumption DEF SplitterTypes

LEMMA FrameParts ==
  ASSUME NEW x \in Frame PROVE x.pts \in Nat /\ x.video \in BOOLEAN /\ x.key \in BOOLEAN /\ x # None
BY RecordingAssumption DEF Frame

LEMMA NoneApart == None \notin Int /\ None \notin Frame
BY RecordingAssumption

LEMMA TypeInit == ReaderInit => TypeInv
<1> SUFFICES ASSUME ReaderInit PROVE TypeInv
  OBVIOUS
<1> USE DEF ReaderInit, Init, SplitterInit, EncoderInit, RecorderInit, SourceInit, SynchroniserInit
<1>1. SplitterTypes
  BY DEF SplitterTypes, Place, Busy, Holding
<1>2. EncoderTypes
  BY DEF EncoderTypes
<1>3. RecorderTypes
  <2>1. outputInitialized \in BOOLEAN /\ criticalError \in BOOLEAN
    BY Zenon
  <2>2. /\ uri = None /\ savedFrames = << >> /\ videoPackets = 0 /\ audioPackets = 0 /\ lastVideoPts = 0
        /\ written = << >>
    BY Zenon
  <2>3. << >> \in Seq(Frame) /\ << >> \in Seq(Entry)
    OBVIOUS
  <2> QED BY <2>1, <2>2, <2>3 DEF RecorderTypes
<1>4. SynchroniserTypes
  BY DEF SynchroniserTypes
<1>5. OpenInv
  BY NoneApart DEF OpenInv
<1> QED BY <1>1, <1>2, <1>3, <1>4, <1>5 DEF TypeInv

\* The variables the invariants are about.
flow == <<source, framesRead, ppc, frame, packet, sourceFrames, edge, passthrough, inEncoder, lastInputPts,
          encoderDelay, outputInitialized, criticalError, uri, savedFrames, videoPackets, audioPackets,
          lastVideoPts, written, frames, knownDelay, lastPtsInQueue, fileContexts, returned, dropped>>

LEMMA TypeStutter ==
  ASSUME TypeInv, UNCHANGED flow PROVE TypeInv'
BY DEF TypeInv, SplitterTypes, EncoderTypes, RecorderTypes, SynchroniserTypes, OpenInv, flow

\* The splitter and the encoder.
LEMMA SplitterKeepsTypes ==
  ASSUME TypeInv,
         SourceFrame \/ SourceEnds \/ FlushSubgraph \/ PendingPacket \/ PassOn \/ Encode \/ Deposit
  PROVE  TypeInv'
<1> USE DEF TypeInv, splitter, encoder, recorder, file, queue, history, counters
<1> DEFINE Outside == RecorderTypes' /\ SynchroniserTypes'
<1>1. CASE SourceFrame
  <2>1. framesRead + 1 \in 1..Len(source) /\ frame' \in Frame /\ source' = source
    BY <1>1, SourceFacts DEF SourceFrame, SplitterTypes
  <2>2. sourceFrames' \in Seq(Frame)
    BY <1>1, <2>1, AppendIn DEF SourceFrame, SplitterTypes
  <2>3. SplitterTypes'
    BY <1>1, <2>1, <2>2 DEF SourceFrame, SplitterTypes, Place, Busy, Holding
  <2>4. EncoderTypes' /\ RecorderTypes'
    BY <1>1 DEF SourceFrame, EncoderTypes, RecorderTypes
  <2>5. SynchroniserTypes' /\ OpenInv'
    BY <1>1 DEF SourceFrame, SynchroniserTypes, OpenInv
  <2> QED BY <2>3, <2>4, <2>5
<1>2. CASE SourceEnds \/ FlushSubgraph
  <2> USE <1>2 DEF SourceEnds, FlushSubgraph, RunAgain
  <2>1. SplitterTypes'
    BY DEF SplitterTypes, Place, Busy, Holding
  <2>2. EncoderTypes' /\ RecorderTypes'
    BY DEF EncoderTypes, RecorderTypes
  <2>3. SynchroniserTypes' /\ OpenInv'
    BY DEF SynchroniserTypes, OpenInv
  <2> QED BY <2>1, <2>2, <2>3
<1>3. CASE PendingPacket
  <2> USE <1>3 DEF PendingPacket, Offer
  <2>1. inEncoder # << >>
    BY LenProperties, RecordingAssumption DEF Ready, EncoderTypes
  <2>2. Head(inEncoder) \in Frame /\ Tail(inEncoder) \in Seq(Frame)
    BY <2>1, TailIn DEF EncoderTypes
  <2>3. SplitterTypes' /\ EncoderTypes'
    BY <2>2 DEF SplitterTypes, EncoderTypes, Place, Busy, Holding
  <2> QED BY <2>3 DEF RecorderTypes, SynchroniserTypes, OpenInv
<1>4. CASE PassOn
  <2> USE <1>4 DEF PassOn, Gets, Input, Offer
  <2>1. Input \in Frame /\ sourceFrames' \in Seq(Frame)
    BY TailIn DEF SplitterTypes
  <2>2. SplitterTypes' /\ EncoderTypes'
    BY <2>1 DEF SplitterTypes, EncoderTypes, Place, Busy, Holding
  <2>3. ppc \in {"encoder", "retry"} /\ ppc' = "check"
    BY DEF Reads
  <2> QED BY <2>2, <2>3 DEF RecorderTypes, SynchroniserTypes, OpenInv
<1>5. CASE Encode
  <2> USE <1>5 DEF Encode
  <2>1. Input \in Frame /\ sourceFrames' \in Seq(Frame)
    BY TailIn DEF SplitterTypes, Gets, Input
  <2> DEFINE taken == Append(inEncoder, Input)
             delay == Input.pts - Head(taken).pts
  <2>2. taken \in Seq(Frame) /\ taken # << >>
    BY <2>1, AppendIn DEF EncoderTypes
  <2>3. Head(taken) \in Frame /\ Tail(taken) \in Seq(Frame)
    BY <2>2, TailIn
  <2>4. delay \in Int /\ Max({encoderDelay, delay}) \in Int
    <3>1. Input.pts \in Int /\ Head(taken).pts \in Int
      BY <2>1, <2>3, FrameParts
    <3>2. delay \in Int
      BY <3>1
    <3> HIDE DEF delay
    <3> QED BY <3>2, MaxOfTwo DEF EncoderTypes
  <2>5. lastInputPts' \in Nat
    BY <2>1, FrameParts
  <2>6. /\ inEncoder' \in {taken, Tail(taken), inEncoder}
        /\ encoderDelay' \in {encoderDelay, Max({encoderDelay, delay})}
        /\ \/ packet' = Head(taken) /\ ppc' = "check"
           \/ packet' = packet /\ ppc' \in {"retry", "deposit"}
    BY DEF Offer
  <2> HIDE DEF taken, delay
  <2>7. SplitterTypes'
    BY <2>1, <2>3, <2>6 DEF SplitterTypes, Place, Busy, Holding
  <2>8. EncoderTypes'
    BY <2>2, <2>3, <2>4, <2>5, <2>6 DEF EncoderTypes
  <2>9. ppc \in {"encoder", "retry"} /\ ppc' \in {"check", "retry", "deposit"}
    BY <2>6 DEF Gets, Reads
  <2> QED BY <2>7, <2>8, <2>9 DEF RecorderTypes, SynchroniserTypes, OpenInv
<1>6. CASE Deposit
  <2> USE <1>6 DEF Deposit
  <2>1. edge' \in Seq(Frame)
    BY AppendIn DEF SplitterTypes, Known
  <2>2. ppc \in {"encoder", "retry", "deposit"} /\ ppc' \in {"source", "flushed", "ended"}
    BY DEF Reads
  <2>3. SplitterTypes'
    BY <2>1, <2>2 DEF SplitterTypes, Place, Busy, Holding
  <2> QED BY <2>2, <2>3 DEF EncoderTypes, RecorderTypes, SynchroniserTypes, OpenInv
<1> QED BY <1>1, <1>2, <1>3, <1>4, <1>5, <1>6

\* The recorder.
LEMMA EndsAnInterval ==
  ASSUME NEW s \in Seq(Context), NEW k, NEW v \in Nat
  PROVE  /\ [s EXCEPT ![k].end = v] \in Seq(Context)
         /\ Len([s EXCEPT ![k].end = v]) = Len(s)
         /\ \A i \in DOMAIN s : [s EXCEPT ![k].end = v][i] = IF i = k THEN [s[i] EXCEPT !.end = v] ELSE s[i]
<1> DEFINE t == [s EXCEPT ![k].end = v]
<1>1. Len(s) \in Nat /\ DOMAIN s = 1..Len(s) /\ \A i \in 1..Len(s) : s[i] \in Context
  BY LenProperties
<1>2. t = [i \in 1..Len(s) |-> IF i = k THEN [s[i] EXCEPT !.end = v] ELSE s[i]]
  BY <1>1
<1>3. \A i \in 1..Len(s) : [s[i] EXCEPT !.end = v] \in Context
  BY <1>1 DEF Context
<1> HIDE DEF t
<1>4. t \in Seq(Context) /\ Len(t) = Len(s)
  BY <1>1, <1>2, <1>3
<1>5. \A i \in DOMAIN s : t[i] = IF i = k THEN [s[i] EXCEPT !.end = v] ELSE s[i]
  BY <1>1, <1>2
<1> QED BY <1>4, <1>5 DEF t

LEMMA CloseKeepsTypes ==
  ASSUME TypeInv, CloseOut \/ (Reset /\ UNCHANGED <<output, fileContexts>>),
         UNCHANGED <<criticalError, written>>
  PROVE  RecorderTypes' /\ fileContexts' \in Seq(Context) /\ uri' = None /\ outputInitialized' = FALSE
         /\ videoPackets' = 0 /\ savedFrames' = << >> /\ lastVideoPts' = lastVideoPts
<1> USE DEF TypeInv
<1>1. /\ uri' = None /\ outputInitialized' = FALSE /\ savedFrames' = << >>
      /\ videoPackets' = 0 /\ audioPackets' = 0 /\ lastVideoPts' = lastVideoPts
  BY DEF CloseOut, Reset
<1>2. RecorderTypes'
  <2>1. outputInitialized' \in BOOLEAN
    BY <1>1, Zenon
  <2>2. << >> \in Seq(Frame)
    OBVIOUS
  <2> QED BY <1>1, <2>1, <2>2 DEF RecorderTypes
<1>3. fileContexts' = fileContexts \/ fileContexts' = [fileContexts EXCEPT ![Min(Unended)].end = lastVideoPts]
  BY DEF CloseOut, NotifyCloseFile
<1>4. fileContexts' \in Seq(Context)
  <2>1. fileContexts \in Seq(Context) /\ lastVideoPts \in Nat
    BY DEF SynchroniserTypes, RecorderTypes
  <2>2. [fileContexts EXCEPT ![Min(Unended)].end = lastVideoPts] \in Seq(Context)
    BY <2>1, EndsAnInterval
  <2> QED BY <1>3, <2>1, <2>2
<1> QED BY <1>1, <1>2, <1>4

LEMMA RotateKeepsTypes ==
  ASSUME TypeInv, Rotate \/ Close PROVE TypeInv'
<1> USE DEF TypeInv, splitter, encoder, recorder, file, queue, history, counters
<1>1. /\ CloseOut \/ (Reset /\ UNCHANGED <<output, fileContexts>>)
      /\ UNCHANGED <<criticalError, written>>
      /\ (ppc = "check" /\ ppc' = "reopen") \/ ppc' = "closed"
  BY DEF Rotate, Close
<1>2. /\ RecorderTypes' /\ fileContexts' \in Seq(Context) /\ uri' = None /\ outputInitialized' = FALSE
      /\ videoPackets' = 0 /\ savedFrames' = << >>
  BY <1>1, CloseKeepsTypes
<1>3. SplitterTypes'
  BY <1>1 DEF Rotate, Close, SplitterTypes, Place, Busy, Holding
<1>4. EncoderTypes' /\ SynchroniserTypes'
  BY <1>2 DEF Rotate, Close, EncoderTypes, SynchroniserTypes
<1>5. OpenInv'
  BY <1>1, <1>2 DEF OpenInv
<1> QED BY <1>2, <1>3, <1>4, <1>5

LEMMA OpeningFacts ==
  ASSUME TypeInv, Opening
  PROVE  /\ ~outputInitialized /\ packet \in Frame /\ NextTs \in Nat /\ ppc \in {"check", "open", "reopen"}
         /\ uri = None => NextTs = packet.pts
<1> USE DEF TypeInv
<1>1. ~outputInitialized /\ packet \in Frame /\ ppc \in {"check", "open", "reopen"}
  BY DEF Opening, OpenInv, SplitterTypes, Holding
<1>2. NextTs \in Nat
  <2>1. CASE savedFrames = << >>
    BY <2>1, <1>1, FrameParts DEF NextTs
  <2>2. CASE savedFrames # << >>
    BY <2>2, TailIn, FrameParts DEF NextTs, RecorderTypes
  <2> QED BY <2>1, <2>2
<1>3. uri = None => NextTs = packet.pts
  BY DEF NextTs, OpenInv
<1> QED BY <1>1, <1>2, <1>3

LEMMA OpenKeepsTypes ==
  ASSUME TypeInv, OpenWaitsForSize \/ OpenWaitsForSps \/ OpenOut \/ OpenFails PROVE TypeInv'
<1> USE DEF TypeInv, splitter, encoder, recorder, file, queue, history, counters
<1>1. Opening
  BY DEF OpenWaitsForSize, OpenWaitsForSps, OpenOut, OpenFails
<1>2. /\ ~outputInitialized /\ packet \in Frame /\ NextTs \in Nat /\ videoPackets = 0
      /\ ppc \in {"check", "open", "reopen"}
  BY <1>1, OpeningFacts DEF OpenInv
<1>3. (IF Known(uri) THEN uri ELSE NextTs) \in Nat
  BY <1>2 DEF Known, RecorderTypes
<1>4. \A critical \in BOOLEAN : LeaveUnopened(critical) => ppc' \in {"deposit", "encoder"}
  BY DEF LeaveUnopened
<1>5. SavedSinceKey \in Seq(Frame)
  BY DEF SavedSinceKey, RecorderTypes
<1>6. /\ Append(savedFrames, packet) \in Seq(Frame)
      /\ Append(SavedSinceKey, packet) \in Seq(Frame)
  BY <1>2, <1>5, AppendIn DEF RecorderTypes
<1>7. /\ criticalError' \in BOOLEAN
      /\ ppc' \in {"deposit", "encoder", "open", "saved"}
      /\ ppc' = "saved" => outputInitialized'
  BY <1>4 DEF OpenWaitsForSize, OpenWaitsForSps, OpenOut, OpenFails, RecorderTypes
<1>8. SplitterTypes'
  BY <1>2, <1>7 DEF SplitterTypes, Place, Busy, Holding, OpenWaitsForSize, OpenWaitsForSps, OpenOut, OpenFails
<1>9. EncoderTypes' /\ SynchroniserTypes'
  <2>1. UNCHANGED <<encoder, queue, fileContexts>>
    BY DEF OpenWaitsForSize, OpenWaitsForSps, OpenOut, OpenFails
  <2> QED BY <2>1 DEF EncoderTypes, SynchroniserTypes
<1>10. RecorderTypes' /\ OpenInv'
  <2>1. CASE OpenWaitsForSize
    <3>1. uri' \in Nat /\ savedFrames' \in Seq(Frame) /\ ppc' # "saved"
      BY <2>1, <1>3, <1>4, <1>6 DEF OpenWaitsForSize, RecorderTypes
    <3> QED BY <2>1, <3>1, <1>2, NoneApart DEF OpenWaitsForSize, RecorderTypes, OpenInv
  <2>2. CASE OpenWaitsForSps
    <3>1. uri' \in Nat /\ savedFrames' \in Seq(Frame) /\ ppc' # "saved"
      BY <2>2, <1>3, <1>4, <1>6 DEF OpenWaitsForSps, RecorderTypes
    <3> QED BY <2>2, <3>1, <1>2, NoneApart DEF OpenWaitsForSps, RecorderTypes, OpenInv
  <2>3. CASE OpenOut
    <3>1. uri' \in Nat /\ savedFrames' \in Seq(Frame) /\ ppc' = "saved" /\ outputInitialized' \in BOOLEAN
      BY <2>3, <1>3, <1>5 DEF OpenOut
    <3> QED BY <2>3, <3>1, <1>2, NoneApart DEF OpenOut, RecorderTypes, OpenInv
  <2>4. CASE OpenFails
    <3>1. /\ uri' = None /\ savedFrames' = << >> /\ ppc' \notin {"saved", "open"}
          /\ outputInitialized' = FALSE /\ videoPackets' = 0 /\ audioPackets' = 0
          /\ lastVideoPts' = lastVideoPts /\ written' = written
      BY <2>4, <1>4 DEF OpenFails, Reset, RecorderTypes
    <3>2. outputInitialized' \in BOOLEAN
      BY <3>1, Zenon
    <3>3. << >> \in Seq(Frame)
      OBVIOUS
    <3> QED BY <3>1, <3>2, <3>3, <1>7, NoneApart DEF RecorderTypes, OpenInv
  <2> QED BY <2>1, <2>2, <2>3, <2>4
<1> QED BY <1>8, <1>9, <1>10

\* What a packet that is written, ignored or lost changes.
Recorded(p) == [file |-> uri, frame |-> p, delay |-> lastInputPts - p.pts]
Skips(p) == UNCHANGED <<lastVideoPts, videoPackets, audioPackets, fileContexts, written>>
Loses(p) ==
  /\ lastVideoPts' = IF p.video THEN p.pts ELSE lastVideoPts
  /\ UNCHANGED <<videoPackets, audioPackets, fileContexts, written>>
Records(p) ==
  /\ lastVideoPts' = IF p.video THEN p.pts ELSE lastVideoPts
  /\ videoPackets' = videoPackets + (IF p.video THEN 1 ELSE 0)
  /\ audioPackets' = audioPackets + (IF p.video THEN 0 ELSE 1)
  /\ IF p.video /\ videoPackets = 1 THEN NotifyNewFile(p.pts) ELSE UNCHANGED fileContexts
  /\ written' = Append(written, Recorded(p))

LEMMA WriteFrameCases ==
  ASSUME NEW p, WriteFrame(p) PROVE Skips(p) \/ Loses(p) \/ Records(p)
BY DEF WriteFrame, Skips, Loses, Records, Recorded

LEMMA RecordedIsEntry ==
  ASSUME TypeInv, NEW p \in Frame, outputInitialized PROVE Recorded(p) \in Entry
<1>1. uri \in Nat /\ lastInputPts \in Nat /\ p.pts \in Nat
  BY FrameParts DEF TypeInv, OpenInv, EncoderTypes
<1> QED BY <1>1 DEF Recorded, Entry

LEMMA AppendFacts ==
  ASSUME NEW S, NEW s \in Seq(S), NEW e \in S
  PROVE  /\ Append(s, e) \in Seq(S) /\ Append(s, e) # << >>
         /\ Len(s) \in Nat /\ DOMAIN s = 1..Len(s) /\ Len(Append(s, e)) = Len(s) + 1
         /\ DOMAIN Append(s, e) = 1..(Len(s) + 1) /\ Append(s, e)[Len(s) + 1] = e
         /\ \A i \in 1..Len(s) : Append(s, e)[i] = s[i]
BY AppendProperties, LenProperties

LEMMA WriteKeepsTypes ==
  ASSUME TypeInv, NEW p \in Frame, outputInitialized, WriteFrame(p)
  PROVE  /\ lastVideoPts' \in Nat /\ videoPackets' \in Nat /\ audioPackets' \in Nat
         /\ fileContexts' \in Seq(Context) /\ written' \in Seq(Entry)
<1> USE DEF TypeInv, RecorderTypes, SynchroniserTypes
<1>1. p.pts \in Nat /\ uri \in Nat
  BY FrameParts DEF OpenInv
<1>2. CASE Skips(p)
  BY <1>2 DEF Skips
<1>3. CASE Loses(p)
  BY <1>1, <1>3 DEF Loses
<1>4. CASE Records(p)
  <2>1. lastVideoPts' \in Nat /\ videoPackets' \in Nat /\ audioPackets' \in Nat
    BY <1>1, <1>4 DEF Records
  <2>2. written' \in Seq(Entry)
    BY <1>4, RecordedIsEntry, AppendProperties DEF Records
  <2> DEFINE c == [start |-> p.pts, end |-> None, name |-> uri]
  <2>3. c \in Context
    BY <1>1 DEF Context
  <2>4. fileContexts' \in {fileContexts, Append(fileContexts, c)}
    BY <1>4 DEF Records, NotifyNewFile
  <2> HIDE DEF c
  <2>5. Append(fileContexts, c) \in Seq(Context)
    BY <2>3, AppendProperties
  <2> QED BY <2>1, <2>2, <2>4, <2>5
<1> QED BY <1>2, <1>3, <1>4, WriteFrameCases

LEMMA WritingFacts ==
  ASSUME TypeInv, WriteSaved \/ WritePacket
  PROVE  /\ outputInitialized
         /\ WriteSaved => /\ savedFrames # << >> /\ ppc = "saved" /\ ppc' = "saved"
                          /\ WriteFrame(Head(savedFrames)) /\ Head(savedFrames) \in Frame
                          /\ savedFrames' = Tail(savedFrames)
         /\ WritePacket => /\ packet \in Frame /\ ppc \in {"check", "saved"} /\ ppc' = "encoder"
                           /\ WriteFrame(packet) /\ savedFrames = << >> /\ savedFrames' = savedFrames
         /\ UNCHANGED <<source, framesRead, frame, packet, sourceFrames, edge, passthrough, inEncoder, lastInputPts,
                        encoderDelay, outputInitialized, criticalError, uri, frames, knownDelay, lastPtsInQueue,
                        returned, dropped>>
<1> USE DEF TypeInv
<1>1. outputInitialized
  BY DEF WriteSaved, WritePacket, KeepsFile, OpenInv
<1>2. UNCHANGED <<source, framesRead, frame, packet, sourceFrames, edge, passthrough, inEncoder, lastInputPts,
                  encoderDelay, outputInitialized, criticalError, uri, frames, knownDelay, lastPtsInQueue,
                  returned, dropped>>
  BY DEF WriteSaved, WritePacket, splitter, encoder, queue
<1>3. CASE WriteSaved
  BY <1>1, <1>2, <1>3, TailIn DEF WriteSaved, WritePacket, KeepsFile, RecorderTypes
<1>4. CASE WritePacket
  <2>1. ppc \in {"check", "saved"} /\ savedFrames = << >>
    BY <1>4 DEF WritePacket, KeepsFile, OpenInv
  <2>2. ~WriteSaved
    BY <2>1 DEF WriteSaved
  <2> QED BY <1>1, <1>2, <1>4, <2>1, <2>2 DEF WritePacket, SplitterTypes, Holding
<1> QED BY <1>3, <1>4

LEMMA WritingKeepsTypes ==
  ASSUME TypeInv, WriteSaved \/ WritePacket PROVE TypeInv'
<1>1. /\ lastVideoPts' \in Nat /\ videoPackets' \in Nat /\ audioPackets' \in Nat
      /\ fileContexts' \in Seq(Context) /\ written' \in Seq(Entry)
  BY WritingFacts, WriteKeepsTypes
<1>2. savedFrames' \in Seq(Frame)
  BY WritingFacts, TailIn DEF TypeInv, RecorderTypes
<1>3. /\ ppc' \in {"saved", "encoder"} /\ (ppc' = "saved" => ppc = "saved")
      /\ (ppc' # "saved" => savedFrames' = << >>)
      /\ outputInitialized
  BY WritingFacts
<1> USE WritingFacts DEF TypeInv
<1>4. SplitterTypes'
  BY <1>3 DEF SplitterTypes, Place, Busy, Holding
<1>5. EncoderTypes'
  BY DEF EncoderTypes
<1>6. RecorderTypes'
  BY <1>1, <1>2 DEF RecorderTypes
<1>8. SynchroniserTypes'
  BY <1>1 DEF SynchroniserTypes
<1>7. OpenInv'
  BY <1>3, NoneApart DEF OpenInv
<1> QED BY <1>4, <1>5, <1>6, <1>7, <1>8

\* The synchroniser.
LEMMA QueueKeepsTypes ==
  ASSUME TypeInv, LearnDelay \/ DropEarly \/ NextFile \/ ReturnFrame \/ ReadVideo \/ ReadAudio
  PROVE  TypeInv'
<1> USE DEF TypeInv, producer, splitter, encoder, recorder, file, queue, history, counters
<1>1. CASE LearnDelay
  BY <1>1 DEF LearnDelay, SplitterTypes, EncoderTypes, RecorderTypes, SynchroniserTypes, OpenInv
<1>2. CASE DropEarly \/ ReturnFrame
  <2>1. frames' \in Seq(Frame)
    BY <1>2, TailIn DEF DropEarly, ReturnFrame, HasCandidate, SynchroniserTypes
  <2>2. UNCHANGED <<producer, knownDelay, lastPtsInQueue, fileContexts, source, framesRead, written>>
    BY <1>2 DEF DropEarly, ReturnFrame
  <2> QED BY <2>1, <2>2 DEF SplitterTypes, EncoderTypes, RecorderTypes, SynchroniserTypes, OpenInv
<1>3. CASE NextFile
  <2>1. fileContexts' \in Seq(Context)
    BY <1>3, HeadTailProperties DEF NextFile, HasCandidate, SynchroniserTypes
  <2> QED BY <1>3, <2>1 DEF NextFile, SplitterTypes, EncoderTypes, RecorderTypes, SynchroniserTypes, OpenInv
<1>4. CASE ReadVideo
  <2>1. edge' \in Seq(Frame) /\ frames' \in Seq(Frame) /\ lastPtsInQueue' \in Nat
    BY <1>4, TailIn, AppendIn, FrameParts DEF ReadVideo, SplitterTypes, SynchroniserTypes
  <2> QED BY <1>4, <2>1 DEF ReadVideo, SplitterTypes, EncoderTypes, RecorderTypes, SynchroniserTypes, OpenInv
<1>5. CASE ReadAudio
  <2>1. edge' \in Seq(Frame)
    BY <1>5, TailIn DEF ReadAudio, SplitterTypes
  <2> QED BY <1>5, <2>1 DEF ReadAudio, SplitterTypes, EncoderTypes, RecorderTypes, SynchroniserTypes, OpenInv
<1> QED BY <1>1, <1>2, <1>3, <1>4, <1>5

\* The steps of the splitter and the encoder, of the recorder, and of the synchroniser; what
\* the application's reader does besides changes none of this.
SplitterSteps == SourceFrame \/ SourceEnds \/ FlushSubgraph \/ PendingPacket \/ PassOn \/ Encode \/ Deposit
OpenSteps == OpenWaitsForSize \/ OpenWaitsForSps \/ OpenOut \/ OpenFails
QueueSteps == LearnDelay \/ DropEarly \/ NextFile \/ ReturnFrame \/ ReadVideo \/ ReadAudio

LEMMA StepCases ==
  ASSUME [ReaderNext]_readerVars
  PROVE  \/ SplitterSteps \/ Rotate \/ Close \/ OpenSteps \/ WriteSaved \/ WritePacket \/ QueueSteps
         \/ UNCHANGED flow
<1> USE DEF splitter, encoder, recorder, file, queue, history, counters, flow
<1>1. CASE UNCHANGED readerVars
  BY <1>1 DEF readerVars, vars, producer
<1>2. CASE Producer
  BY <1>2 DEF Producer, SplitterSteps, OpenSteps
<1>3. CASE RequestNewFile
  BY <1>3 DEF RequestNewFile
<1>4. CASE Move
  BY <1>4 DEF Move
<1>5. CASE GetNewFrame \/ StreamStops
  BY <1>5 DEF GetNewFrame, BeginRead, StreamStops, ReadEnds, producer
<1>6. CASE LibraryReads
  <2>1. CASE NothingSettled
    BY <2>1 DEF NothingSettled, producer
  <2> QED BY <1>6, <2>1 DEF LibraryReads, QueueSteps
<1>7. CASE FrameRead
  BY <1>7 DEF FrameRead, QueueSteps
<1>8. CASE HandleFrame \/ FinalizeMover \/ CloseReader \/ AddLastFile \/ TerminateMover \/ Closed
  <2>1. UNCHANGED vars
    BY <1>8 DEF HandleFrame, FinalizeMover, CloseReader, AddLastFile, TerminateMover, Closed, readerVars
  <2> QED BY <2>1 DEF vars, producer
<1>9. CASE Flush
  BY <1>9 DEF Flush
<1>10. CASE CloseGraph \/ FreeStreamData
  BY <1>10 DEF CloseGraph, FreeStreamData, SplitterSteps
<1> QED
  BY <1>1, <1>2, <1>3, <1>4, <1>5, <1>6, <1>7, <1>8, <1>9, <1>10 DEF ReaderNext

LEMMA TypeStep == TypeInv /\ [ReaderNext]_readerVars => TypeInv'
<1> SUFFICES ASSUME TypeInv, [ReaderNext]_readerVars PROVE TypeInv'
  OBVIOUS
<1>1. CASE SplitterSteps
  BY <1>1, SplitterKeepsTypes DEF SplitterSteps
<1>2. CASE Rotate \/ Close
  BY <1>2, RotateKeepsTypes
<1>3. CASE OpenSteps
  BY <1>3, OpenKeepsTypes DEF OpenSteps
<1>4. CASE WriteSaved \/ WritePacket
  BY <1>4, WritingKeepsTypes
<1>5. CASE QueueSteps
  BY <1>5, QueueKeepsTypes DEF QueueSteps
<1>6. CASE UNCHANGED flow
  BY <1>6, TypeStutter
<1> QED BY <1>1, <1>2, <1>3, <1>4, <1>5, <1>6, StepCases

-----------------------------------------------------------------------------
(***************************************************************************)
(* Where the frames are: on their way to a file (Ahead) and on their way   *)
(* to the application (Pending), on each of them in the order in which     *)
(* they came.                                                              *)
(***************************************************************************)
Delivered == {source[i] : i \in 1..framesRead}
Flying == IF ppc \in Holding THEN {packet} ELSE {}
Coming == In(inEncoder) \cup In(sourceFrames)
Ahead == In(savedFrames) \cup Flying \cup Coming
Undeposited == IF Known(frame) /\ ppc \in Busy THEN {frame} ELSE {}
Pending == In(frames) \cup In(edge) \cup Undeposited
Fresh(y) == \A x \in Delivered : x.pts < y.pts

DeliveredInv ==
  /\ Ahead \subseteq Delivered /\ Pending \subseteq Delivered
  /\ \A i \in DOMAIN written : written[i].frame \in Delivered
OrderInv ==
  /\ Rising(sourceFrames) /\ Rising(inEncoder) /\ RisingVideo(savedFrames)
  /\ \A x \in In(inEncoder) : x.video
  /\ \A x \in In(inEncoder), y \in In(sourceFrames) : x.pts < y.pts
  /\ \A p \in Flying, y \in Coming : p.pts # y.pts
  /\ Lower(Flying, Coming)
  /\ Lower(In(savedFrames), Flying \cup Coming)
PendingInv ==
  /\ Rising(frames) /\ Rising(edge)
  /\ \A x \in In(frames) : x.video
  /\ \A x \in In(frames), y \in In(edge) \cup Undeposited : x.pts < y.pts
  /\ \A x \in In(edge), y \in Undeposited : x.pts < y.pts
FlowInv == DeliveredInv /\ OrderInv /\ PendingInv

\* A step brings nothing back: what is ahead, or pending, was so before or has just been read.
Onward ==
  /\ Delivered \subseteq Delivered'
  /\ \A y \in Ahead' : y \in Ahead \/ Fresh(y)
  /\ \A y \in Pending' : y \in Pending \/ Fresh(y)

LEMMA DeliveredFacts ==
  ASSUME TypeInv
  PROVE  /\ \A x \in Delivered : x \in Frame /\ x.pts \in Nat /\ x.video \in BOOLEAN /\ x # None
         /\ \A x, y \in Delivered : x.pts = y.pts => x = y
<1>1. /\ framesRead \in 0..Len(source) /\ Len(source) \in Nat /\ source \in [1..Len(source) -> Frame]
      /\ \A i, j \in 1..Len(source) : i < j => source[i].pts < source[j].pts
  BY SourceFacts DEF TypeInv, SplitterTypes
<1>2. \A i \in 1..framesRead : i \in 1..Len(source) /\ source[i] \in Frame
  BY <1>1
<1>3. \A x \in Delivered : x \in Frame
  BY <1>2 DEF Delivered
<1>4. \A i, j \in 1..framesRead : source[i].pts = source[j].pts => source[i] = source[j]
  BY <1>1, <1>2, FrameParts
<1> QED BY <1>3, <1>4, FrameParts DEF Delivered

LEMMA DeliveredTimes == TypeInv => \A x \in Delivered : x.pts \in Nat
BY DeliveredFacts

LEMMA SameDelivered ==
  ASSUME UNCHANGED <<source, framesRead>>
  PROVE  Delivered' = Delivered
BY DEF Delivered

LEMMA NewFrame ==
  ASSUME TypeInv, SourceFrame
  PROVE  /\ frame' \in Frame /\ frame' # None /\ Delivered' = Delivered \cup {frame'} /\ Fresh(frame')
<1>1. /\ framesRead \in 0..Len(source) /\ Len(source) \in Nat /\ source \in [1..Len(source) -> Frame]
      /\ \A i, j \in 1..Len(source) : i < j => source[i].pts < source[j].pts
  BY SourceFacts DEF TypeInv, SplitterTypes
<1>2. /\ framesRead' = framesRead + 1 /\ framesRead + 1 \in 1..Len(source) /\ source' = source
      /\ frame' = source[framesRead + 1]
  BY <1>1 DEF SourceFrame
<1>3. frame' \in Frame /\ frame' # None
  BY <1>1, <1>2, FrameParts
<1>4. 1..(framesRead + 1) = (1..framesRead) \cup {framesRead + 1}
  BY <1>1
<1>5. Delivered' = Delivered \cup {frame'}
  <2>1. Delivered' = {source[i] : i \in 1..(framesRead + 1)}
    BY <1>2 DEF Delivered
  <2> QED BY <2>1, <1>2, <1>4 DEF Delivered
<1>6. Fresh(frame')
  <2>1. \A i \in 1..framesRead : source[i].pts < source[framesRead + 1].pts
    BY <1>1, <1>2
  <2> QED BY <2>1, <1>2 DEF Fresh, Delivered
<1> QED BY <1>3, <1>5, <1>6

LEMMA FlowInit == ReaderInit => FlowInv
<1> SUFFICES ASSUME ReaderInit PROVE FlowInv
  OBVIOUS
<1>1. /\ sourceFrames = << >> /\ inEncoder = << >> /\ savedFrames = << >> /\ frames = << >> /\ edge = << >>
      /\ written = << >> /\ frame = None /\ ppc = "source"
  BY DEF ReaderInit, Init, SplitterInit, EncoderInit, RecorderInit, SynchroniserInit
<1>2. Ahead = {} /\ Pending = {} /\ Flying = {} /\ Coming = {} /\ Undeposited = {}
  BY <1>1, EmptyIn DEF Ahead, Pending, Flying, Coming, Undeposited, Holding, Busy
<1>3. DeliveredInv
  BY <1>1, <1>2 DEF DeliveredInv
<1>4. OrderInv /\ PendingInv
  BY <1>1, <1>2, EmptyIn DEF OrderInv, PendingInv, Lower
<1> QED BY <1>3, <1>4 DEF FlowInv

LEMMA FlowStutter ==
  ASSUME FlowInv, UNCHANGED flow PROVE FlowInv' /\ Onward
<1>1. /\ Delivered' = Delivered /\ Flying' = Flying /\ Coming' = Coming /\ Ahead' = Ahead
      /\ Undeposited' = Undeposited /\ Pending' = Pending
  BY DEF Delivered, Flying, Coming, Ahead, Undeposited, Pending, flow
<1>2. UNCHANGED <<sourceFrames, inEncoder, savedFrames, frames, edge, written>>
  BY DEF flow
<1> QED BY <1>1, <1>2 DEF FlowInv, DeliveredInv, OrderInv, PendingInv, Onward

LEMMA PendingUntouched ==
  ASSUME PendingInv, UNCHANGED <<frame, edge, frames>>, ppc \in Busy, ppc' \in Busy
  PROVE  Pending' = Pending /\ PendingInv'
<1>1. Undeposited' = Undeposited
  BY DEF Undeposited
<1>2. Pending' = Pending
  BY <1>1 DEF Pending
<1> QED BY <1>1, <1>2 DEF PendingInv

LEMMA AheadUntouched ==
  ASSUME OrderInv, UNCHANGED <<inEncoder, sourceFrames, savedFrames>>, Flying' = Flying
  PROVE  Ahead' = Ahead /\ OrderInv'
<1>1. Coming' = Coming
  BY DEF Coming
<1>2. Ahead' = Ahead
  BY <1>1 DEF Ahead
<1> QED BY <1>1, <1>2 DEF OrderInv

\* With less ahead than before.
LEMMA FlowShrinks ==
  ASSUME FlowInv, UNCHANGED <<source, framesRead, written>>,
         Ahead' \subseteq Ahead, Pending' \subseteq Pending
  PROVE  DeliveredInv' /\ Onward
<1>1. Delivered' = Delivered
  BY SameDelivered
<1> QED BY <1>1 DEF FlowInv, DeliveredInv, Onward

LEMMA SourceFrameFlows ==
  ASSUME TypeInv, FlowInv, SourceFrame PROVE FlowInv' /\ Onward
<1> USE DEF FlowInv
<1> USE DEF SourceFrame, splitter, encoder, recorder, file, queue, history, counters
<1> DEFINE new == frame'
<1>1. new \in Frame /\ new # None /\ Delivered' = Delivered \cup {new} /\ Fresh(new)
  BY NewFrame
<1>2. /\ In(sourceFrames') = In(sourceFrames) \cup {new}
      /\ Rising(sourceFrames) /\ (\A x \in In(sourceFrames) : x.pts < new.pts) => Rising(sourceFrames')
  BY <1>1, AppendIn DEF TypeInv, SplitterTypes
<1>3. /\ UNCHANGED <<inEncoder, savedFrames, edge, frames, written>>
      /\ Flying = {} /\ Flying' = {} /\ Undeposited = {} /\ Undeposited' = {new}
  BY <1>1 DEF Flying, Undeposited, Busy, Holding, Known
<1> HIDE DEF SourceFrame, new
<1>4. Coming' = Coming \cup {new} /\ Ahead' = Ahead \cup {new} /\ Pending' = Pending \cup {new}
  BY <1>2, <1>3 DEF Coming, Ahead, Pending
<1>5. \A x \in Ahead \cup Pending : x.pts < new.pts
  BY <1>1 DEF DeliveredInv, Fresh
<1>6. DeliveredInv' /\ Onward
  BY <1>1, <1>3, <1>4 DEF DeliveredInv, Onward
<1>7. OrderInv'
  <2>1. Rising(sourceFrames') /\ Rising(inEncoder') /\ RisingVideo(savedFrames')
    BY <1>2, <1>3, <1>5 DEF OrderInv, Ahead, Coming
  <2>2. \A x \in In(inEncoder) : x.video
    BY DEF OrderInv
  <2>3. \A x \in In(inEncoder), y \in In(sourceFrames') : x.pts < y.pts
    BY <1>2, <1>5 DEF OrderInv, Ahead, Coming
  <2>4. Lower(In(savedFrames), Coming')
    BY <1>4, <1>5 DEF OrderInv, Ahead, Lower
  <2> QED BY <2>1, <2>2, <2>3, <2>4, <1>3 DEF OrderInv, Lower
<1>8. PendingInv'
  BY <1>3, <1>5 DEF PendingInv, Pending
<1> QED BY <1>6, <1>7, <1>8

LEMMA RunAgainFlows ==
  ASSUME TypeInv, FlowInv, SourceEnds \/ FlushSubgraph PROVE FlowInv' /\ Onward
<1> USE DEF FlowInv
<1>1. /\ UNCHANGED <<source, framesRead, written, inEncoder, sourceFrames, savedFrames, edge, frames>>
      /\ Flying' = {} /\ Flying = {} /\ Undeposited' = {}
  BY DEF SourceEnds, FlushSubgraph, RunAgain, encoder, recorder, file, queue, history, counters,
         Flying, Undeposited, Holding, Known
<1>2. Ahead' = Ahead /\ OrderInv'
  BY <1>1, AheadUntouched
<1>3. Pending' \subseteq Pending /\ PendingInv'
  BY <1>1 DEF Pending, PendingInv
<1> QED BY <1>1, <1>2, <1>3, FlowShrinks

LEMMA PendingPacketFlows ==
  ASSUME TypeInv, FlowInv, PendingPacket PROVE FlowInv' /\ Onward
<1> USE DEF FlowInv
<1>1. inEncoder # << >>
  BY LenProperties, RecordingAssumption DEF PendingPacket, Ready, TypeInv, EncoderTypes
<1>2. /\ UNCHANGED <<source, framesRead, written, sourceFrames, savedFrames, frame, edge, frames>>
      /\ ppc = "encoder" /\ ppc' = "check" /\ packet' = Head(inEncoder) /\ inEncoder' = Tail(inEncoder)
  BY DEF PendingPacket, Offer, splitter, file, queue, counters
<1> DEFINE p == Head(inEncoder)
<1>3. /\ In(inEncoder) = In(inEncoder') \cup {p} /\ p \in In(inEncoder)
      /\ Rising(inEncoder') /\ \A x \in In(inEncoder') : p.pts < x.pts
  BY <1>1, <1>2, TailIn DEF TypeInv, EncoderTypes, OrderInv
<1>4. Flying = {} /\ Flying' = {p}
  BY <1>2 DEF Flying, Holding
<1> HIDE DEF p
<1>5. Coming = Coming' \cup {p} /\ Ahead' = Ahead
  BY <1>2, <1>3, <1>4 DEF Coming, Ahead
<1>6. Pending' = Pending /\ PendingInv'
  BY <1>2, PendingUntouched DEF Busy, Holding
<1>7. p \in Frame /\ p.pts \in Nat /\ \A y \in Ahead : y.pts \in Nat
  BY <1>5, DeliveredFacts DEF DeliveredInv, Coming, Ahead
<1>8. \A y \in Coming' : p.pts < y.pts
  BY <1>2, <1>3 DEF OrderInv, Coming
<1>9. OrderInv'
  <2>1. Rising(sourceFrames') /\ Rising(inEncoder') /\ RisingVideo(savedFrames')
    BY <1>2, <1>3 DEF OrderInv
  <2>2. /\ \A x \in In(inEncoder') : x.video
        /\ \A x \in In(inEncoder'), y \in In(sourceFrames') : x.pts < y.pts
    BY <1>2, <1>3 DEF OrderInv
  <2>3. (\A y \in Coming' : p.pts # y.pts) /\ Lower({p}, Coming')
    BY <1>5, <1>7, <1>8 DEF Lower, Ahead
  <2>4. Lower(In(savedFrames'), {p} \cup Coming')
    BY <1>2, <1>5 DEF OrderInv, Lower
  <2> QED BY <2>1, <2>2, <2>3, <2>4, <1>4 DEF OrderInv
<1> QED BY <1>2, <1>5, <1>6, <1>9, FlowShrinks

LEMMA PassOnFlows ==
  ASSUME TypeInv, FlowInv, PassOn PROVE FlowInv' /\ Onward
<1> USE DEF FlowInv
<1>1. /\ UNCHANGED <<source, framesRead, written, inEncoder, savedFrames, frame, edge, frames>>
      /\ ppc \in {"encoder", "retry"} /\ ppc' = "check" /\ packet' = Head(sourceFrames)
      /\ sourceFrames # << >> /\ sourceFrames' = Tail(sourceFrames)
  BY DEF PassOn, Gets, Reads, Input, Offer, encoder, file, queue, counters
<1> DEFINE p == Head(sourceFrames)
<1>3. /\ In(sourceFrames) = In(sourceFrames') \cup {p} /\ p \in In(sourceFrames)
      /\ Rising(sourceFrames') /\ \A x \in In(sourceFrames') : p.pts < x.pts
  BY <1>1, TailIn DEF TypeInv, SplitterTypes, OrderInv
<1>4. Flying = {} /\ Flying' = {p}
  BY <1>1 DEF Flying, Holding
<1> HIDE DEF p
<1>5. Coming = Coming' \cup {p} /\ Ahead' = Ahead
  BY <1>1, <1>3, <1>4 DEF Coming, Ahead
<1>6. Pending' = Pending /\ PendingInv'
  BY <1>1, PendingUntouched DEF Busy, Holding
<1>7. p \in Frame /\ p.pts \in Nat /\ \A y \in Ahead : y.pts \in Nat
  BY <1>5, DeliveredFacts DEF DeliveredInv, Coming, Ahead
<1>8. /\ \A y \in In(sourceFrames') : p.pts < y.pts
      /\ \A y \in In(inEncoder) : y.pts < p.pts
  BY <1>3 DEF OrderInv
<1>9. \A y \in Coming' : p.pts # y.pts
  BY <1>1, <1>5, <1>7, <1>8 DEF Coming, Ahead
<1>10. Lower({p}, Coming')
  <2>1. CASE passthrough
    <3>1. In(inEncoder) = {}
      BY <2>1, EmptyIn DEF TypeInv, EncoderTypes
    <3> QED BY <3>1, <1>1, <1>8 DEF Coming, Lower
  <2>2. CASE ~passthrough
    <3>1. ~p.video
      BY <2>2 DEF PassOn, Input, p
    <3> QED BY <3>1 DEF Lower
  <2> QED BY <2>1, <2>2
<1>11. OrderInv'
  <2>1. Rising(sourceFrames') /\ Rising(inEncoder') /\ RisingVideo(savedFrames')
    BY <1>1, <1>3 DEF OrderInv
  <2>2. /\ \A x \in In(inEncoder') : x.video
        /\ \A x \in In(inEncoder'), y \in In(sourceFrames') : x.pts < y.pts
    BY <1>1, <1>3 DEF OrderInv
  <2>3. Lower(In(savedFrames'), {p} \cup Coming')
    BY <1>1, <1>5 DEF OrderInv, Lower
  <2> QED BY <2>1, <2>2, <2>3, <1>9, <1>10, <1>4 DEF OrderInv
<1> QED BY <1>1, <1>5, <1>6, <1>11, FlowShrinks

LEMMA EncodeFlows ==
  ASSUME TypeInv, FlowInv, Encode PROVE FlowInv' /\ Onward
<1> USE DEF FlowInv
<1> DEFINE p == Head(sourceFrames)
           taken == Append(inEncoder, p)
           first == Head(taken)
<1>1. /\ UNCHANGED <<source, framesRead, written, savedFrames, frame, edge, frames>>
      /\ ppc \in {"encoder", "retry"} /\ p.video
      /\ sourceFrames # << >> /\ sourceFrames' = Tail(sourceFrames)
  BY DEF Encode, Gets, Reads, Input, file, queue
<1>2. \/ packet' = first /\ ppc' = "check" /\ inEncoder' = Tail(taken)
      \/ ppc' = "retry" /\ inEncoder' = taken
      \/ ppc' = "deposit" /\ inEncoder' = inEncoder
  BY DEF Encode, Offer, Input
<1>3. /\ In(sourceFrames) = In(sourceFrames') \cup {p} /\ p \in In(sourceFrames) /\ p \in Frame
      /\ Rising(sourceFrames') /\ \A x \in In(sourceFrames') : p.pts < x.pts
  BY <1>1, TailIn DEF TypeInv, SplitterTypes, OrderInv
<1>4. \A x \in In(inEncoder) : x.pts < p.pts
  BY <1>3 DEF OrderInv
<1>5. /\ taken \in Seq(Frame) /\ taken # << >> /\ In(taken) = In(inEncoder) \cup {p} /\ Rising(taken)
  BY <1>3, <1>4, AppendIn DEF TypeInv, EncoderTypes, OrderInv
<1> HIDE DEF p, taken
<1>6. /\ In(taken) = In(Tail(taken)) \cup {first} /\ first \in In(taken)
      /\ Rising(Tail(taken)) /\ \A x \in In(Tail(taken)) : first.pts < x.pts
  BY <1>5, TailIn
<1> HIDE DEF first
<1>7. Flying = {} /\ Coming = In(taken) \cup In(sourceFrames')
  BY <1>1, <1>3, <1>5 DEF Flying, Holding, Coming
<1>8. Pending' = Pending /\ PendingInv'
  <2>1. ppc \in Busy /\ ppc' \in Busy
    BY <1>1, <1>2 DEF Busy, Holding
  <2> QED BY <1>1, <2>1, PendingUntouched
<1>9. \A y \in Coming : y.pts \in Nat
  BY DeliveredFacts DEF DeliveredInv, Ahead
<1>10. \A x \in In(taken) : x.video /\ \A y \in In(sourceFrames') : x.pts < y.pts
  BY <1>1, <1>3, <1>5 DEF OrderInv
<1>11. /\ Rising(sourceFrames') /\ RisingVideo(savedFrames')
       /\ Lower(In(savedFrames'), Coming)
  BY <1>1, <1>3 DEF OrderInv, Lower
<1>12. CASE packet' = first /\ ppc' = "check" /\ inEncoder' = Tail(taken)
  <2>1. Flying' = {first}
    BY <1>12 DEF Flying, Holding
  <2>2. Coming' = In(Tail(taken)) \cup In(sourceFrames') /\ Coming = Coming' \cup {first}
    BY <1>12, <1>6, <1>7 DEF Coming
  <2>3. Ahead' = Ahead
    BY <1>1, <1>7, <2>1, <2>2 DEF Ahead
  <2>4. \A y \in Coming' : first.pts < y.pts
    BY <2>2, <1>6, <1>10
  <2>5. (\A y \in Coming' : first.pts # y.pts) /\ Lower({first}, Coming')
    BY <2>2, <2>4, <1>9 DEF Lower
  <2>6. /\ Rising(inEncoder') /\ \A x \in In(inEncoder') : x.video
        /\ \A x \in In(inEncoder'), y \in In(sourceFrames') : x.pts < y.pts
    BY <1>12, <1>6, <1>10
  <2>7. OrderInv'
    BY <2>1, <2>2, <2>5, <2>6, <1>11 DEF OrderInv
  <2> QED BY <1>1, <1>8, <2>3, <2>7, FlowShrinks
<1>13. CASE ppc' = "retry" /\ inEncoder' = taken
  <2>1. Flying' = {} /\ Coming' = Coming
    BY <1>13, <1>7 DEF Flying, Holding, Coming
  <2>2. Ahead' = Ahead
    BY <1>1, <1>7, <2>1 DEF Ahead
  <2>3. OrderInv'
    BY <2>1, <1>5, <1>10, <1>11, <1>13 DEF OrderInv, Lower
  <2> QED BY <1>1, <1>8, <2>2, <2>3, FlowShrinks
<1>14. CASE ppc' = "deposit" /\ inEncoder' = inEncoder
  <2>1. Flying' = {} /\ Coming' = In(inEncoder) \cup In(sourceFrames') /\ Coming' \subseteq Coming
    BY <1>14, <1>5, <1>7 DEF Flying, Holding, Coming
  <2>2. Ahead' \subseteq Ahead
    BY <1>1, <1>7, <2>1 DEF Ahead
  <2>3. Lower(In(savedFrames'), Coming')
    BY <2>1, <1>11 DEF Lower
  <2>4. OrderInv'
    BY <2>1, <2>3, <1>5, <1>10, <1>11, <1>14 DEF OrderInv, Lower
  <2> QED BY <1>1, <1>8, <2>2, <2>4, FlowShrinks
<1> QED BY <1>2, <1>12, <1>13, <1>14

LEMMA DepositFlows ==
  ASSUME TypeInv, FlowInv, Deposit PROVE FlowInv' /\ Onward
<1> USE DEF FlowInv
<1>1. /\ UNCHANGED <<source, framesRead, written, inEncoder, sourceFrames, savedFrames, frame, frames>>
      /\ ppc \in {"encoder", "retry", "deposit"} /\ ppc' \in {"source", "flushed", "ended"}
      /\ edge' = IF Known(frame) THEN Append(edge, frame) ELSE edge
  BY DEF Deposit, Reads, encoder, recorder, file, queue, counters, history
<1>2. Flying = {} /\ Flying' = {} /\ Undeposited' = {}
  BY <1>1 DEF Flying, Holding, Undeposited, Busy
<1>3. Ahead' = Ahead /\ OrderInv'
  BY <1>1, <1>2, AheadUntouched
<1>4. CASE Known(frame)
  <2>1. frame \in Frame /\ Undeposited = {frame}
    BY <1>1, <1>4 DEF Known, TypeInv, SplitterTypes, Undeposited, Busy
  <2>2. In(edge') = In(edge) \cup {frame} /\ Rising(edge')
    BY <1>1, <1>4, <2>1, AppendIn DEF TypeInv, SplitterTypes, PendingInv
  <2>3. Pending' = Pending
    BY <1>1, <1>2, <2>1, <2>2 DEF Pending
  <2>4. PendingInv'
    BY <1>1, <1>2, <2>1, <2>2 DEF PendingInv
  <2> QED BY <1>1, <1>3, <2>3, <2>4, FlowShrinks
<1>5. CASE ~Known(frame)
  <2>1. Undeposited = {}
    BY <1>5 DEF Undeposited
  <2>2. Pending' = Pending /\ PendingInv'
    BY <1>1, <1>2, <1>5, <2>1 DEF Pending, PendingInv
  <2> QED BY <1>1, <1>3, <2>2, FlowShrinks
<1> QED BY <1>4, <1>5

LEMMA RotateFlows ==
  ASSUME TypeInv, FlowInv, Rotate \/ Close PROVE FlowInv' /\ Onward
<1> USE DEF FlowInv
<1>1. /\ UNCHANGED <<source, framesRead, written, inEncoder, sourceFrames, packet, frame, edge, frames>>
      /\ (ppc = "check" /\ ppc' = "reopen") \/ (ppc = "flushed" /\ ppc' = "closed")
      /\ savedFrames' = << >>
  BY DEF Rotate, Close, CloseOut, Reset, splitter, encoder, queue, counters, history
<1>2. Flying' = Flying /\ Coming' = Coming /\ Undeposited' = Undeposited
  BY <1>1 DEF Flying, Holding, Coming, Undeposited, Busy
<1>3. Ahead' \subseteq Ahead
  BY <1>1, <1>2, EmptyIn DEF Ahead
<1>4. OrderInv'
  BY <1>1, <1>2, EmptyIn DEF OrderInv, Lower
<1>5. Pending' = Pending /\ PendingInv'
  BY <1>1, <1>2 DEF Pending, PendingInv
<1> QED BY <1>1, <1>3, <1>4, <1>5, FlowShrinks

LEMMA OpenFlows ==
  ASSUME TypeInv, FlowInv, OpenSteps PROVE FlowInv' /\ Onward
<1> USE DEF FlowInv
<1>1. /\ UNCHANGED <<source, framesRead, written, inEncoder, sourceFrames, packet, frame, edge, frames>>
      /\ packet \in Frame /\ ppc \in {"check", "open", "reopen"}
  <2>1. Opening
    BY DEF OpenSteps, OpenWaitsForSize, OpenWaitsForSps, OpenOut, OpenFails
  <2> QED BY <2>1, OpeningFacts DEF OpenSteps, OpenWaitsForSize, OpenWaitsForSps, OpenOut, OpenFails,
             splitter, encoder, queue, counters, history
<1>2. Flying = {packet}
  BY <1>1 DEF Flying, Holding
<1>3. /\ ppc' \in {"deposit", "encoder", "open", "saved"}
      /\ \E s \in {savedFrames, << >>} :
           \/ savedFrames' = s
           \/ savedFrames' = Append(s, packet) /\ ppc' \in {"deposit", "encoder"}
  BY DEF OpenSteps, OpenWaitsForSize, OpenWaitsForSps, OpenOut, OpenFails, LeaveUnopened, SavedSinceKey, Reset
<1>4. PICK s \in {savedFrames, << >>} :
           \/ savedFrames' = s
           \/ savedFrames' = Append(s, packet) /\ ppc' \in {"deposit", "encoder"}
  BY <1>3
<1>5. s \in Seq(Frame) /\ In(s) \subseteq In(savedFrames) /\ RisingVideo(s)
  <2>1. savedFrames \in Seq(Frame) /\ RisingVideo(savedFrames) /\ << >> \in Seq(Frame)
    BY DEF TypeInv, RecorderTypes, OrderInv
  <2> QED BY <2>1, EmptyIn
<1>6. Coming' = Coming
  BY <1>1 DEF Coming
<1>7. Pending' = Pending /\ PendingInv'
  BY <1>1, <1>3, PendingUntouched DEF Busy, Holding
<1>8. /\ Lower(In(s), {packet} \cup Coming) /\ Lower({packet}, Coming)
      /\ \A y \in Coming : packet.pts # y.pts
  BY <1>2, <1>5 DEF OrderInv, Lower
<1>9. /\ RisingVideo(savedFrames')
      /\ \/ In(savedFrames') = In(s) /\ Flying' \subseteq {packet}
         \/ In(savedFrames') = In(s) \cup {packet} /\ Flying' = {}
  <2>1. CASE savedFrames' = s
    BY <2>1, <1>1, <1>5 DEF Flying
  <2>2. CASE savedFrames' = Append(s, packet) /\ ppc' \in {"deposit", "encoder"}
    <3>1. Lower(In(s), {packet})
      BY <1>8 DEF Lower
    <3>2. In(savedFrames') = In(s) \cup {packet} /\ RisingVideo(savedFrames')
      BY <2>2, <3>1, <1>1, <1>5, AppendIn
    <3> QED BY <2>2, <3>2 DEF Flying, Holding
  <2> QED BY <1>4, <2>1, <2>2
<1>10. Ahead' \subseteq Ahead
  BY <1>2, <1>5, <1>6, <1>9 DEF Ahead
<1>11. Lower(In(savedFrames'), Flying' \cup Coming') /\ Lower(Flying', Coming')
  BY <1>6, <1>8, <1>9 DEF Lower
<1>12. \A p \in Flying', y \in Coming' : p.pts # y.pts
  BY <1>6, <1>8, <1>9
<1>13. OrderInv'
  BY <1>1, <1>9, <1>11, <1>12 DEF OrderInv
<1> QED BY <1>1, <1>7, <1>10, <1>13, FlowShrinks

\* The packet that is written is the first of those ahead.
LEMMA WritingMoves ==
  ASSUME TypeInv, FlowInv, WriteSaved \/ WritePacket
  PROVE  /\ \E p \in Ahead : WriteFrame(p) /\ Lower({p}, Ahead')
         /\ Ahead' \subseteq Ahead /\ OrderInv'
<1> USE DEF FlowInv
<1>1. /\ UNCHANGED <<inEncoder, sourceFrames, packet>>
      /\ Coming' = Coming
  BY WritingFacts DEF Coming
<1>2. CASE WriteSaved
  <2> DEFINE p == Head(savedFrames)
  <2>1. /\ savedFrames # << >> /\ ppc = "saved" /\ ppc' = "saved" /\ WriteFrame(p)
        /\ savedFrames' = Tail(savedFrames)
    BY <1>2, WritingFacts
  <2>2. /\ In(savedFrames) = In(savedFrames') \cup {p}
        /\ RisingVideo(savedFrames') /\ Lower({p}, In(savedFrames'))
    BY <2>1, TailIn DEF TypeInv, RecorderTypes, OrderInv
  <2> HIDE DEF p
  <2>3. Flying' = Flying
    BY <1>1, <2>1 DEF Flying
  <2>4. p \in Ahead /\ Ahead' \subseteq Ahead
    BY <1>1, <2>2, <2>3 DEF Ahead
  <2>5. Lower({p}, Flying \cup Coming) /\ Lower(In(savedFrames'), Flying \cup Coming)
    BY <2>2 DEF OrderInv, Lower
  <2>6. Lower({p}, Ahead')
    BY <1>1, <2>2, <2>3, <2>5 DEF Ahead, Lower
  <2>7. OrderInv'
    BY <1>1, <2>2, <2>3, <2>5 DEF OrderInv
  <2> QED BY <2>1, <2>4, <2>6, <2>7
<1>3. CASE WritePacket
  <2>1. /\ ppc \in {"check", "saved"} /\ ppc' = "encoder" /\ WriteFrame(packet)
        /\ savedFrames = << >> /\ savedFrames' = savedFrames
    BY <1>3, WritingFacts
  <2>2. Flying = {packet} /\ Flying' = {} /\ In(savedFrames') = {}
    BY <2>1, EmptyIn DEF Flying, Holding
  <2>3. packet \in Ahead /\ Ahead' = Coming /\ Ahead' \subseteq Ahead
    BY <1>1, <2>2 DEF Ahead
  <2>4. Lower({packet}, Ahead')
    BY <2>2, <2>3 DEF OrderInv
  <2>5. OrderInv'
    BY <1>1, <2>1, <2>2 DEF OrderInv, Lower
  <2> QED BY <2>1, <2>3, <2>4, <2>5
<1> QED BY <1>2, <1>3

LEMMA WrittenGrows ==
  ASSUME TypeInv, NEW p \in Frame, outputInitialized, Records(p)
  PROVE  /\ Recorded(p) \in Entry
         /\ Len(written) \in Nat /\ DOMAIN written = 1..Len(written)
         /\ DOMAIN written' = 1..(Len(written) + 1) /\ written'[Len(written) + 1] = Recorded(p)
         /\ \A i \in 1..Len(written) : written'[i] = written[i]
BY RecordedIsEntry, AppendFacts DEF TypeInv, RecorderTypes, Records

LEMMA WritingFlows ==
  ASSUME TypeInv, FlowInv, WriteSaved \/ WritePacket PROVE FlowInv' /\ Onward
<1> USE DEF FlowInv
<1>1. PICK p \in Ahead : WriteFrame(p) /\ Lower({p}, Ahead')
  BY WritingMoves
<1>2. /\ UNCHANGED <<source, framesRead, frame, edge, frames>> /\ ppc \in Busy /\ ppc' \in Busy
      /\ outputInitialized
  BY WritingFacts DEF Busy, Holding
<1>3. Delivered' = Delivered /\ Pending' = Pending /\ PendingInv' /\ OrderInv' /\ Ahead' \subseteq Ahead
  BY <1>2, SameDelivered, PendingUntouched, WritingMoves
<1>4. p \in Delivered /\ p \in Frame
  BY <1>1, DeliveredFacts DEF DeliveredInv
<1>5. \A i \in DOMAIN written' : written'[i].frame \in Delivered
  <2>1. CASE Skips(p) \/ Loses(p)
    BY <2>1 DEF Skips, Loses, DeliveredInv
  <2>2. CASE Records(p)
    <3>1. Recorded(p).frame = p
      BY DEF Recorded
    <3> QED BY <1>2, <1>4, <2>2, <3>1, WrittenGrows DEF DeliveredInv
  <2> QED BY <1>1, <2>1, <2>2, WriteFrameCases
<1> QED BY <1>3, <1>5 DEF DeliveredInv, Onward

LEMMA QueueFlows ==
  ASSUME TypeInv, FlowInv, QueueSteps PROVE FlowInv' /\ Onward
<1> USE DEF FlowInv
<1>1. UNCHANGED <<source, framesRead, written, inEncoder, sourceFrames, savedFrames, ppc, packet, frame>>
  BY DEF QueueSteps, LearnDelay, DropEarly, NextFile, ReturnFrame, ReadVideo, ReadAudio, producer, splitter,
         encoder, recorder, file, queue, counters, history
<1>2. Flying' = Flying /\ Undeposited' = Undeposited
  BY <1>1 DEF Flying, Undeposited
<1>3. Ahead' = Ahead /\ OrderInv'
  BY <1>1, <1>2, AheadUntouched
<1>4. Pending' \subseteq Pending /\ PendingInv'
  <2>1. CASE LearnDelay \/ NextFile
    <3>1. UNCHANGED <<frames, edge>>
      BY <2>1 DEF LearnDelay, NextFile, producer, splitter, queue
    <3> QED BY <3>1, <1>2 DEF Pending, PendingInv
  <2>2. CASE DropEarly \/ ReturnFrame
    <3>1. frames # << >> /\ frames' = Tail(frames) /\ edge' = edge
      BY <2>2 DEF DropEarly, ReturnFrame, HasCandidate, producer, splitter
    <3>2. In(frames') \subseteq In(frames) /\ Rising(frames')
      BY <3>1, TailIn DEF TypeInv, SynchroniserTypes, PendingInv
    <3> QED BY <3>1, <3>2, <1>2 DEF Pending, PendingInv
  <2>3. CASE ReadVideo \/ ReadAudio
    <3> DEFINE e == Head(edge)
    <3>1. /\ edge # << >> /\ edge' = Tail(edge)
          /\ frames' = frames \/ (frames' = Append(frames, e) /\ e.video)
      BY <2>3 DEF ReadVideo, ReadAudio
    <3>2. /\ In(edge) = In(edge') \cup {e} /\ e \in Frame
          /\ Rising(edge') /\ \A x \in In(edge') : e.pts < x.pts
      BY <3>1, TailIn DEF TypeInv, SplitterTypes, PendingInv
    <3> HIDE DEF e
    <3>3. \A x \in In(frames) : x.pts < e.pts
      BY <3>2 DEF PendingInv
    <3>4. \/ frames' = frames
          \/ In(frames') = In(frames) \cup {e} /\ Rising(frames') /\ e.video
      BY <3>1, <3>2, <3>3, AppendIn DEF TypeInv, SynchroniserTypes, PendingInv
    <3>5. Pending' \subseteq Pending
      BY <3>2, <3>4, <1>2 DEF Pending
    <3>6. Rising(frames') /\ Rising(edge') /\ \A x \in In(frames') : x.video
      BY <3>2, <3>4 DEF PendingInv
    <3>7. \A x \in In(frames'), y \in In(edge') \cup Undeposited' : x.pts < y.pts
      BY <3>2, <3>4, <1>2 DEF PendingInv
    <3>8. \A x \in In(edge'), y \in Undeposited' : x.pts < y.pts
      BY <3>2, <1>2 DEF PendingInv
    <3> QED BY <3>5, <3>6, <3>7, <3>8 DEF PendingInv
  <2> QED BY <2>1, <2>2, <2>3 DEF QueueSteps
<1> QED BY <1>1, <1>3, <1>4, FlowShrinks

LEMMA FlowStep == TypeInv /\ FlowInv /\ [ReaderNext]_readerVars => FlowInv' /\ Onward
<1> SUFFICES ASSUME TypeInv, FlowInv, [ReaderNext]_readerVars PROVE FlowInv' /\ Onward
  OBVIOUS
<1>1. CASE SplitterSteps
  BY <1>1, SourceFrameFlows, RunAgainFlows, PendingPacketFlows, PassOnFlows, EncodeFlows, DepositFlows
     DEF SplitterSteps
<1>2. CASE Rotate \/ Close
  BY <1>2, RotateFlows
<1>3. CASE OpenSteps
  BY <1>3, OpenFlows
<1>4. CASE WriteSaved \/ WritePacket
  BY <1>4, WritingFlows
<1>5. CASE QueueSteps
  BY <1>5, QueueFlows
<1>6. CASE UNCHANGED flow
  BY <1>6, FlowStutter
<1> QED BY <1>1, <1>2, <1>3, <1>4, <1>5, <1>6, StepCases

-----------------------------------------------------------------------------
(***************************************************************************)
(* A file's name is the time of a packet that names no other file.         *)
(***************************************************************************)
Names == {written[i].file : i \in DOMAIN written}
Times == {x.pts : x \in Delivered}
Unnamed == Coming \cup (IF ppc \in {"check", "reopen"} THEN {packet} ELSE {})
NameInv ==
  /\ Names \subseteq Times /\ uri \in Times \cup {None}
  /\ \A y \in Unnamed : y.pts \notin Names /\ y.pts # uri
  /\ ~outputInitialized => uri \notin Names

LEMMA UnnamedStep ==
  ASSUME TypeInv, FlowInv, [ReaderNext]_readerVars
  PROVE  /\ Unnamed \subseteq Delivered
         /\ \A y \in Unnamed' : y \in Unnamed \/ Fresh(y)
<1>1. Unnamed \subseteq Delivered
  BY DEF Unnamed, FlowInv, DeliveredInv, Ahead, Flying, Holding
<1>2. CASE SourceFrame
  <2>1. /\ inEncoder' = inEncoder /\ sourceFrames' = Append(sourceFrames, frame') /\ ppc' = "encoder"
    BY <1>2 DEF SourceFrame, encoder
  <2>2. Fresh(frame') /\ frame' \in Frame
    BY <1>2, NewFrame
  <2>3. Unnamed' = Coming \cup {frame'}
    BY <2>1, <2>2, AppendIn DEF Unnamed, Coming, TypeInv, SplitterTypes
  <2> QED BY <2>2, <2>3, <1>1 DEF Unnamed
<1>3. CASE PendingPacket
  <2>1. inEncoder # << >>
    BY <1>3, LenProperties, RecordingAssumption DEF PendingPacket, Ready, TypeInv, EncoderTypes
  <2>2. inEncoder' = Tail(inEncoder) /\ sourceFrames' = sourceFrames /\ packet' = Head(inEncoder)
    BY <1>3 DEF PendingPacket, Offer, splitter
  <2>3. In(inEncoder') \subseteq In(inEncoder) /\ packet' \in In(inEncoder)
    BY <2>1, <2>2, TailIn DEF TypeInv, EncoderTypes
  <2> QED BY <1>1, <2>2, <2>3 DEF Unnamed, Coming
<1>4. CASE PassOn
  <2>1. /\ sourceFrames # << >> /\ inEncoder' = inEncoder /\ sourceFrames' = Tail(sourceFrames)
        /\ packet' = Head(sourceFrames)
    BY <1>4 DEF PassOn, Gets, Input, Offer, encoder
  <2>2. In(sourceFrames') \subseteq In(sourceFrames) /\ packet' \in In(sourceFrames)
    BY <2>1, TailIn DEF TypeInv, SplitterTypes
  <2> QED BY <1>1, <2>1, <2>2 DEF Unnamed, Coming
<1>5. CASE Encode
  <2> DEFINE p == Head(sourceFrames)
             taken == Append(inEncoder, p)
             first == Head(taken)
  <2>1. /\ sourceFrames # << >> /\ sourceFrames' = Tail(sourceFrames)
        /\ \/ packet' = first /\ inEncoder' = Tail(taken)
           \/ ppc' \in {"retry", "deposit"} /\ inEncoder' \in {taken, inEncoder}
    BY <1>5 DEF Encode, Gets, Input, Offer
  <2>2. In(sourceFrames') \subseteq In(sourceFrames) /\ p \in In(sourceFrames) /\ p \in Frame
    BY <2>1, TailIn DEF TypeInv, SplitterTypes
  <2>3. taken \in Seq(Frame) /\ taken # << >> /\ In(taken) = In(inEncoder) \cup {p}
    BY <2>2, AppendIn DEF TypeInv, EncoderTypes
  <2> HIDE DEF p, taken
  <2>4. In(Tail(taken)) \subseteq In(taken) /\ first \in In(taken)
    BY <2>3, TailIn
  <2> HIDE DEF first
  <2>5. In(inEncoder') \subseteq Coming /\ In(sourceFrames') \subseteq Coming
    BY <2>1, <2>2, <2>3, <2>4 DEF Coming
  <2>6. packet' \in Coming \/ ppc' \in {"retry", "deposit"}
    BY <2>1, <2>2, <2>3, <2>4 DEF Coming
  <2> QED BY <1>1, <2>5, <2>6 DEF Unnamed, Coming
<1>6. CASE SourceEnds \/ FlushSubgraph \/ Deposit
  <2>1. UNCHANGED <<inEncoder, sourceFrames>> /\ ppc' \notin {"check", "reopen"}
    BY <1>6 DEF SourceEnds, FlushSubgraph, RunAgain, Deposit, encoder
  <2>2. Unnamed' = Coming
    BY <2>1 DEF Unnamed, Coming
  <2> QED BY <1>1, <2>2 DEF Unnamed
<1>7. CASE Rotate \/ Close
  <2>1. UNCHANGED <<inEncoder, sourceFrames, packet>> /\ (ppc = "check" \/ ppc' = "closed")
    BY <1>7 DEF Rotate, Close, splitter, encoder
  <2> QED BY <1>1, <2>1 DEF Unnamed, Coming
<1>8. CASE OpenSteps
  <2>1. UNCHANGED <<inEncoder, sourceFrames>> /\ ppc' \in {"deposit", "encoder", "open", "saved"}
    BY <1>8 DEF OpenSteps, OpenWaitsForSize, OpenWaitsForSps, OpenOut, OpenFails, LeaveUnopened, splitter, encoder
  <2> QED BY <1>1, <2>1 DEF Unnamed, Coming
<1>9. CASE WriteSaved \/ WritePacket
  <2>1. UNCHANGED <<inEncoder, sourceFrames>> /\ ppc' \in {"saved", "encoder"}
    BY <1>9, WritingFacts
  <2> QED BY <1>1, <2>1 DEF Unnamed, Coming
<1>10. CASE QueueSteps
  <2>1. UNCHANGED <<inEncoder, sourceFrames, ppc, packet>>
    BY <1>10 DEF QueueSteps, LearnDelay, DropEarly, NextFile, ReturnFrame, ReadVideo, ReadAudio, producer, splitter,
         encoder, recorder
  <2> QED BY <1>1, <2>1 DEF Unnamed, Coming
<1>11. CASE UNCHANGED flow
  BY <1>1, <1>11 DEF Unnamed, Coming, flow
<1> QED BY <1>1, <1>2, <1>3, <1>4, <1>5, <1>6, <1>7, <1>8, <1>9, <1>10, <1>11, StepCases DEF SplitterSteps

\* Steps that leave the file alone.
fileVars == <<written, uri, outputInitialized, videoPackets, lastVideoPts>>
LEMMA FileUntouched ==
  ASSUME SplitterSteps \/ QueueSteps \/ UNCHANGED flow PROVE UNCHANGED fileVars
BY DEF SplitterSteps, SourceFrame, SourceEnds, FlushSubgraph, RunAgain, PendingPacket, PassOn, Encode, Deposit,
       QueueSteps, LearnDelay, DropEarly, NextFile, ReturnFrame, ReadVideo, ReadAudio, producer,
       recorder, file, history, flow, fileVars

\* What opening makes of the file's name.
LEMMA OpeningNames ==
  ASSUME TypeInv, FlowInv, NameInv, OpenSteps
  PROVE  /\ UNCHANGED <<written, lastVideoPts, fileContexts>> /\ videoPackets = 0 /\ videoPackets' = 0 /\ ~outputInitialized
         /\ uri' \notin Names
         /\ uri' \in {uri, None, packet.pts} /\ packet \in Flying
<1>1. Opening
  BY DEF OpenSteps, OpenWaitsForSize, OpenWaitsForSps, OpenOut, OpenFails
<1>2. /\ ~outputInitialized /\ packet \in Frame /\ ppc \in {"check", "open", "reopen"} /\ videoPackets = 0
      /\ uri = None => NextTs = packet.pts
  BY <1>1, OpeningFacts DEF TypeInv, OpenInv
<1>3. packet \in Flying
  BY <1>2 DEF Flying, Holding
<1>4. UNCHANGED <<written, lastVideoPts, fileContexts>> /\ videoPackets' = 0
  BY <1>2 DEF OpenSteps, OpenWaitsForSize, OpenWaitsForSps, OpenOut, OpenFails, Reset, history
<1>5. uri' \in {None, IF Known(uri) THEN uri ELSE NextTs}
  BY DEF OpenSteps, OpenWaitsForSize, OpenWaitsForSps, OpenOut, OpenFails, Reset
<1>6. uri = None => packet \in Unnamed
  BY <1>2, NoneApart DEF Unnamed, TypeInv, OpenInv
<1>7. None \notin Names
  BY NoneApart, DeliveredFacts DEF NameInv, Times
<1>8. uri' \notin Names
  BY <1>2, <1>5, <1>6, <1>7 DEF NameInv, Known
<1> QED BY <1>2, <1>3, <1>4, <1>5, <1>8 DEF Known

LEMMA FreshTimes ==
  ASSUME TypeInv, NEW y, Fresh(y)
  PROVE  \A t \in Times : t < y.pts /\ t \in Nat
BY DeliveredFacts DEF Fresh, Times

LEMMA NameStep ==
  ASSUME TypeInv, FlowInv, NameInv, [ReaderNext]_readerVars, Onward
  PROVE  NameInv'
<1>1. Times \subseteq Times'
  BY DEF Onward, Times
<1>2. \A y \in Unnamed' : y \in Unnamed \/ Fresh(y)
  BY UnnamedStep
<1>3. \A y \in Unnamed' : /\ y \in Unnamed => y.pts \notin Names /\ y.pts # uri
                          /\ Fresh(y) => y.pts \notin Times
  BY FreshTimes DEF NameInv
<1>4. \A y \in Unnamed \cup Flying : y \in Delivered /\ y.pts \in Times /\ y.pts \in Nat
  BY UnnamedStep, DeliveredFacts DEF FlowInv, DeliveredInv, Ahead, Times
<1>5. None \notin Names /\ None \notin Times
  BY NoneApart, DeliveredFacts DEF NameInv, Times
<1>6. \A y \in Unnamed' : y.pts # None /\ (Fresh(y) => y.pts # uri)
  <2> SUFFICES ASSUME NEW y \in Unnamed' PROVE y.pts # None /\ (Fresh(y) => y.pts # uri)
    OBVIOUS
  <2>1. y \in Delivered'
    <3>1. TypeInv' /\ FlowInv'
      BY TypeStep, FlowStep
    <3> QED BY <3>1 DEF Unnamed, FlowInv, DeliveredInv, Ahead, Flying, Holding
  <2>2. y.pts \in Nat
    <3>1. TypeInv'
      BY TypeStep
    <3>2. (\A x \in Delivered : x.pts \in Nat)'
      BY <3>1, DeliveredTimes, PTL
    <3> QED BY <2>1, <3>2
  <2> QED BY <2>2, <1>3, NoneApart DEF NameInv
<1>7. CASE SplitterSteps \/ QueueSteps \/ UNCHANGED flow
  <2>1. UNCHANGED <<written, uri, outputInitialized>> /\ Names' = Names
    BY <1>7, FileUntouched DEF fileVars, Names
  <2> QED BY <2>1, <1>1, <1>2, <1>3, <1>6 DEF NameInv
<1>8. CASE Rotate \/ Close
  <2>1. written' = written /\ uri' = None /\ Names' = Names
    BY <1>8 DEF Rotate, Close, CloseOut, Reset, history, Names
  <2> QED BY <2>1, <1>1, <1>2, <1>3, <1>5, <1>6 DEF NameInv
<1>9. CASE OpenSteps
  <2>1. /\ written' = written /\ Names' = Names /\ uri' \notin Names /\ ~outputInitialized
        /\ uri' \in {uri, None, packet.pts} /\ packet \in Flying
    BY <1>9, OpeningNames DEF Names
  <2>2. Unnamed' \subseteq Coming
    <3>1. UNCHANGED <<inEncoder, sourceFrames>> /\ ppc' \in {"deposit", "encoder", "open", "saved"}
      BY <1>9 DEF OpenSteps, OpenWaitsForSize, OpenWaitsForSps, OpenOut, OpenFails, LeaveUnopened, splitter, encoder
    <3> QED BY <3>1 DEF Unnamed, Coming
  <2>3. \A y \in Unnamed' : y.pts # packet.pts
    BY <2>1, <2>2 DEF FlowInv, OrderInv
  <2>4. \A y \in Unnamed' : y.pts \notin Names /\ y.pts # uri
    BY <2>2 DEF NameInv, Unnamed
  <2>5. uri' \in Times' \cup {None}
    BY <2>1, <1>1, <1>4 DEF NameInv
  <2>6. \A y \in Unnamed' : y.pts # uri'
    BY <2>1, <2>3, <2>4, <1>6
  <2> QED BY <2>1, <2>4, <2>5, <2>6, <1>1 DEF NameInv
<1>10. CASE WriteSaved \/ WritePacket
  <2>1. UNCHANGED <<uri, outputInitialized>> /\ outputInitialized /\ uri \in Times
    BY <1>10, WritingFacts, NoneApart DEF TypeInv, OpenInv, NameInv
  <2>2. Names' \subseteq Names \cup {uri}
    <3>1. PICK p \in Ahead : WriteFrame(p)
      BY <1>10, WritingMoves
    <3>2. p \in Frame
      BY <3>1, DeliveredFacts DEF FlowInv, DeliveredInv
    <3>3. CASE Skips(p) \/ Loses(p)
      BY <3>3 DEF Skips, Loses, Names
    <3>4. CASE Records(p)
      <4>1. Recorded(p).file = uri
        BY DEF Recorded
      <4> QED BY <2>1, <3>2, <3>4, <4>1, WrittenGrows DEF Names
    <3> QED BY <3>1, <3>3, <3>4, WriteFrameCases
  <2>3. \A y \in Unnamed' : y.pts \notin Names /\ y.pts # uri
    BY <1>2, <1>3, <1>6 DEF NameInv
  <2> QED BY <2>1, <2>2, <2>3, <1>1 DEF NameInv
<1> QED BY <1>7, <1>8, <1>9, <1>10, StepCases

LEMMA NameInit == ReaderInit => NameInv
<1> SUFFICES ASSUME ReaderInit PROVE NameInv
  OBVIOUS
<1>1. written = << >> /\ uri = None /\ ppc = "source" /\ inEncoder = << >> /\ sourceFrames = << >>
  BY DEF ReaderInit, Init, SplitterInit, EncoderInit, RecorderInit
<1>2. Names = {} /\ Unnamed = {}
  BY <1>1, EmptyIn DEF Names, Unnamed, Coming
<1> QED BY <1>1, <1>2 DEF NameInv

-----------------------------------------------------------------------------
(***************************************************************************)
(* What is written: the video in order, and for the file that is open how  *)
(* many video packets it has, and the last of their times.                 *)
(***************************************************************************)
VideoIn(w, f) == {i \in DOMAIN w : w[i].file = f /\ w[i].frame.video}
LaterIn(w, f) == {i \in VideoIn(w, f) : \E j \in VideoIn(w, f) : j < i}

WrittenInOrder ==
  /\ \A i, j \in DOMAIN written :
       i < j /\ written[i].frame.video /\ written[j].frame.video => written[i].frame.pts < written[j].frame.pts
  /\ \A i \in DOMAIN written, y \in Ahead : written[i].frame.video /\ y.video => written[i].frame.pts < y.pts
PacketsCounted ==
  outputInitialized =>
    /\ videoPackets = 0 => VideoIn(written, uri) = {}
    /\ videoPackets = 1 => VideoIn(written, uri) # {} /\ LaterIn(written, uri) = {}
    /\ videoPackets > 1 => LaterIn(written, uri) # {}
LastIsLast ==
  videoPackets > 0 =>
    /\ lastVideoPts \in Times
    /\ \A y \in Ahead : y.video => lastVideoPts < y.pts
    /\ \A i \in VideoIn(written, uri) : written[i].frame.pts <= lastVideoPts
WrittenInv == WrittenInOrder /\ PacketsCounted /\ LastIsLast

\* v is w with the entry e.
GrowsBy(w, v, e, f) ==
  /\ e.file # f \/ ~e.frame.video => VideoIn(v, f) = VideoIn(w, f) /\ LaterIn(v, f) = LaterIn(w, f)
  /\ e.file = f /\ e.frame.video =>
       /\ VideoIn(v, f) = VideoIn(w, f) \cup {Len(w) + 1}
       /\ LaterIn(v, f) = LaterIn(w, f) \cup (IF VideoIn(w, f) = {} THEN {} ELSE {Len(w) + 1})

LEMMA VideoGrows ==
  ASSUME NEW w \in Seq(Entry), NEW e \in Entry, NEW f
  PROVE  GrowsBy(w, Append(w, e), e, f)
<1> DEFINE v == Append(w, e)
<1>1. /\ Len(w) \in Nat /\ DOMAIN w = 1..Len(w)
      /\ DOMAIN v = 1..(Len(w) + 1) /\ v[Len(w) + 1] = e
      /\ \A i \in 1..Len(w) : v[i] = w[i]
  BY AppendFacts
<1> HIDE DEF v
<1>2. VideoIn(w, f) \subseteq 1..Len(w) /\ Len(w) + 1 \notin VideoIn(w, f)
  BY <1>1 DEF VideoIn
<1>3. \A i \in 1..Len(w) : i \in VideoIn(v, f) <=> i \in VideoIn(w, f)
  BY <1>1 DEF VideoIn
<1>4. Len(w) + 1 \in VideoIn(v, f) <=> e.file = f /\ e.frame.video
  BY <1>1 DEF VideoIn
<1>5. VideoIn(v, f) \subseteq (1..Len(w)) \cup {Len(w) + 1}
  BY <1>1 DEF VideoIn
<1>6. ASSUME e.file # f \/ ~e.frame.video PROVE GrowsBy(w, v, e, f)
  <2>1. VideoIn(v, f) = VideoIn(w, f)
    BY <1>2, <1>3, <1>4, <1>5, <1>6
  <2>2. LaterIn(v, f) = LaterIn(w, f)
    BY <2>1 DEF LaterIn
  <2> QED BY <1>6, <2>1, <2>2 DEF GrowsBy
<1>7. ASSUME e.file = f, e.frame.video PROVE GrowsBy(w, v, e, f)
  <2>1. VideoIn(v, f) = VideoIn(w, f) \cup {Len(w) + 1}
    BY <1>2, <1>3, <1>4, <1>5, <1>7
  <2>2. \A i \in VideoIn(w, f) : i < Len(w) + 1 /\ ~(Len(w) + 1 < i)
    BY <1>1, <1>2
  <2>3. \A i \in VideoIn(w, f) : i \in LaterIn(v, f) <=> i \in LaterIn(w, f)
    BY <2>1, <2>2 DEF LaterIn
  <2>4. Len(w) + 1 \in LaterIn(v, f) <=> VideoIn(w, f) # {}
    <3>1. ~(Len(w) + 1 < Len(w) + 1)
      BY <1>1
    <3> QED BY <2>1, <2>2, <3>1 DEF LaterIn
  <2>5. LaterIn(w, f) \subseteq VideoIn(w, f) /\ LaterIn(v, f) \subseteq VideoIn(v, f)
    BY DEF LaterIn
  <2>6. LaterIn(v, f) = LaterIn(w, f) \cup (IF VideoIn(w, f) = {} THEN {} ELSE {Len(w) + 1})
    BY <2>1, <2>3, <2>4, <2>5
  <2> QED BY <1>7, <2>1, <2>6 DEF GrowsBy
<1>8. GrowsBy(w, v, e, f)
  BY <1>6, <1>7
<1> QED BY <1>8 DEF v

LEMMA WrittenInit == ReaderInit => WrittenInv
<1> SUFFICES ASSUME ReaderInit PROVE WrittenInv
  OBVIOUS
<1>1. written = << >> /\ outputInitialized = FALSE /\ videoPackets = 0
  BY DEF ReaderInit, Init, RecorderInit
<1> QED BY <1>1 DEF WrittenInv, WrittenInOrder, PacketsCounted, LastIsLast

\* A name that no packet is filed under.
LEMMA NoVideoUnnamed ==
  ASSUME NEW f, f \notin Names PROVE VideoIn(written, f) = {} /\ LaterIn(written, f) = {}
BY DEF VideoIn, LaterIn, Names

LEMMA WrittenTypes ==
  ASSUME TypeInv, FlowInv
  PROVE  \A i \in DOMAIN written : /\ written[i] \in Entry /\ written[i].frame \in Delivered
                                  /\ written[i].frame.pts \in Times /\ written[i].frame.pts \in Nat
<1>1. \A i \in DOMAIN written : written[i] \in Entry
  BY LenProperties DEF TypeInv, RecorderTypes
<1> QED BY <1>1, DeliveredFacts DEF FlowInv, DeliveredInv, Times

\* Frames that have just been read come after all that is written.
LEMMA AheadOfWritten ==
  ASSUME TypeInv, FlowInv, Onward, NEW t \in Times,
         \A y \in Ahead : y.video => t < y.pts
  PROVE  \A y \in Ahead' : y.video => t < y.pts
BY FreshTimes DEF Onward

LEMMA WrittenStep ==
  ASSUME TypeInv, FlowInv, NameInv, WrittenInv, [ReaderNext]_readerVars, Onward
  PROVE  WrittenInv'
<1> USE DEF WrittenInv
<1>0. Times \subseteq Times'
  BY DEF Onward, Times
<1>1. \A i \in DOMAIN written, y \in Ahead' : written[i].frame.video /\ y.video => written[i].frame.pts < y.pts
  <2> SUFFICES ASSUME NEW i \in DOMAIN written, written[i].frame.video
               PROVE  \A y \in Ahead' : y.video => written[i].frame.pts < y.pts
    OBVIOUS
  <2>1. written[i].frame.pts \in Times /\ \A y \in Ahead : y.video => written[i].frame.pts < y.pts
    BY WrittenTypes DEF WrittenInOrder
  <2> QED BY <2>1, AheadOfWritten
<1>2. written' = written => WrittenInOrder'
  BY <1>1 DEF WrittenInOrder
<1>3. videoPackets > 0 => lastVideoPts \in Times' /\ \A y \in Ahead' : y.video => lastVideoPts < y.pts
  BY <1>0, AheadOfWritten DEF LastIsLast
<1>4. CASE SplitterSteps \/ QueueSteps \/ UNCHANGED flow
  <2>1. UNCHANGED fileVars
    BY <1>4, FileUntouched
  <2> QED BY <2>1, <1>2, <1>3 DEF fileVars, PacketsCounted, LastIsLast
<1>5. CASE Rotate \/ Close
  <2>1. written' = written /\ outputInitialized' = FALSE /\ videoPackets' = 0
    BY <1>5 DEF Rotate, Close, CloseOut, Reset, history
  <2> QED BY <2>1, <1>2 DEF PacketsCounted, LastIsLast
<1>6. CASE OpenSteps
  <2>1. written' = written /\ videoPackets' = 0 /\ uri' \notin Names
    BY <1>6, OpeningNames
  <2>2. VideoIn(written', uri') = {}
    BY <2>1, NoVideoUnnamed
  <2> QED BY <2>1, <2>2, <1>2 DEF PacketsCounted, LastIsLast
<1>7. CASE WriteSaved \/ WritePacket
  <2>1. UNCHANGED <<uri, outputInitialized>> /\ outputInitialized
    BY <1>7, WritingFacts
  <2>2. PICK p \in Ahead : WriteFrame(p) /\ Lower({p}, Ahead')
    BY <1>7, WritingMoves
  <2>3. p \in Delivered /\ p \in Frame /\ p.pts \in Times' /\ p.pts \in Nat
    BY <2>2, <1>0, DeliveredFacts DEF FlowInv, DeliveredInv, Times
  <2>4. videoPackets \in Nat
    BY DEF TypeInv, RecorderTypes
  <2>5. \A i \in VideoIn(written, uri) :
           /\ written[i].frame.pts \in Nat
           /\ p.video => written[i].frame.pts < p.pts
    BY <2>2, WrittenTypes DEF VideoIn, WrittenInOrder
  <2>6. CASE Skips(p)
    BY <2>1, <2>6, <1>2, <1>3 DEF Skips, PacketsCounted, LastIsLast
  <2>7. CASE Loses(p)
    <3>1. written' = written /\ videoPackets' = videoPackets
      BY <2>7 DEF Loses
    <3>2. CASE p.video
      <4>1. lastVideoPts' = p.pts
        BY <2>7, <3>2 DEF Loses
      <4>2. \A y \in Ahead' : y.video => p.pts < y.pts
        BY <2>2, <3>2 DEF Lower
      <4> QED BY <2>1, <2>3, <2>5, <3>1, <3>2, <4>1, <4>2, <1>2 DEF PacketsCounted, LastIsLast
    <3>3. CASE ~p.video
      <4>1. lastVideoPts' = lastVideoPts
        BY <2>7, <3>3 DEF Loses
      <4> QED BY <2>1, <3>1, <4>1, <1>2, <1>3 DEF PacketsCounted, LastIsLast
    <3> QED BY <3>2, <3>3
  <2>8. CASE Records(p)
    <3> DEFINE e == Recorded(p)
               n == Len(written)
    <3>1. /\ e \in Entry /\ n \in Nat /\ DOMAIN written = 1..n
          /\ DOMAIN written' = 1..(n + 1) /\ written'[n + 1] = e
          /\ \A i \in 1..n : written'[i] = written[i]
      BY <2>1, <2>3, <2>8, WrittenGrows
    <3>2. e.file = uri /\ e.frame = p
      BY DEF Recorded
    <3>3. written' = Append(written, e) /\ written \in Seq(Entry)
      BY <2>8 DEF Records, TypeInv, RecorderTypes
    <3> HIDE DEF e, n
    <3>7. GrowsBy(written, written', e, uri)
      BY <3>1, <3>3, VideoGrows
    <3>4. WrittenInOrder'
      <4>1. \A i \in 1..n : written[i].frame.video /\ p.video => written[i].frame.pts < p.pts
        BY <2>2, <3>1 DEF WrittenInOrder
      <4>2. \A i, j \in DOMAIN written' :
              i < j /\ written'[i].frame.video /\ written'[j].frame.video
                => written'[i].frame.pts < written'[j].frame.pts
        BY <3>1, <3>2, <4>1 DEF WrittenInOrder
      <4>3. \A i \in DOMAIN written', y \in Ahead' :
              written'[i].frame.video /\ y.video => written'[i].frame.pts < y.pts
        BY <1>1, <2>2, <3>1, <3>2 DEF Lower
      <4> QED BY <4>2, <4>3 DEF WrittenInOrder
    <3>5. CASE p.video
      <4>1. /\ VideoIn(written', uri) = VideoIn(written, uri) \cup {n + 1}
            /\ LaterIn(written', uri) = LaterIn(written, uri)
                                          \cup (IF VideoIn(written, uri) = {} THEN {} ELSE {n + 1})
        BY <3>2, <3>5, <3>7 DEF GrowsBy, n
      <4>2. videoPackets' = videoPackets + 1 /\ lastVideoPts' = p.pts
        BY <2>8, <3>5 DEF Records
      <4>3. PacketsCounted'
        <5>1. LaterIn(written, uri) \subseteq VideoIn(written, uri)
          BY DEF LaterIn
        <5>2. videoPackets' = 1 => VideoIn(written', uri) # {} /\ LaterIn(written', uri) = {}
          BY <2>1, <2>4, <4>1, <4>2, <5>1 DEF PacketsCounted
        <5>3. videoPackets' > 1 => LaterIn(written', uri) # {}
          BY <2>1, <2>4, <4>1, <4>2 DEF PacketsCounted
        <5>4. videoPackets' # 0
          BY <2>4, <4>2
        <5> QED BY <2>1, <5>2, <5>3, <5>4 DEF PacketsCounted
      <4>4. \A y \in Ahead' : y.video => p.pts < y.pts
        BY <2>2, <3>5 DEF Lower
      <4>5. \A i \in VideoIn(written', uri) : written'[i].frame.pts <= p.pts
        <5>1. \A i \in VideoIn(written, uri) : i \in 1..n
          BY <3>1 DEF VideoIn
        <5> QED BY <2>3, <2>5, <3>1, <3>2, <3>5, <4>1, <5>1
      <4> QED BY <2>1, <2>3, <3>4, <4>2, <4>3, <4>4, <4>5 DEF LastIsLast
    <3>6. CASE ~p.video
      <4>1. VideoIn(written', uri) = VideoIn(written, uri) /\ LaterIn(written', uri) = LaterIn(written, uri)
        BY <3>2, <3>6, <3>7 DEF GrowsBy
      <4>2. videoPackets' = videoPackets /\ lastVideoPts' = lastVideoPts
        BY <2>4, <2>8, <3>6 DEF Records
      <4>3. \A i \in VideoIn(written, uri) : written'[i] = written[i]
        BY <3>1 DEF VideoIn
      <4> QED BY <2>1, <3>4, <4>1, <4>2, <4>3, <1>3 DEF PacketsCounted, LastIsLast
    <3> QED BY <3>5, <3>6
  <2> QED BY <2>2, <2>6, <2>7, <2>8, WriteFrameCases
<1> QED BY <1>4, <1>5, <1>6, <1>7, StepCases

-----------------------------------------------------------------------------
(***************************************************************************)
(* The intervals of the synchroniser: what each of them says of its file,  *)
(* and that the others' frames are outside.                                *)
(***************************************************************************)
Starts(c) ==
  \E i \in LaterIn(written, c.name) :
    c.start = written[i].frame.pts /\ \A j \in LaterIn(written, c.name) : i <= j
OpenWhile(c) == c.end = None <=> outputInitialized /\ uri = c.name
HoldsItsFile(c) ==
  /\ Known(c.end) => \A i \in VideoIn(written, c.name) : written[i].frame.pts <= c.end
  /\ \A i \in DOMAIN written :
       written[i].frame.video /\ written[i].file # c.name
         => written[i].frame.pts < c.start \/ (Known(c.end) /\ written[i].frame.pts > c.end)
EndsBehind(c) == Known(c.end) => c.end \in Times /\ \A y \in Ahead : y.video => c.end < y.pts
Good(c) == Starts(c) /\ OpenWhile(c) /\ HoldsItsFile(c) /\ EndsBehind(c)
Contexts == In(fileContexts)
InTurn ==
  \A i, j \in DOMAIN fileContexts : i < j => Known(fileContexts[i].end) /\ fileContexts[i].end < fileContexts[j].start
NewestIsOpen == outputInitialized /\ videoPackets > 1 => fileContexts # << >> /\ Last(fileContexts).name = uri
ContextInv == (\A c \in Contexts : Good(c)) /\ InTurn /\ NewestIsOpen

LEMMA ContextTypes ==
  ASSUME TypeInv
  PROVE  /\ Len(fileContexts) \in Nat /\ DOMAIN fileContexts = 1..Len(fileContexts)
         /\ \A i \in DOMAIN fileContexts : fileContexts[i] \in Context /\ fileContexts[i] \in Contexts
         /\ \A c \in Contexts : /\ c \in Context /\ c.start \in Nat /\ c.end \in Nat \cup {None} /\ c.name \in Nat
                                /\ \E i \in DOMAIN fileContexts : c = fileContexts[i]
<1>1. fileContexts \in Seq(Context)
  BY DEF TypeInv, SynchroniserTypes
<1>2. /\ Len(fileContexts) \in Nat /\ DOMAIN fileContexts = 1..Len(fileContexts)
      /\ \A i \in DOMAIN fileContexts : fileContexts[i] \in Context
  BY <1>1, LenProperties
<1> QED BY <1>2 DEF Contexts, In, Context

LEMMA ContextsMatch == TypeInv /\ ContextInv => IntervalsMatchFiles
<1> SUFFICES ASSUME TypeInv, ContextInv PROVE IntervalsMatchFiles
  OBVIOUS
<1>1. \A f : VideoOf(f) = VideoIn(written, f) /\ NotFirst(f) = LaterIn(written, f)
  BY DEF VideoOf, NotFirst, VideoIn, LaterIn
<1>2. \A c \in Contexts :
       /\ \E i \in NotFirst(c.name) :
            c.start = written[i].frame.pts /\ \A j \in NotFirst(c.name) : i <= j
       /\ c.end = None <=> outputInitialized /\ uri = c.name
       /\ Known(c.end) => \A i \in VideoOf(c.name) : written[i].frame.pts <= c.end
  BY <1>1 DEF ContextInv, Good, Starts, OpenWhile, HoldsItsFile
<1> QED BY <1>2 DEF IntervalsMatchFiles, ContextInv, InTurn, NewestIsOpen, Contexts, In

LEMMA ContextInit == ReaderInit => ContextInv
<1> SUFFICES ASSUME ReaderInit PROVE ContextInv
  OBVIOUS
<1>1. fileContexts = << >> /\ outputInitialized = FALSE
  BY DEF ReaderInit, Init, RecorderInit, SynchroniserInit
<1> QED BY <1>1, EmptyIn DEF ContextInv, Contexts, InTurn, NewestIsOpen

\* Only the file that is written has an open interval, and it is the last.
LEMMA OpenIsLast ==
  ASSUME TypeInv, FlowInv, WrittenInv, ContextInv
  PROVE  /\ \A c \in Contexts : c.name \in Names
         /\ \A c \in Contexts : c.end = None => outputInitialized /\ videoPackets > 1
         /\ \A i \in DOMAIN fileContexts : fileContexts[i].end = None => i = Len(fileContexts)
<1>1. \A c \in Contexts : LaterIn(written, c.name) # {} /\ OpenWhile(c)
  BY DEF ContextInv, Good, Starts
<1>2. \A c \in Contexts : c.name \in Names
  BY <1>1 DEF LaterIn, VideoIn, Names
<1>3. \A c \in Contexts : c.end = None => outputInitialized /\ videoPackets > 1
  <2> SUFFICES ASSUME NEW c \in Contexts, c.end = None PROVE outputInitialized /\ videoPackets > 1
    OBVIOUS
  <2>1. outputInitialized /\ LaterIn(written, uri) # {}
    BY <1>1 DEF OpenWhile
  <2>2. VideoIn(written, uri) # {}
    BY <2>1 DEF LaterIn
  <2>3. videoPackets \in Nat /\ videoPackets # 0 /\ videoPackets # 1
    BY <2>1, <2>2 DEF WrittenInv, PacketsCounted, TypeInv, RecorderTypes
  <2> QED BY <2>1, <2>3
<1>4. \A i \in DOMAIN fileContexts : fileContexts[i].end = None => i = Len(fileContexts)
  <2> SUFFICES ASSUME NEW i \in DOMAIN fileContexts, fileContexts[i].end = None, i # Len(fileContexts)
               PROVE  FALSE
    OBVIOUS
  <2>1. Len(fileContexts) \in DOMAIN fileContexts /\ i < Len(fileContexts)
    BY ContextTypes
  <2> QED BY <2>1 DEF ContextInv, InTurn, Known
<1> QED BY <1>2, <1>3, <1>4

\* While the file that is written stays the same, with fewer intervals or as many.
LEMMA ContextsKept ==
  ASSUME TypeInv, FlowInv, ContextInv, Onward, UNCHANGED <<written, uri, outputInitialized>>
  PROVE  \A c \in Contexts : Good(c)'
<1> SUFFICES ASSUME NEW c \in Contexts PROVE Good(c)'
  OBVIOUS
<1>1. Good(c)
  BY DEF ContextInv
<1>2. Starts(c)' /\ OpenWhile(c)' /\ HoldsItsFile(c)'
  BY <1>1 DEF Good, Starts, OpenWhile, HoldsItsFile
<1>3. EndsBehind(c)'
  <2> SUFFICES ASSUME Known(c.end) PROVE c.end \in Times' /\ \A y \in Ahead' : y.video => c.end < y.pts
    BY DEF EndsBehind
  <2>1. c.end \in Times /\ Times \subseteq Times'
    BY <1>1 DEF Good, EndsBehind, Onward, Times
  <2> QED BY <1>1, <2>1, AheadOfWritten DEF Good, EndsBehind
<1> QED BY <1>2, <1>3 DEF Good

LEMMA ContextsUntouched ==
  ASSUME TypeInv, FlowInv, ContextInv, Onward,
         UNCHANGED <<written, uri, outputInitialized, videoPackets, fileContexts>>
  PROVE  ContextInv'
<1>1. Contexts' = Contexts
  BY DEF Contexts
<1>2. \A c \in Contexts : Good(c)'
  BY ContextsKept
<1> QED BY <1>1, <1>2 DEF ContextInv, InTurn, NewestIsOpen

LEMMA NextFileContexts ==
  ASSUME TypeInv, FlowInv, ContextInv, Onward, NextFile
  PROVE  ContextInv'
<1>1. UNCHANGED fileVars
  BY FileUntouched DEF QueueSteps
<1>2. /\ fileContexts # << >> /\ fileContexts' = Tail(fileContexts) /\ Known(Head(fileContexts).end)
  BY DEF NextFile, HasCandidate, Beyond, Current
<1>3. fileContexts \in Seq(Context)
  BY DEF TypeInv, SynchroniserTypes
<1> DEFINE n == Len(fileContexts)
<1>4. /\ n \in Nat /\ n > 0 /\ DOMAIN fileContexts = 1..n /\ Head(fileContexts) = fileContexts[1]
      /\ Tail(fileContexts) \in Seq(Context) /\ Len(Tail(fileContexts)) = n - 1
      /\ DOMAIN Tail(fileContexts) = 1..(n - 1)
      /\ \A i \in 1..(n - 1) : Tail(fileContexts)[i] = fileContexts[i + 1]
  BY <1>2, <1>3, HeadTailProperties, LenProperties, EmptySeq
<1>5. \A i \in 1..(n - 1) : i + 1 \in 1..n
  BY <1>4
<1>6. Contexts' \subseteq Contexts
  BY <1>2, <1>4, <1>5 DEF Contexts, In
<1>7. \A c \in Contexts : Good(c)'
  BY <1>1, ContextsKept DEF fileVars
<1>8. InTurn'
  <2>1. \A i, j \in 1..(n - 1) : i < j => i + 1 < j + 1
    BY <1>4
  <2> QED BY <1>2, <1>4, <1>5, <2>1 DEF ContextInv, InTurn
<1>9. NewestIsOpen'
  <2> SUFFICES ASSUME outputInitialized, videoPackets > 1
               PROVE  fileContexts' # << >> /\ Last(fileContexts').name = uri
    BY <1>1 DEF NewestIsOpen, fileVars
  <2>1. fileContexts[n].name = uri /\ n \in DOMAIN fileContexts
    BY <1>4 DEF ContextInv, NewestIsOpen, Last
  <2>2. fileContexts[n].end = None
    BY <2>1, ContextTypes DEF ContextInv, Good, OpenWhile
  <2>3. n # 1
    BY <1>2, <1>4, <2>2 DEF Known
  <2>4. n - 1 \in 1..(n - 1) /\ fileContexts'[n - 1] = fileContexts[n] /\ Len(fileContexts') = n - 1
    BY <1>2, <1>4, <2>3
  <2>5. fileContexts' # << >>
    BY <1>2, <1>4, <2>3
  <2> QED BY <2>1, <2>4, <2>5 DEF Last
<1> QED BY <1>6, <1>7, <1>8, <1>9 DEF ContextInv

LEMMA OpeningContexts ==
  ASSUME TypeInv, FlowInv, NameInv, WrittenInv, ContextInv, Onward, OpenSteps
  PROVE  ContextInv'
<1>1. /\ UNCHANGED <<written, fileContexts>> /\ videoPackets' = 0 /\ ~outputInitialized /\ uri' \notin Names
  BY OpeningNames
<1>2. \A c \in Contexts : c.name \in Names /\ Known(c.end)
  BY <1>1, OpenIsLast DEF Known
<1>3. \A c \in Contexts : Good(c)'
  <2> SUFFICES ASSUME NEW c \in Contexts PROVE Good(c)'
    OBVIOUS
  <2>1. Good(c)
    BY DEF ContextInv
  <2>2. Starts(c)' /\ HoldsItsFile(c)'
    BY <1>1, <2>1 DEF Good, Starts, HoldsItsFile
  <2>3. OpenWhile(c)'
    BY <1>1, <1>2 DEF OpenWhile, Known
  <2>4. EndsBehind(c)'
    <3>1. c.end \in Times /\ Times \subseteq Times'
      BY <1>2, <2>1 DEF Good, EndsBehind, Onward, Times
    <3> QED BY <1>2, <2>1, <3>1, AheadOfWritten DEF Good, EndsBehind
  <2> QED BY <2>2, <2>3, <2>4 DEF Good
<1>4. Contexts' = Contexts
  BY <1>1 DEF Contexts
<1> QED BY <1>1, <1>3, <1>4 DEF ContextInv, InTurn, NewestIsOpen

\* Closing a file ends its interval, if there is one, at the last of its frames.
LEMMA ClosingContexts ==
  ASSUME TypeInv, FlowInv, NameInv, WrittenInv, ContextInv, Onward, Rotate \/ Close
  PROVE  ContextInv'
<1>0. \/ CloseOut
      \/ ~outputInitialized /\ Reset /\ fileContexts' = fileContexts
  BY DEF Rotate, Close
<1>1. /\ written' = written /\ uri' = None /\ outputInitialized' = FALSE /\ videoPackets' = 0
      /\ \/ fileContexts' = fileContexts /\ (outputInitialized => ~(PacketsTotal > 0) \/ Unended = {})
         \/ fileContexts' = [fileContexts EXCEPT ![Min(Unended)].end = lastVideoPts] /\ Unended # {}
  <2>1. written' = written
    BY DEF Rotate, Close, history
  <2>2. uri' = None /\ outputInitialized' = FALSE /\ videoPackets' = 0
    BY <1>0 DEF CloseOut, Reset
  <2>3. \/ fileContexts' = fileContexts /\ (outputInitialized => ~(PacketsTotal > 0) \/ Unended = {})
        \/ fileContexts' = [fileContexts EXCEPT ![Min(Unended)].end = lastVideoPts] /\ Unended # {}
    BY <1>0 DEF CloseOut, NotifyCloseFile
  <2> QED BY <2>1, <2>2, <2>3
<1> DEFINE n == Len(fileContexts)
<1>2. /\ fileContexts \in Seq(Context) /\ n \in Nat /\ DOMAIN fileContexts = 1..n
      /\ \A i \in 1..n : fileContexts[i] \in Context /\ fileContexts[i] \in Contexts
  BY ContextTypes DEF TypeInv, SynchroniserTypes
<1>3. Times \subseteq Times'
  BY DEF Onward, Times
<1>4. ASSUME NEW c \in Contexts, Known(c.end) PROVE Good(c)'
  <2>1. Good(c)
    BY DEF ContextInv
  <2>2. Starts(c)' /\ HoldsItsFile(c)'
    BY <1>1, <2>1 DEF Good, Starts, HoldsItsFile
  <2>3. OpenWhile(c)'
    BY <1>1, <1>4 DEF OpenWhile, Known
  <2>4. EndsBehind(c)'
    BY <1>3, <1>4, <2>1, AheadOfWritten DEF Good, EndsBehind
  <2> QED BY <2>2, <2>3, <2>4 DEF Good
<1>5. CASE \A i \in 1..n : Known(fileContexts[i].end)
  <2>1. Unended = {}
    BY <1>2, <1>5 DEF Unended, Known
  <2>2. fileContexts' = fileContexts /\ Contexts' = Contexts
    BY <1>1, <2>1 DEF Contexts
  <2>3. \A c \in Contexts : Known(c.end)
    BY <1>2, <1>5, ContextTypes
  <2> QED BY <1>1, <1>4, <2>2, <2>3 DEF ContextInv, InTurn, NewestIsOpen
<1>6. CASE \E i \in 1..n : ~Known(fileContexts[i].end)
  <2> DEFINE c == fileContexts[n]
  <2>0. PICK d : d = [c EXCEPT !.end = lastVideoPts]
    OBVIOUS
  <2>1. n \in 1..n /\ c.end = None /\ outputInitialized /\ videoPackets > 1 /\ c \in Contexts /\ c \in Context
    BY <1>2, <1>6, OpenIsLast DEF Known
  <2>2. Unended = {n}
    BY <1>2, <2>1, OpenIsLast DEF Unended
  <2>3. Min(Unended) = n
    <3>1. \A x \in {n} : \A y \in {n} : x <= y
      BY <1>2
    <3>2. (CHOOSE x \in {n} : \A y \in {n} : x <= y) \in {n}
      BY <3>1
    <3> QED BY <2>2, <3>2 DEF Min
  <2>4. PacketsTotal > 0
    BY <2>1 DEF PacketsTotal, TypeInv, RecorderTypes
  <2>5. /\ lastVideoPts \in Nat /\ lastVideoPts \in Times /\ lastVideoPts # None
        /\ \A y \in Ahead : y.video => lastVideoPts < y.pts
        /\ \A i \in VideoIn(written, uri) : written[i].frame.pts <= lastVideoPts
    BY <2>1, NoneApart DEF WrittenInv, LastIsLast, TypeInv, RecorderTypes
  <2>6. fileContexts' = [fileContexts EXCEPT ![n].end = lastVideoPts]
    BY <1>1, <2>1, <2>2, <2>3, <2>4
  <2>7. /\ Len(fileContexts') = n /\ DOMAIN fileContexts' = 1..n
        /\ fileContexts'[n] = d /\ \A i \in 1..n : i # n => fileContexts'[i] = fileContexts[i]
    BY <1>2, <2>0, <2>1, <2>5, <2>6, EndsAnInterval, LenProperties
  <2>8. d.start = c.start /\ d.name = c.name /\ d.end = lastVideoPts
    BY <2>0, <2>1 DEF Context
  <2>9. Good(c) /\ c.name = uri
    BY <2>1 DEF ContextInv, Good, OpenWhile
  <2>10. Good(d)'
    <3>1. Starts(d)'
      BY <1>1, <2>8, <2>9 DEF Good, Starts
    <3>2. OpenWhile(d)'
      BY <1>1, <2>5, <2>8 DEF OpenWhile
    <3>3. HoldsItsFile(d)'
      BY <1>1, <2>1, <2>5, <2>8, <2>9 DEF Good, HoldsItsFile, Known
    <3>4. EndsBehind(d)'
      BY <1>3, <2>5, <2>8, AheadOfWritten DEF EndsBehind
    <3> QED BY <3>1, <3>2, <3>3, <3>4 DEF Good
  <2>11. \A i \in 1..n : i # n => Known(fileContexts[i].end)
    BY <1>2, OpenIsLast DEF Known
  <2>12. \A x \in Contexts' : Good(x)'
    <3> SUFFICES ASSUME NEW x \in Contexts' PROVE Good(x)'
      OBVIOUS
    <3>1. PICK i \in 1..n : x = fileContexts'[i]
      BY <2>7 DEF Contexts, In
    <3>2. CASE i = n
      BY <2>7, <2>10, <3>1, <3>2
    <3>3. CASE i # n
      BY <1>2, <1>4, <2>7, <2>11, <3>1, <3>3
    <3> QED BY <3>2, <3>3
  <2>13. InTurn'
    <3> SUFFICES ASSUME NEW i \in 1..n, NEW j \in 1..n, i < j
                 PROVE  Known(fileContexts'[i].end) /\ fileContexts'[i].end < fileContexts'[j].start
      BY <2>7 DEF InTurn
    <3>1. Known(fileContexts[i].end) /\ fileContexts[i].end < fileContexts[j].start
      BY <1>2 DEF ContextInv, InTurn
    <3>2. i # n
      <4>1. \A k \in Nat : \A a, b \in 1..k : a < b => a # k
        OBVIOUS
      <4> QED BY <1>2, <4>1
    <3>4. fileContexts'[i] = fileContexts[i]
      BY <2>7, <3>2
    <3>3. fileContexts'[j].start = fileContexts[j].start
      BY <2>7, <2>8
    <3> QED BY <3>1, <3>3, <3>4
  <2> QED BY <1>1, <2>12, <2>13 DEF ContextInv, NewestIsOpen
<1> QED BY <1>5, <1>6

\* A packet that is written stays inside the interval of its file and outside all others; the
\* second video packet of a file begins its interval.
LEMMA RecordingContexts ==
  ASSUME TypeInv, FlowInv, WrittenInv, ContextInv, Onward, outputInitialized,
         UNCHANGED <<uri, outputInitialized>>, NEW p \in Ahead, Records(p)
  PROVE  \A c \in Contexts : Good(c)'
<1> DEFINE e == Recorded(p)
           n == Len(written)
<1>0. p \in Frame
  BY DeliveredFacts DEF FlowInv, DeliveredInv
<1>1. /\ e \in Entry /\ n \in Nat /\ DOMAIN written = 1..n
      /\ DOMAIN written' = 1..(n + 1) /\ written'[n + 1] = e
      /\ \A i \in 1..n : written'[i] = written[i]
  BY <1>0, WrittenGrows
<1>2. e.file = uri /\ e.frame = p
  BY DEF Recorded
<1>3. written' = Append(written, e) /\ written \in Seq(Entry)
  BY DEF Records, TypeInv, RecorderTypes
<1> HIDE DEF e
<1> SUFFICES ASSUME NEW c \in Contexts PROVE Good(c)'
  OBVIOUS
<1>4. Starts(c) /\ OpenWhile(c) /\ HoldsItsFile(c) /\ EndsBehind(c)
  BY DEF ContextInv, Good
<1>5. GrowsBy(written, written', e, c.name)
  BY <1>1, <1>3, VideoGrows
<1> HIDE DEF n
<1>6. /\ LaterIn(written, c.name) \subseteq VideoIn(written, c.name)
      /\ VideoIn(written, c.name) \subseteq 1..n
  BY <1>1 DEF LaterIn, VideoIn
<1>7. Starts(c)'
  <2>1. PICK i \in LaterIn(written, c.name) :
          c.start = written[i].frame.pts /\ \A j \in LaterIn(written, c.name) : i <= j
    BY <1>4 DEF Starts
  <2>2. /\ LaterIn(written, c.name) \subseteq LaterIn(written', c.name)
        /\ LaterIn(written', c.name) \subseteq LaterIn(written, c.name) \cup {n + 1}
    BY <1>5 DEF GrowsBy, n
  <2>3. i \in 1..n /\ i <= n + 1 /\ written'[i] = written[i]
    BY <1>1, <1>6, <2>1
  <2>4. \A j \in LaterIn(written', c.name) : i <= j
    BY <2>1, <2>2, <2>3
  <2>5. i \in LaterIn(written', c.name) /\ c.start = written'[i].frame.pts
    BY <2>1, <2>2, <2>3
  <2> QED BY <2>4, <2>5 DEF Starts
<1>8. OpenWhile(c)'
  BY <1>4 DEF OpenWhile
<1>9. c.name # uri => Known(c.end)
  BY <1>4 DEF OpenWhile, Known
<1>10. HoldsItsFile(c)'
  <2>1. ASSUME Known(c.end), NEW i \in VideoIn(written', c.name) PROVE written'[i].frame.pts <= c.end
    <3>1. c.name # uri
      BY <1>4, <2>1 DEF OpenWhile, Known
    <3>2. i \in VideoIn(written, c.name)
      BY <1>2, <1>5, <2>1, <3>1 DEF GrowsBy
    <3> QED BY <1>1, <1>4, <1>6, <2>1, <3>2 DEF HoldsItsFile
  <2>2. ASSUME NEW i \in DOMAIN written', written'[i].frame.video, written'[i].file # c.name
        PROVE  written'[i].frame.pts < c.start \/ (Known(c.end) /\ written'[i].frame.pts > c.end)
    <3>1. CASE i \in 1..n
      BY <1>1, <1>4, <2>2, <3>1 DEF HoldsItsFile
    <3>2. CASE i = n + 1
      <4>1. Known(c.end) /\ p.video /\ written'[i].frame = p
        BY <1>1, <1>2, <1>9, <2>2, <3>2
      <4>2. c.end < p.pts /\ p.pts \in Nat /\ c.end \in Nat
        BY <1>0, <1>4, <4>1, FrameParts, ContextTypes DEF EndsBehind, Known
      <4> QED BY <4>1, <4>2
    <3> QED BY <1>1, <3>1, <3>2
  <2> QED BY <2>1, <2>2 DEF HoldsItsFile
<1>11. EndsBehind(c)'
  <2>1. Times \subseteq Times'
    BY DEF Onward, Times
  <2> QED BY <1>4, <2>1, AheadOfWritten DEF EndsBehind
<1> QED BY <1>7, <1>8, <1>10, <1>11 DEF Good

LEMMA BeginningContext ==
  ASSUME TypeInv, FlowInv, WrittenInv, ContextInv, outputInitialized,
         UNCHANGED <<uri, outputInitialized>>, NEW p \in Ahead, Records(p), p.video, videoPackets = 1,
         NEW d, d = [start |-> p.pts, end |-> None, name |-> uri]
  PROVE  Good(d)'
<1> DEFINE e == Recorded(p)
           n == Len(written)
<1>0. p \in Frame /\ p.pts \in Nat
  BY DeliveredFacts DEF FlowInv, DeliveredInv
<1>1. /\ e \in Entry /\ n \in Nat /\ DOMAIN written = 1..n
      /\ DOMAIN written' = 1..(n + 1) /\ written'[n + 1] = e
      /\ \A i \in 1..n : written'[i] = written[i]
  BY <1>0, WrittenGrows
<1>2. e.file = uri /\ e.frame = p
  BY DEF Recorded
<1>3. written' = Append(written, e) /\ written \in Seq(Entry)
  BY DEF Records, TypeInv, RecorderTypes
<1> HIDE DEF e
<1>4. GrowsBy(written, written', e, uri)
  BY <1>1, <1>3, VideoGrows
<1>5. VideoIn(written, uri) # {} /\ LaterIn(written, uri) = {}
  BY DEF WrittenInv, PacketsCounted
<1>6. LaterIn(written', uri) = {n + 1}
  BY <1>2, <1>4, <1>5 DEF GrowsBy
<1> HIDE DEF n
<1>7. d.start = p.pts /\ d.end = None /\ d.name = uri
  OBVIOUS
<1>8. Starts(d)'
  BY <1>1, <1>2, <1>6, <1>7 DEF Starts
<1>9. OpenWhile(d)' /\ EndsBehind(d)'
  BY <1>7 DEF OpenWhile, EndsBehind, Known
<1>10. HoldsItsFile(d)'
  <2>1. ASSUME NEW i \in DOMAIN written', written'[i].frame.video, written'[i].file # uri
        PROVE  written'[i].frame.pts < p.pts
    <3>1. i \in 1..n
      BY <1>1, <1>2, <2>1
    <3> QED BY <1>1, <2>1, <3>1 DEF WrittenInv, WrittenInOrder
  <2> QED BY <1>7, <2>1 DEF HoldsItsFile, Known
<1> QED BY <1>8, <1>9, <1>10 DEF Good

LEMMA WritingContexts ==
  ASSUME TypeInv, FlowInv, NameInv, WrittenInv, ContextInv, Onward, WriteSaved \/ WritePacket
  PROVE  ContextInv'
<1>1. UNCHANGED <<uri, outputInitialized>> /\ outputInitialized /\ uri \in Nat
  BY WritingFacts DEF TypeInv, OpenInv
<1>2. PICK p \in Ahead : WriteFrame(p) /\ Lower({p}, Ahead')
  BY WritingMoves
<1>3. p \in Frame /\ p.pts \in Nat /\ p.video \in BOOLEAN
  BY DeliveredFacts DEF FlowInv, DeliveredInv
<1>4. CASE Skips(p) \/ Loses(p)
  BY <1>1, <1>4, ContextsUntouched DEF Skips, Loses
<1>5. CASE Records(p) /\ ~(p.video /\ videoPackets = 1)
  <2>1. fileContexts' = fileContexts /\ Contexts' = Contexts
    BY <1>5 DEF Records, Contexts
  <2>2. videoPackets' > 1 => videoPackets > 1
    BY <1>5 DEF Records, TypeInv, RecorderTypes
  <2>3. \A c \in Contexts : Good(c)'
    BY <1>1, <1>5, RecordingContexts
  <2> QED BY <1>1, <2>1, <2>2, <2>3 DEF ContextInv, InTurn, NewestIsOpen
<1>6. CASE Records(p) /\ p.video /\ videoPackets = 1
  <2> DEFINE n == Len(fileContexts)
  <2>0. PICK d : d = [start |-> p.pts, end |-> None, name |-> uri]
    OBVIOUS
  <2>1. d \in Context /\ d.start = p.pts /\ d.end = None /\ d.name = uri
    BY <1>1, <1>3, <2>0 DEF Context
  <2>2. \A c \in Contexts : c.name # uri
    <3>1. LaterIn(written, uri) = {}
      BY <1>1, <1>6 DEF WrittenInv, PacketsCounted
    <3> QED BY <3>1 DEF ContextInv, Good, Starts
  <2>3. \A c \in Contexts : Known(c.end) /\ c.end < p.pts
    BY <1>6, <2>2 DEF ContextInv, Good, OpenWhile, EndsBehind, Known
  <2>4. fileContexts' = Append(fileContexts, d)
    <3>1. fileContexts # << >> => Last(fileContexts) \in Contexts
      BY ContextTypes, EmptySeq DEF Last, TypeInv, SynchroniserTypes
    <3> QED BY <1>6, <2>0, <2>2, <3>1 DEF Records, NotifyNewFile
  <2>5. /\ n \in Nat /\ DOMAIN fileContexts = 1..n /\ Len(fileContexts') = n + 1 /\ fileContexts' # << >>
        /\ DOMAIN fileContexts' = 1..(n + 1) /\ fileContexts'[n + 1] = d
        /\ \A i \in 1..n : fileContexts'[i] = fileContexts[i] /\ fileContexts[i] \in Contexts
    BY <2>1, <2>4, AppendFacts, ContextTypes DEF TypeInv, SynchroniserTypes
  <2> HIDE DEF n
  <2>6. Good(d)'
    BY <1>1, <1>6, <2>0, BeginningContext
  <2>7. \A c \in Contexts : Good(c)'
    BY <1>1, <1>6, RecordingContexts
  <2>8. \A c \in Contexts' : Good(c)'
    <3> SUFFICES ASSUME NEW c \in Contexts' PROVE Good(c)'
      OBVIOUS
    <3>1. PICK i \in 1..(n + 1) : c = fileContexts'[i]
      BY <2>5 DEF Contexts, In
    <3>2. i \in 1..n \/ i = n + 1
      BY <2>5
    <3> QED BY <2>5, <2>6, <2>7, <3>1, <3>2
  <2>9. InTurn'
    <3> SUFFICES ASSUME NEW i \in 1..(n + 1), NEW j \in 1..(n + 1), i < j
                 PROVE  Known(fileContexts'[i].end) /\ fileContexts'[i].end < fileContexts'[j].start
      BY <2>5 DEF InTurn
    <3>1. i \in 1..n /\ (j \in 1..n \/ j = n + 1)
      BY <2>5
    <3>2. CASE j \in 1..n
      BY <2>5, <3>1, <3>2 DEF ContextInv, InTurn
    <3>3. CASE j = n + 1
      BY <2>1, <2>3, <2>5, <3>1, <3>3
    <3> QED BY <3>1, <3>2, <3>3
  <2>10. NewestIsOpen'
    BY <1>1, <2>1, <2>5 DEF NewestIsOpen, Last
  <2> QED BY <2>8, <2>9, <2>10 DEF ContextInv
<1> QED BY <1>2, <1>4, <1>5, <1>6, WriteFrameCases

LEMMA ContextStep ==
  ASSUME TypeInv, FlowInv, NameInv, WrittenInv, ContextInv, [ReaderNext]_readerVars, Onward
  PROVE  ContextInv'
<1>1. CASE SplitterSteps \/ UNCHANGED flow
  <2>1. fileContexts' = fileContexts
    BY <1>1 DEF SplitterSteps, SourceFrame, SourceEnds, FlushSubgraph, RunAgain, PendingPacket, PassOn, Encode,
                Deposit, flow
  <2> QED BY <1>1, <2>1, FileUntouched, ContextsUntouched DEF fileVars
<1>2. CASE QueueSteps /\ ~NextFile
  <2>1. fileContexts' = fileContexts
    BY <1>2 DEF QueueSteps, LearnDelay, DropEarly, ReturnFrame, ReadVideo, ReadAudio
  <2> QED BY <1>2, <2>1, FileUntouched, ContextsUntouched DEF fileVars
<1>3. CASE NextFile
  BY <1>3, NextFileContexts
<1>4. CASE OpenSteps
  BY <1>4, OpeningContexts
<1>5. CASE Rotate \/ Close
  BY <1>5, ClosingContexts
<1>6. CASE WriteSaved \/ WritePacket
  BY <1>6, WritingContexts
<1> QED BY <1>1, <1>2, <1>3, <1>4, <1>5, <1>6, StepCases

-----------------------------------------------------------------------------
(***************************************************************************)
(* A frame that is still to be returned and is in a file, but not the      *)
(* first there, has the interval of its file waiting.                      *)
(***************************************************************************)
CoveredInv ==
  \A f \in Names : \A i \in LaterIn(written, f) :
    written[i].frame \in Pending => \E c \in Contexts : c.name = f

LEMMA CoveredInit == ReaderInit => CoveredInv
<1> SUFFICES ASSUME ReaderInit PROVE CoveredInv
  OBVIOUS
<1>1. written = << >>
  BY DEF ReaderInit, Init
<1> QED BY <1>1 DEF CoveredInv, Names

LEMMA NotFresh ==
  ASSUME TypeInv, NEW x \in Delivered PROVE ~Fresh(x)
BY DeliveredFacts DEF Fresh

LEMMA LaterPlaces ==
  ASSUME NEW w, NEW f PROVE /\ LaterIn(w, f) \subseteq VideoIn(w, f) /\ VideoIn(w, f) \subseteq DOMAIN w
                            /\ \A i \in VideoIn(w, f) : w[i].file = f /\ w[i].frame.video
BY DEF LaterIn, VideoIn

LEMMA StillPending ==
  ASSUME TypeInv, FlowInv, Onward, NEW i \in DOMAIN written, written[i].frame \in Pending'
  PROVE  written[i].frame \in Pending
BY WrittenTypes, NotFresh DEF Onward

\* Where nothing is written and no interval is given up.
LEMMA CoveredUntouched ==
  ASSUME TypeInv, FlowInv, CoveredInv, Onward, written' = written,
         \A c \in Contexts : \E d \in Contexts' : d.name = c.name
  PROVE  CoveredInv'
<1> SUFFICES ASSUME NEW f \in Names, NEW i \in LaterIn(written, f), written[i].frame \in Pending'
             PROVE  \E c \in Contexts' : c.name = f
  BY DEF CoveredInv, Names
<1>1. i \in DOMAIN written
  BY LaterPlaces
<1>2. written[i].frame \in Pending
  BY <1>1, StillPending
<1> QED BY <1>2 DEF CoveredInv

\* The oldest of the pending frames is the candidate.
LEMMA CandidateIsFirst ==
  ASSUME TypeInv, FlowInv, frames # << >>
  PROVE  /\ Candidate \in In(frames) /\ Candidate \in Pending /\ Candidate \in Delivered /\ Candidate \in Frame
         /\ Candidate.video /\ Candidate.pts \in Nat
         /\ \A y \in Pending : y.pts \in Nat /\ Candidate.pts <= y.pts
<1>1. /\ Candidate \in In(frames) /\ In(frames) = In(Tail(frames)) \cup {Candidate}
      /\ \A x \in In(Tail(frames)) : Candidate.pts < x.pts
  BY TailIn DEF Candidate, TypeInv, SynchroniserTypes, FlowInv, PendingInv
<1>2. Candidate \in Pending /\ Candidate \in Delivered /\ Candidate.video
  BY <1>1 DEF Pending, FlowInv, DeliveredInv, PendingInv
<1>3. \A y \in Pending : y.pts \in Nat /\ y \in Frame
  BY DeliveredFacts DEF FlowInv, DeliveredInv
<1>4. ASSUME NEW y \in Pending PROVE Candidate.pts <= y.pts
  <2>1. CASE y \in In(frames)
    BY <1>1, <1>2, <1>3, <2>1
  <2>2. CASE y \in In(edge) \cup Undeposited
    <3>1. Candidate.pts < y.pts
      BY <1>1, <2>2 DEF FlowInv, PendingInv
    <3> QED BY <1>2, <1>3, <3>1
  <2> QED BY <1>4, <2>1, <2>2 DEF Pending
<1> QED BY <1>1, <1>2, <1>3, <1>4

LEMMA NextFileCovers ==
  ASSUME TypeInv, FlowInv, ContextInv, CoveredInv, Onward, NextFile
  PROVE  CoveredInv'
<1>1. UNCHANGED fileVars
  BY FileUntouched DEF QueueSteps
<1>2. /\ fileContexts # << >> /\ fileContexts' = Tail(fileContexts) /\ frames # << >>
      /\ Known(Current.end) /\ Candidate.pts > Current.end
  BY DEF NextFile, HasCandidate, Beyond
<1> DEFINE n == Len(fileContexts)
<1>3. fileContexts \in Seq(Context)
  BY DEF TypeInv, SynchroniserTypes
<1>4. /\ n \in Nat /\ n > 0 /\ DOMAIN fileContexts = 1..n /\ Current = fileContexts[1]
      /\ DOMAIN Tail(fileContexts) = 1..(n - 1)
      /\ \A i \in 1..(n - 1) : Tail(fileContexts)[i] = fileContexts[i + 1]
  BY <1>2, <1>3, HeadTailProperties, LenProperties, EmptySeq DEF Current
<1> SUFFICES ASSUME NEW f \in Names, NEW i \in LaterIn(written, f), written[i].frame \in Pending'
             PROVE  \E c \in Contexts' : c.name = f
  BY <1>1 DEF CoveredInv, Names, fileVars
<1>5. i \in DOMAIN written /\ i \in VideoIn(written, f)
  BY LaterPlaces
<1>6. written[i].frame \in Pending
  BY <1>5, StillPending
<1>7. PICK c \in Contexts : c.name = f
  BY <1>6 DEF CoveredInv
<1>8. PICK k \in 1..n : c = fileContexts[k]
  BY <1>4 DEF Contexts, In
<1>9. k # 1
  <2> SUFFICES ASSUME k = 1 PROVE FALSE
    OBVIOUS
  <2>1. c = Current
    BY <1>4, <1>8
  <2>2. written[i].frame.pts <= c.end
    BY <1>2, <1>5, <1>7, <2>1 DEF ContextInv, Good, HoldsItsFile
  <2>3. Candidate.pts <= written[i].frame.pts /\ Candidate.pts \in Nat /\ written[i].frame.pts \in Nat
    BY <1>2, <1>6, CandidateIsFirst
  <2>4. c.end \in Nat
    BY <1>2, <2>1, ContextTypes DEF Known
  <2> QED BY <1>2, <2>1, <2>2, <2>3, <2>4
<1>10. k - 1 \in 1..(n - 1) /\ fileContexts'[k - 1] = c
  <2>1. k - 1 \in 1..(n - 1) /\ (k - 1) + 1 = k
    BY <1>4, <1>9
  <2> QED BY <1>2, <1>4, <1>8, <2>1
<1>11. c \in Contexts'
  BY <1>2, <1>4, <1>10 DEF Contexts, In
<1> QED BY <1>7, <1>11

LEMMA WritingCovers ==
  ASSUME TypeInv, FlowInv, NameInv, WrittenInv, ContextInv, CoveredInv, Onward, WriteSaved \/ WritePacket,
         TypeInv', WrittenInv', ContextInv'
  PROVE  CoveredInv'
<1>1. UNCHANGED <<uri, outputInitialized>> /\ outputInitialized
  BY WritingFacts
<1>2. PICK p \in Ahead : WriteFrame(p)
  BY WritingMoves
<1>3. p \in Frame /\ p \in Delivered
  BY DeliveredFacts DEF FlowInv, DeliveredInv
<1>4. Contexts \subseteq Contexts'
  <2>1. CASE fileContexts' = fileContexts
    BY <2>1 DEF Contexts
  <2>2. CASE fileContexts' # fileContexts
    <3> DEFINE d == [start |-> p.pts, end |-> None, name |-> uri]
    <3>1. fileContexts' = Append(fileContexts, d)
      BY <1>2, <2>2, WriteFrameCases DEF Skips, Loses, Records, NotifyNewFile
    <3>2. d \in Context
      BY <1>1, <1>3, FrameParts DEF TypeInv, OpenInv, Context
    <3> HIDE DEF d
    <3>3. /\ DOMAIN fileContexts = 1..Len(fileContexts) /\ Len(fileContexts) \in Nat
          /\ DOMAIN fileContexts' = 1..(Len(fileContexts) + 1)
          /\ \A i \in 1..Len(fileContexts) : fileContexts'[i] = fileContexts[i]
      BY <3>1, <3>2, AppendFacts DEF TypeInv, SynchroniserTypes
    <3> QED BY <3>3 DEF Contexts, In
  <2> QED BY <2>1, <2>2
<1>5. CASE Skips(p) \/ Loses(p)
  BY <1>4, <1>5, CoveredUntouched DEF Skips, Loses
<1>6. CASE Records(p)
  <2> DEFINE e == Recorded(p)
             n == Len(written)
  <2>1. /\ e \in Entry /\ n \in Nat /\ DOMAIN written = 1..n
        /\ DOMAIN written' = 1..(n + 1) /\ written'[n + 1] = e
        /\ \A i \in 1..n : written'[i] = written[i]
    BY <1>1, <1>3, <1>6, WrittenGrows
  <2>2. e.file = uri /\ e.frame = p
    BY DEF Recorded
  <2>3. written' = Append(written, e) /\ written \in Seq(Entry)
    BY <1>6 DEF Records, TypeInv, RecorderTypes
  <2> HIDE DEF e
  <2> SUFFICES ASSUME NEW f, NEW i \in LaterIn(written', f), written'[i].frame \in Pending'
               PROVE  \E c \in Contexts' : c.name = f
    BY DEF CoveredInv
  <2>4. CASE f = uri
    <3>1. VideoIn(written', uri) # {} /\ LaterIn(written', uri) # {}
      BY <2>4, LaterPlaces
    <3>2. videoPackets' \in Nat /\ videoPackets' > 1
      BY <1>1, <3>1 DEF WrittenInv, PacketsCounted, TypeInv, RecorderTypes
    <3>3. fileContexts' # << >> /\ Last(fileContexts').name = uri
      BY <1>1, <3>2 DEF ContextInv, NewestIsOpen
    <3>4. fileContexts' \in Seq(Context)
      BY DEF TypeInv, SynchroniserTypes
    <3>5. Len(fileContexts') \in DOMAIN fileContexts'
      BY <3>3, <3>4, LenProperties, EmptySeq
    <3> QED BY <2>4, <3>3, <3>5 DEF Contexts, In, Last
  <2>5. CASE f # uri
    <3>1. LaterIn(written', f) = LaterIn(written, f)
      BY <2>1, <2>2, <2>3, <2>5, VideoGrows DEF GrowsBy
    <3>2. i \in DOMAIN written /\ written[i].file = f
      BY <3>1, LaterPlaces
    <3>3. f \in Names /\ written'[i].frame = written[i].frame
      BY <2>1, <3>2 DEF Names
    <3>4. written[i].frame \in Pending
      BY <3>2, <3>3, StillPending
    <3> QED BY <1>4, <3>1, <3>3, <3>4 DEF CoveredInv
  <2> QED BY <2>4, <2>5
<1> QED BY <1>2, <1>5, <1>6, WriteFrameCases

LEMMA CoveredStep ==
  ASSUME TypeInv, FlowInv, NameInv, WrittenInv, ContextInv, CoveredInv, [ReaderNext]_readerVars, Onward,
         TypeInv', WrittenInv', ContextInv'
  PROVE  CoveredInv'
<1>1. CASE SplitterSteps \/ OpenSteps \/ (QueueSteps /\ ~NextFile) \/ UNCHANGED flow
  <2>1. written' = written /\ fileContexts' = fileContexts
    <3>1. CASE SplitterSteps \/ UNCHANGED flow
      BY <3>1, FileUntouched
         DEF SplitterSteps, SourceFrame, SourceEnds, FlushSubgraph, RunAgain, PendingPacket, PassOn, Encode,
             Deposit, flow, fileVars
    <3>2. CASE OpenSteps
      BY <3>2, OpeningNames
    <3>3. CASE QueueSteps /\ ~NextFile
      BY <3>3, FileUntouched DEF fileVars, QueueSteps, LearnDelay, DropEarly, ReturnFrame, ReadVideo, ReadAudio
    <3> QED BY <1>1, <3>1, <3>2, <3>3
  <2>2. Contexts' = Contexts
    BY <2>1 DEF Contexts
  <2> QED BY <2>1, <2>2, CoveredUntouched
<1>2. CASE NextFile
  BY <1>2, NextFileCovers
<1>3. CASE Rotate \/ Close
  <2>1. written' = written
    BY <1>3 DEF Rotate, Close, history
  <2>2. \/ fileContexts' = fileContexts
        \/ fileContexts' = [fileContexts EXCEPT ![Min(Unended)].end = lastVideoPts]
    BY <1>3 DEF Rotate, Close, CloseOut, NotifyCloseFile
  <2>3. CASE fileContexts' = fileContexts
    <3>1. Contexts' = Contexts
      BY <2>3 DEF Contexts
    <3> QED BY <2>1, <3>1, CoveredUntouched
  <2>4. CASE fileContexts' = [fileContexts EXCEPT ![Min(Unended)].end = lastVideoPts]
    <3>0. PICK m : m = Min(Unended)
      OBVIOUS
    <3>t. fileContexts \in Seq(Context) /\ lastVideoPts \in Nat
      BY DEF TypeInv, RecorderTypes, SynchroniserTypes
    <3>e. fileContexts' = [fileContexts EXCEPT ![m].end = lastVideoPts]
      BY <2>4, <3>0
    <3>1. /\ Len(fileContexts') = Len(fileContexts) /\ fileContexts' \in Seq(Context)
          /\ \A i \in DOMAIN fileContexts :
               fileContexts'[i] = IF i = m THEN [fileContexts[i] EXCEPT !.end = lastVideoPts] ELSE fileContexts[i]
      BY <3>t, <3>e, EndsAnInterval
    <3>2. DOMAIN fileContexts' = DOMAIN fileContexts
      BY <3>1, LenProperties DEF TypeInv, SynchroniserTypes
    <3>3. \A i \in DOMAIN fileContexts : fileContexts'[i].name = fileContexts[i].name
      <4>1. \A i \in DOMAIN fileContexts : fileContexts[i] \in Context
        BY ContextTypes
      <4> QED BY <3>1, <4>1 DEF Context
    <3>4. \A c \in Contexts : \E d \in Contexts' : d.name = c.name
      BY <3>2, <3>3 DEF Contexts, In
    <3> QED BY <2>1, <3>4, CoveredUntouched
  <2> QED BY <2>2, <2>3, <2>4
<1>4. CASE WriteSaved \/ WritePacket
  BY <1>4, WritingCovers
<1> QED BY <1>1, <1>2, <1>3, <1>4, StepCases

-----------------------------------------------------------------------------
(***************************************************************************)
(* The splitter's queue holds at most the frame it has just read, and the  *)
(* encoder has taken every video frame that has reached the synchroniser;  *)
(* unless the frame is to be encoded and a critical error has come between.*)
(***************************************************************************)
InputInv == lastInputPts \in Times \cup {0} /\ \A y \in In(sourceFrames) : lastInputPts <= y.pts
OneFrameQueued ==
  /\ sourceFrames \in {<< >>, <<frame>>}
  /\ sourceFrames # << >> => Known(frame) /\ ppc \in Busy \ {"deposit"}
  /\ passthrough /\ ppc \in Holding => sourceFrames = << >> /\ packet = frame
QueueIsFed ==
  ~passthrough =>
    /\ lastPtsInQueue <= lastInputPts
    /\ \A x \in In(edge) : x.video => x.pts <= lastInputPts
    /\ \A x \in Undeposited : x.video => x.pts <= lastInputPts \/ x \in In(sourceFrames)
Regular == passthrough \/ ~criticalError
QueueInv == InputInv /\ (Regular => OneFrameQueued /\ QueueIsFed)

LEMMA SingleIn ==
  ASSUME NEW x PROVE In(<<x>>) = {x} /\ Head(<<x>>) = x /\ Tail(<<x>>) = << >> /\ <<x>> # << >>
BY DEF In

LEMMA QueueInit == ReaderInit => QueueInv
<1> SUFFICES ASSUME ReaderInit PROVE QueueInv
  OBVIOUS
<1>1. /\ sourceFrames = << >> /\ edge = << >> /\ frame = None /\ ppc = "source" /\ lastInputPts = 0
      /\ lastPtsInQueue = 0
  BY DEF ReaderInit, Init, SplitterInit, EncoderInit, SynchroniserInit
<1>2. Undeposited = {} /\ "source" \notin Holding
  BY <1>1 DEF Undeposited, Holding, Known
<1> QED BY <1>1, <1>2, EmptyIn DEF QueueInv, InputInv, OneFrameQueued, QueueIsFed

LEMMA RegularBefore ==
  ASSUME TypeInv, [ReaderNext]_readerVars, Regular' PROVE Regular /\ passthrough' = passthrough
<1>1. CASE SplitterSteps \/ Rotate \/ Close \/ QueueSteps \/ UNCHANGED flow
  BY <1>1 DEF SplitterSteps, SourceFrame, SourceEnds, FlushSubgraph, RunAgain, PendingPacket, PassOn, Encode,
              Deposit, Rotate, Close, QueueSteps, LearnDelay, DropEarly, NextFile, ReturnFrame, ReadVideo, ReadAudio,
              producer, encoder, recorder, flow, Regular
<1>2. CASE OpenSteps
  BY <1>2 DEF OpenSteps, OpenWaitsForSize, OpenWaitsForSps, OpenOut, OpenFails, encoder, Regular, TypeInv, RecorderTypes
<1>3. CASE WriteSaved \/ WritePacket
  BY <1>3, WritingFacts DEF Regular
<1> QED BY <1>1, <1>2, <1>3, StepCases

\* What the encoder was given last comes no later than what it is given next.
LEMMA InputStep ==
  ASSUME TypeInv, FlowInv, InputInv, [ReaderNext]_readerVars, Onward
  PROVE  InputInv' /\ lastInputPts <= lastInputPts'
<1>0. Times \subseteq Times' /\ lastInputPts \in Nat
  BY DEF Onward, Times, TypeInv, EncoderTypes
<1>1. ASSUME UNCHANGED <<sourceFrames, lastInputPts>> PROVE InputInv' /\ lastInputPts <= lastInputPts'
  BY <1>0, <1>1 DEF InputInv
<1>2. CASE SourceFrame
  <2>1. sourceFrames' = Append(sourceFrames, frame') /\ lastInputPts' = lastInputPts
    BY <1>2 DEF SourceFrame, encoder
  <2>2. frame' \in Frame /\ Fresh(frame') /\ frame'.pts \in Nat
    BY <1>2, NewFrame, FrameParts
  <2>3. In(sourceFrames') = In(sourceFrames) \cup {frame'}
    BY <2>1, <2>2, AppendIn DEF TypeInv, SplitterTypes
  <2>4. lastInputPts <= frame'.pts
    BY <1>0, <2>2, FreshTimes DEF InputInv
  <2> QED BY <1>0, <2>1, <2>3, <2>4 DEF InputInv
<1>3. CASE PassOn \/ Encode
  <2>1. /\ sourceFrames # << >> /\ sourceFrames' = Tail(sourceFrames)
        /\ lastInputPts' \in {lastInputPts, Head(sourceFrames).pts}
    BY <1>3 DEF PassOn, Encode, Gets, Input, encoder
  <2>2. /\ In(sourceFrames) = In(sourceFrames') \cup {Head(sourceFrames)} /\ Head(sourceFrames) \in In(sourceFrames)
        /\ \A x \in In(sourceFrames') : Head(sourceFrames).pts < x.pts
    BY <2>1, TailIn DEF TypeInv, SplitterTypes, FlowInv, OrderInv
  <2>3. /\ Head(sourceFrames) \in Delivered /\ Head(sourceFrames).pts \in Nat
        /\ \A x \in In(sourceFrames') : x.pts \in Nat
    BY <2>2, DeliveredFacts DEF FlowInv, DeliveredInv, Ahead, Coming
  <2>4. Head(sourceFrames).pts \in Times' /\ lastInputPts <= Head(sourceFrames).pts
    BY <1>0, <2>2, <2>3 DEF Times, InputInv
  <2>5. lastInputPts' \in Times' \cup {0} /\ lastInputPts <= lastInputPts'
    BY <1>0, <2>1, <2>4 DEF InputInv
  <2>6. \A y \in In(sourceFrames') : lastInputPts' <= y.pts
    BY <2>1, <2>2, <2>3 DEF InputInv
  <2> QED BY <2>5, <2>6 DEF InputInv
<1>4. CASE SourceEnds \/ FlushSubgraph \/ PendingPacket \/ Deposit
  BY <1>1, <1>4 DEF SourceEnds, FlushSubgraph, RunAgain, PendingPacket, Deposit, splitter, encoder
<1>5. CASE Rotate \/ Close
  BY <1>1, <1>5 DEF Rotate, Close, splitter, encoder
<1>6. CASE OpenSteps
  BY <1>1, <1>6 DEF OpenSteps, OpenWaitsForSize, OpenWaitsForSps, OpenOut, OpenFails, splitter, encoder
<1>7. CASE WriteSaved \/ WritePacket
  BY <1>1, <1>7, WritingFacts
<1>8. CASE QueueSteps
  BY <1>1, <1>8 DEF QueueSteps, LearnDelay, DropEarly, NextFile, ReturnFrame, ReadVideo, ReadAudio, producer,
                    splitter, encoder
<1>9. CASE UNCHANGED flow
  BY <1>1, <1>9 DEF flow
<1> QED BY <1>2, <1>3, <1>4, <1>5, <1>6, <1>7, <1>8, <1>9, StepCases DEF SplitterSteps

\* While the frame is in the splitter, and nothing is read.
LEMMA QueueUntouched ==
  ASSUME OneFrameQueued, QueueIsFed, UNCHANGED <<frame, sourceFrames, edge, passthrough, lastInputPts, lastPtsInQueue>>,
         ppc \in Busy, ppc' \in Busy,
         sourceFrames # << >> => ppc' # "deposit",
         passthrough /\ ppc' \in Holding => ppc \in Holding /\ packet' = packet
  PROVE  OneFrameQueued' /\ QueueIsFed'
<1>1. Undeposited' = Undeposited
  BY DEF Undeposited
<1> QED BY <1>1 DEF OneFrameQueued, QueueIsFed

LEMMA SplitterQueue ==
  ASSUME TypeInv, FlowInv, InputInv, InputInv', lastInputPts <= lastInputPts', OneFrameQueued, QueueIsFed, SplitterSteps
  PROVE  OneFrameQueued' /\ QueueIsFed'
<1>1. CASE SourceFrame
  <2>1. /\ sourceFrames' = Append(sourceFrames, frame') /\ ppc = "source" /\ ppc' = "encoder"
        /\ UNCHANGED <<edge, passthrough, lastInputPts, lastPtsInQueue>>
    BY <1>1 DEF SourceFrame, encoder, queue
  <2>2. frame' # None
    BY <1>1, NewFrame
  <2>3. sourceFrames' = <<frame'>>
    <3>1. sourceFrames = << >>
      BY <2>1 DEF OneFrameQueued, Busy, Holding
    <3>2. \A x : Append(<< >>, x) = <<x>>
      OBVIOUS
    <3> QED BY <2>1, <3>1, <3>2
  <2>4. Undeposited' = {frame'} /\ In(sourceFrames') = {frame'}
    BY <2>1, <2>2, <2>3, SingleIn DEF Undeposited, Busy, Known
  <2>5. OneFrameQueued'
    BY <2>1, <2>2, <2>3 DEF OneFrameQueued, Busy, Holding, Known
  <2> QED BY <2>1, <2>4, <2>5 DEF QueueIsFed
<1>2. CASE SourceEnds \/ FlushSubgraph
  <2>1. /\ frame' = None /\ ppc \in {"source", "ended"} /\ ppc' = "encoder"
        /\ UNCHANGED <<edge, sourceFrames, passthrough, lastInputPts, lastPtsInQueue>>
    BY <1>2 DEF SourceEnds, FlushSubgraph, RunAgain, encoder, queue
  <2>2. sourceFrames' = << >> /\ Undeposited' = {}
    BY <2>1 DEF OneFrameQueued, Busy, Holding, Undeposited, Known
  <2> QED BY <2>1, <2>2 DEF OneFrameQueued, QueueIsFed, Holding
<1>3. CASE PendingPacket
  <2>1. /\ ~passthrough /\ ppc = "encoder" /\ ppc' = "check"
        /\ UNCHANGED <<frame, edge, sourceFrames, passthrough, lastInputPts, lastPtsInQueue>>
    BY <1>3 DEF PendingPacket, Offer, splitter, queue
  <2> QED BY <2>1, QueueUntouched DEF Busy, Holding
<1>4. CASE PassOn \/ Encode
  <2>1. /\ sourceFrames # << >> /\ sourceFrames' = Tail(sourceFrames)
        /\ UNCHANGED <<frame, edge, passthrough, lastPtsInQueue>>
        /\ ppc \in {"encoder", "retry"} /\ ppc' \in {"check", "retry", "deposit"}
        /\ passthrough => ppc' = "check" /\ packet' = Head(sourceFrames)
        /\ Head(sourceFrames).video /\ ~passthrough => lastInputPts' = Head(sourceFrames).pts
    BY <1>4 DEF PassOn, Encode, Offer, Gets, Reads, Input, encoder, queue
  <2>2. sourceFrames = <<frame>> /\ Known(frame)
    BY <2>1 DEF OneFrameQueued
  <2>3. Head(sourceFrames) = frame /\ sourceFrames' = << >>
    BY <2>1, <2>2, SingleIn
  <2>4. Undeposited = {frame} /\ Undeposited' = {frame} /\ frame.pts \in Nat
    <3>1. Undeposited = {frame} /\ Undeposited' = {frame}
      BY <2>1, <2>2 DEF Undeposited, Busy, Holding
    <3> QED BY <3>1, DeliveredFacts DEF FlowInv, DeliveredInv, Pending
  <2>5. OneFrameQueued'
    BY <2>1, <2>3 DEF OneFrameQueued
  <2>6. QueueIsFed'
    <3> SUFFICES ASSUME ~passthrough
                 PROVE  /\ lastPtsInQueue <= lastInputPts'
                        /\ \A x \in In(edge) : x.video => x.pts <= lastInputPts'
                        /\ frame.video => frame.pts <= lastInputPts'
      BY <2>1, <2>4 DEF QueueIsFed
    <3>1. lastPtsInQueue \in Nat /\ lastInputPts \in Nat /\ \A x \in In(edge) : x.pts \in Nat
      BY DeliveredFacts DEF TypeInv, EncoderTypes, SynchroniserTypes, FlowInv, DeliveredInv, Pending
    <3>2. lastInputPts' \in Nat
      <4>1. lastInputPts' \in {lastInputPts, Head(sourceFrames).pts}
        BY <1>4 DEF PassOn, Encode, Input, encoder
      <4> QED BY <2>3, <2>4, <3>1, <4>1
    <3> QED BY <2>1, <2>3, <2>4, <3>1, <3>2 DEF QueueIsFed
  <2> QED BY <2>5, <2>6
<1>5. CASE Deposit
  <2>1. /\ UNCHANGED <<frame, sourceFrames, passthrough, lastInputPts, lastPtsInQueue>>
        /\ ppc \in {"encoder", "retry", "deposit"} /\ ppc' \in {"source", "flushed", "ended"}
        /\ ppc = "deposit" \/ sourceFrames = << >>
        /\ edge' = IF Known(frame) THEN Append(edge, frame) ELSE edge
    BY <1>5 DEF Deposit, Reads, encoder, queue
  <2>2. sourceFrames = << >> /\ In(sourceFrames) = {}
    BY <2>1, EmptyIn DEF OneFrameQueued
  <2>3. Undeposited' = {} /\ (Known(frame) => Undeposited = {frame})
    BY <2>1 DEF Undeposited, Busy, Holding
  <2>4. In(edge') \subseteq In(edge) \cup Undeposited
    BY <2>1, <2>3, AppendIn DEF Known, TypeInv, SplitterTypes
  <2>5. OneFrameQueued'
    BY <2>1, <2>2 DEF OneFrameQueued, Holding
  <2> QED BY <2>1, <2>2, <2>3, <2>4, <2>5 DEF QueueIsFed
<1> QED BY <1>1, <1>2, <1>3, <1>4, <1>5 DEF SplitterSteps

LEMMA QueueStep ==
  ASSUME TypeInv, FlowInv, QueueInv, [ReaderNext]_readerVars, Onward
  PROVE  QueueInv' /\ lastInputPts <= lastInputPts'
<1>1. InputInv' /\ lastInputPts <= lastInputPts'
  BY InputStep DEF QueueInv
<1> SUFFICES ASSUME Regular' PROVE OneFrameQueued' /\ QueueIsFed'
  BY <1>1 DEF QueueInv
<1>2. Regular /\ passthrough' = passthrough /\ OneFrameQueued /\ QueueIsFed /\ InputInv
  BY RegularBefore DEF QueueInv
<1>3. CASE SplitterSteps
  BY <1>1, <1>2, <1>3, SplitterQueue
<1>4. CASE Rotate
  <2>1. ppc = "check" /\ ppc' = "reopen" /\ packet' = packet
        /\ UNCHANGED <<frame, sourceFrames, edge, passthrough, lastInputPts, lastPtsInQueue>>
    BY <1>4 DEF Rotate, splitter, encoder, queue
  <2> QED BY <1>2, <2>1, QueueUntouched DEF Busy, Holding
<1>5. CASE Close
  <2>1. ppc = "flushed" /\ ppc' = "closed"
        /\ UNCHANGED <<frame, sourceFrames, edge, passthrough, lastInputPts, lastPtsInQueue>>
    BY <1>5 DEF Close, splitter, encoder, queue
  <2>2. sourceFrames = << >> /\ Undeposited' = {}
    BY <1>2, <2>1 DEF OneFrameQueued, Undeposited, Busy, Holding
  <2> QED BY <1>2, <2>1, <2>2 DEF OneFrameQueued, QueueIsFed, Holding
<1>6. CASE OpenSteps
  <2>1. Opening
    BY <1>6 DEF OpenSteps, OpenWaitsForSize, OpenWaitsForSps, OpenOut, OpenFails
  <2>2. /\ UNCHANGED <<frame, sourceFrames, edge, passthrough, lastInputPts, lastPtsInQueue, packet>>
        /\ ppc \in {"check", "open", "reopen"} /\ ppc' \in {"deposit", "encoder", "open", "saved"}
        /\ criticalError' \in BOOLEAN
        /\ ppc' = "deposit" => criticalError'
    BY <1>6, <2>1, OpeningFacts DEF OpenSteps, OpenWaitsForSize, OpenWaitsForSps, OpenOut, OpenFails, LeaveUnopened,
          splitter, encoder, queue, TypeInv, RecorderTypes
  <2>3. sourceFrames # << >> => ppc' # "deposit"
    BY <1>2, <2>2 DEF OneFrameQueued, Regular, Holding
  <2> QED BY <1>2, <2>2, <2>3, QueueUntouched DEF Busy, Holding
<1>7. CASE WriteSaved \/ WritePacket
  <2>1. /\ UNCHANGED <<frame, sourceFrames, edge, passthrough, lastInputPts, lastPtsInQueue, packet>>
        /\ ppc \in {"check", "saved"} /\ ppc' \in {"saved", "encoder"}
    BY <1>7, WritingFacts
  <2> QED BY <1>2, <2>1, QueueUntouched DEF Busy, Holding
<1>8. CASE QueueSteps
  <2>1. UNCHANGED <<ppc, frame, packet, sourceFrames, passthrough, lastInputPts>>
    BY <1>8 DEF QueueSteps, LearnDelay, DropEarly, NextFile, ReturnFrame, ReadVideo, ReadAudio, producer,
                splitter, encoder, recorder
  <2>2. Undeposited' = Undeposited /\ OneFrameQueued'
    BY <1>2, <2>1 DEF Undeposited, OneFrameQueued
  <2>3. CASE UNCHANGED <<edge, lastPtsInQueue>>
    BY <1>2, <2>1, <2>2, <2>3 DEF QueueIsFed
  <2>4. CASE ReadVideo \/ ReadAudio
    <3>1. /\ edge # << >> /\ edge' = Tail(edge)
          /\ lastPtsInQueue' = lastPtsInQueue \/ (lastPtsInQueue' = Head(edge).pts /\ Head(edge).video)
      BY <2>4 DEF ReadVideo, ReadAudio
    <3>2. In(edge') \subseteq In(edge) /\ Head(edge) \in In(edge)
      BY <3>1, TailIn DEF TypeInv, SplitterTypes
    <3>3. sourceFrames' = sourceFrames /\ lastInputPts' = lastInputPts /\ passthrough' = passthrough
      BY <2>1
    <3>4. ~passthrough => lastPtsInQueue' <= lastInputPts
      BY <1>2, <3>1, <3>2 DEF QueueIsFed
    <3>5. ~passthrough => \A x \in In(edge') : x.video => x.pts <= lastInputPts
      BY <1>2, <3>2 DEF QueueIsFed
    <3>6. ~passthrough => \A x \in Undeposited' : x.video => x.pts <= lastInputPts \/ x \in In(sourceFrames)
      BY <1>2, <2>2 DEF QueueIsFed
    <3> QED BY <2>2, <3>3, <3>4, <3>5, <3>6 DEF QueueIsFed
  <2>5. UNCHANGED <<edge, lastPtsInQueue>> \/ ReadVideo \/ ReadAudio
    BY <1>8 DEF QueueSteps, LearnDelay, DropEarly, NextFile, ReturnFrame, producer, splitter, queue
  <2> QED BY <2>3, <2>4, <2>5
<1>9. CASE UNCHANGED flow
  <2>1. UNCHANGED <<ppc, frame, packet, sourceFrames, edge, passthrough, lastInputPts, lastPtsInQueue>>
    BY <1>9 DEF flow
  <2>2. Undeposited' = Undeposited
    BY <2>1 DEF Undeposited
  <2> QED BY <1>2, <2>1, <2>2 DEF OneFrameQueued, QueueIsFed
<1> QED BY <1>3, <1>4, <1>5, <1>6, <1>7, <1>8, <1>9, StepCases

-----------------------------------------------------------------------------
(***************************************************************************)
(* What is true of a frame from its return on: as long as nothing is       *)
(* written, nothing has to be shown; a packet that is written later is     *)
(* another frame's, is saved for the file that was named, or was kept too  *)
(* long.                                                                   *)
(***************************************************************************)
VideoTimes == {x.pts : x \in {y \in Delivered : y.video}}
StillSaved ==
  \A y \in Ahead : y.pts = returned.pts =>
    /\ y \in In(savedFrames) /\ y \notin Flying \cup Coming
    /\ ppc = "saved" /\ outputInitialized /\ uri = returned.name
Comes ==
  /\ returned.pts \in VideoTimes /\ DelayKnown
  /\ ~passthrough => lastInputPts - returned.pts > knownDelay
  /\ passthrough => StillSaved
Named ==
  \A i \in DOMAIN written :
    written[i].frame.pts = returned.pts => written[i].file = returned.name \/ written[i].delay > knownDelay
ReturnedInv == Known(returned) /\ Regular => Comes /\ Named

LEMMA NamedIsNamesItsFile == ReturnedInv => NamesItsFile
BY DEF ReturnedInv, Regular, Named, NamesItsFile

LEMMA ReturnedInit == ReaderInit => ReturnedInv
BY DEF ReaderInit, Init, ReturnedInv, Known

LEMMA VideoTimesGrow ==
  ASSUME TypeInv
  PROVE  /\ Onward => VideoTimes \subseteq VideoTimes'
         /\ VideoTimes \subseteq Times /\ \A t \in VideoTimes : t \in Nat
         /\ \A x \in Delivered : x.pts \in VideoTimes => x.video
<1>1. VideoTimes \subseteq Times /\ \A t \in VideoTimes : t \in Nat
  BY DeliveredFacts DEF VideoTimes, Times
<1>2. \A x \in Delivered : x.pts \in VideoTimes => x.video
  BY DeliveredFacts DEF VideoTimes
<1>3. Onward => VideoTimes \subseteq VideoTimes'
  BY DEF Onward, VideoTimes
<1> QED BY <1>1, <1>2, <1>3

\* The interval at the head of the queue holds the frame that is returned.
LEMMA ReturningFrame ==
  ASSUME TypeInv, FlowInv, ContextInv, QueueInv, Regular, ReturnFrame
  PROVE  Comes' /\ Named'
<1> DEFINE x == Candidate
           c == Current
<1>1. /\ frames # << >> /\ fileContexts # << >> /\ DelayKnown /\ ~Before /\ ~Beyond /\ Settled
      /\ returned' = [pts |-> x.pts, name |-> c.name]
      /\ UNCHANGED <<source, framesRead, ppc, packet, sourceFrames, edge, passthrough, inEncoder, lastInputPts, outputInitialized,
                     uri, savedFrames, written, knownDelay, lastPtsInQueue>>
  BY DEF ReturnFrame, HasCandidate, producer, splitter, encoder, recorder, file, counters
<1>2. returned'.pts = x.pts /\ returned'.name = c.name
  BY <1>1
<1>3. x \in Pending /\ x \in Delivered /\ x.video /\ x.pts \in Nat /\ x \in In(frames)
  BY <1>1, CandidateIsFirst
<1>4. c \in Contexts
  <2>1. fileContexts \in Seq(Context)
    BY DEF TypeInv, SynchroniserTypes
  <2>2. 1 \in DOMAIN fileContexts /\ Head(fileContexts) = fileContexts[1]
    BY <1>1, <2>1, LenProperties, EmptySeq
  <2> QED BY <2>2 DEF Contexts, In, Current
<1>5. c.start \in Nat /\ (Known(c.end) => c.end \in Nat) /\ Good(c)
  BY <1>4, ContextTypes DEF ContextInv, Known
<1>6. c.start <= x.pts /\ (Known(c.end) => x.pts <= c.end)
  BY <1>1, <1>3, <1>5 DEF Before, Beyond
<1> HIDE DEF x, c
<1>7. /\ Delivered' = Delivered /\ Flying' = Flying /\ Coming' = Coming /\ Ahead' = Ahead
      /\ VideoTimes' = VideoTimes /\ DelayKnown'
  BY <1>1 DEF Delivered, Flying, Coming, Ahead, VideoTimes, DelayKnown
<1>8. x.pts \in VideoTimes
  BY <1>3 DEF VideoTimes
<1>9. ASSUME ~passthrough PROVE lastInputPts - x.pts > knownDelay
  <2>1. lastPtsInQueue <= lastInputPts
    BY <1>9 DEF QueueInv, QueueIsFed
  <2>2. x.pts + knownDelay < lastPtsInQueue
    BY <1>1 DEF Settled, x
  <2>3. lastPtsInQueue \in Nat /\ lastInputPts \in Nat /\ knownDelay \in Int
    BY DEF TypeInv, EncoderTypes, SynchroniserTypes
  <2> QED BY <1>3, <2>1, <2>2, <2>3
<1>10. ASSUME passthrough, NEW y \in Ahead, y.pts = x.pts
       PROVE  /\ y \in In(savedFrames) /\ y \notin Flying \cup Coming
              /\ ppc = "saved" /\ outputInitialized /\ uri = c.name
  <2>1. y = x
    BY <1>3, <1>10, DeliveredFacts DEF FlowInv, DeliveredInv
  <2>2. x \notin Undeposited
    BY <1>3 DEF FlowInv, PendingInv
  <2>3. x \notin Flying
    <3> SUFFICES ASSUME x \in Flying PROVE FALSE
      OBVIOUS
    <3>1. ppc \in Holding /\ packet = x /\ packet = frame
      BY <1>10 DEF Flying, QueueInv, OneFrameQueued
    <3>2. x # None
      BY <1>3, DeliveredFacts
    <3> QED BY <2>2, <3>1, <3>2 DEF Undeposited, Known, Busy
  <2>4. x \notin Coming
    <3> SUFFICES ASSUME x \in Coming PROVE FALSE
      OBVIOUS
    <3>1. x \in In(sourceFrames)
      BY <1>10, EmptyIn DEF Coming, TypeInv, EncoderTypes
    <3>2. sourceFrames = <<frame>> /\ Known(frame) /\ ppc \in Busy
      BY <3>1, EmptyIn DEF QueueInv, OneFrameQueued
    <3>3. x = frame
      BY <3>1, <3>2, SingleIn
    <3> QED BY <2>2, <3>2, <3>3 DEF Undeposited
  <2>5. x \in In(savedFrames)
    BY <1>10, <2>1, <2>3, <2>4 DEF Ahead
  <2>6. ~Known(c.end)
    <3> SUFFICES ASSUME Known(c.end) PROVE FALSE
      OBVIOUS
    <3>1. c.end < x.pts
      BY <1>3, <1>5, <1>10, <2>1 DEF Good, EndsBehind
    <3> QED BY <1>3, <1>5, <1>6, <3>1
  <2>7. outputInitialized /\ uri = c.name
    BY <1>5, <2>6 DEF Good, OpenWhile, Known
  <2>8. savedFrames # << >>
    BY <2>5, EmptyIn
  <2>9. ppc = "saved"
    BY <2>7, <2>8 DEF TypeInv, OpenInv
  <2> QED BY <2>1, <2>3, <2>4, <2>5, <2>7, <2>9
<1>11. ASSUME NEW i \in DOMAIN written, written[i].frame.pts = x.pts PROVE written[i].file = c.name
  <2>1. written[i].frame = x
    BY <1>3, <1>11, WrittenTypes, DeliveredFacts
  <2>2. written[i].frame.video
    BY <1>3, <2>1
  <2>3. ~(x.pts < c.start) /\ ~(Known(c.end) /\ x.pts > c.end)
    BY <1>3, <1>5, <1>6
  <2> QED BY <1>5, <1>11, <2>2, <2>3 DEF Good, HoldsItsFile
<1>12. Comes'
  <2>1. passthrough' => StillSaved'
    BY <1>1, <1>2, <1>7, <1>10 DEF StillSaved
  <2> QED BY <1>1, <1>2, <1>7, <1>8, <1>9, <2>1 DEF Comes
<1>13. Named'
  BY <1>1, <1>2, <1>11 DEF Named
<1> QED BY <1>12, <1>13

\* Only a packet that was saved can still be written of a frame that passes the encoder by.
LEMMA StillSavedStep ==
  ASSUME TypeInv, FlowInv, StillSaved, returned.pts \in VideoTimes, [ReaderNext]_readerVars, Onward, returned' = returned
  PROVE  StillSaved'
<1> SUFFICES ASSUME NEW y \in Ahead', y.pts = returned.pts
             PROVE  /\ y \in In(savedFrames') /\ y \notin Flying' \cup Coming'
                    /\ ppc' = "saved" /\ outputInitialized' /\ uri' = returned.name
  BY DEF StillSaved
<1>1. ~Fresh(y)
  <2>1. y.pts \in Times /\ y.pts \in Nat
    BY VideoTimesGrow
  <2> QED BY <2>1, FreshTimes
<1>2. y \in Ahead
  BY <1>1 DEF Onward
<1>3. /\ y \in In(savedFrames) /\ y \notin Flying \cup Coming
      /\ ppc = "saved" /\ outputInitialized /\ uri = returned.name
  BY <1>2 DEF StillSaved
<1>4. CASE SplitterSteps \/ Rotate \/ Close \/ OpenSteps
  BY <1>3, <1>4 DEF SplitterSteps, SourceFrame, SourceEnds, FlushSubgraph, PendingPacket, PassOn, Encode,
       Deposit, Gets, Reads, Rotate, Close, OpenSteps, OpenWaitsForSize, OpenWaitsForSps, OpenOut, OpenFails, Opening
<1>5. CASE WritePacket
  <2>1. savedFrames = << >>
    BY <1>5, WritingFacts
  <2> QED BY <1>3, <2>1, EmptyIn
<1>6. CASE WriteSaved
  <2>1. ppc' = "saved" /\ UNCHANGED <<packet, sourceFrames, inEncoder, uri, outputInitialized>>
    BY <1>6, WritingFacts
  <2>2. Flying' = Flying /\ Coming' = Coming
    BY <1>3, <2>1 DEF Flying, Coming
  <2>3. y \in In(savedFrames')
    BY <1>3, <2>2 DEF Ahead
  <2> QED BY <1>3, <2>1, <2>2, <2>3
<1>7. CASE QueueSteps \/ UNCHANGED flow
  <2>1. UNCHANGED <<ppc, packet, savedFrames, sourceFrames, inEncoder, uri, outputInitialized>>
    BY <1>7 DEF QueueSteps, LearnDelay, DropEarly, NextFile, ReturnFrame, ReadVideo, ReadAudio, producer,
                splitter, encoder, recorder, file, flow
  <2>2. Flying' = Flying /\ Coming' = Coming
    BY <2>1 DEF Flying, Coming
  <2> QED BY <1>3, <2>1, <2>2
<1> QED BY <1>4, <1>5, <1>6, <1>7, StepCases

LEMMA NamedStep ==
  ASSUME TypeInv, FlowInv, Comes, Named, [ReaderNext]_readerVars, UNCHANGED <<returned, knownDelay>>
  PROVE  Named'
<1>1. ASSUME written' = written PROVE Named'
  BY <1>1 DEF Named
<1>2. CASE SplitterSteps \/ QueueSteps \/ UNCHANGED flow
  BY <1>1, <1>2, FileUntouched DEF fileVars
<1>3. CASE Rotate \/ Close \/ OpenSteps
  BY <1>1, <1>3 DEF Rotate, Close, OpenSteps, OpenWaitsForSize, OpenWaitsForSps, OpenOut, OpenFails, history
<1>4. CASE WriteSaved \/ WritePacket
  <2>1. PICK p \in Ahead : WriteFrame(p)
    BY <1>4, WritingMoves
  <2>2. p \in Frame /\ p.pts \in Nat /\ outputInitialized
    BY <1>4, WritingFacts, DeliveredFacts DEF FlowInv, DeliveredInv
  <2>3. CASE Skips(p) \/ Loses(p)
    BY <1>1, <2>3 DEF Skips, Loses
  <2>4. CASE Records(p)
    <3> DEFINE e == Recorded(p)
               n == Len(written)
    <3>1. /\ DOMAIN written = 1..n /\ n \in Nat
          /\ DOMAIN written' = 1..(n + 1) /\ written'[n + 1] = e
          /\ \A i \in 1..n : written'[i] = written[i]
      BY <2>2, <2>4, WrittenGrows
    <3>2. e.file = uri /\ e.frame = p /\ e.delay = lastInputPts - p.pts
      BY DEF Recorded
    <3> HIDE DEF e, n
    <3>3. p.pts = returned.pts => e.file = returned.name \/ e.delay > knownDelay
      <4>1. CASE passthrough
        BY <2>1, <3>2, <4>1 DEF Comes, StillSaved
      <4>2. CASE ~passthrough
        BY <3>2, <4>2 DEF Comes
      <4> QED BY <4>1, <4>2
    <3>4. \A i \in 1..(n + 1) : i \in 1..n \/ i = n + 1
      BY <3>1
    <3> QED BY <3>1, <3>2, <3>3, <3>4 DEF Named
  <2> QED BY <2>1, <2>3, <2>4, WriteFrameCases
<1> QED BY <1>2, <1>3, <1>4, StepCases

LEMMA ReturnedStep ==
  ASSUME TypeInv, FlowInv, ContextInv, QueueInv, ReturnedInv, [ReaderNext]_readerVars, Onward,
         lastInputPts <= lastInputPts', TypeInv'
  PROVE  ReturnedInv'
<1> SUFFICES ASSUME Known(returned'), Regular' PROVE Comes' /\ Named'
  BY DEF ReturnedInv
<1>1. Regular /\ passthrough' = passthrough
  BY RegularBefore
<1>2. CASE ReturnFrame
  BY <1>1, <1>2, ReturningFrame
<1>3. CASE ~ReturnFrame
  <2>1. returned' = returned
    <3>1. CASE SplitterSteps \/ Rotate \/ Close \/ OpenSteps \/ UNCHANGED flow
      BY <3>1 DEF SplitterSteps, SourceFrame, SourceEnds, FlushSubgraph, RunAgain, PendingPacket, PassOn, Encode,
                  Deposit, Rotate, Close, OpenSteps, OpenWaitsForSize, OpenWaitsForSps, OpenOut, OpenFails, history, flow
    <3>2. CASE WriteSaved \/ WritePacket
      BY <3>2, WritingFacts
    <3>3. CASE QueueSteps
      BY <1>3, <3>3 DEF QueueSteps, LearnDelay, DropEarly, NextFile, ReadVideo, ReadAudio, history
    <3> QED BY <3>1, <3>2, <3>3, StepCases
  <2>2. Comes /\ Named
    BY <1>1, <2>1 DEF ReturnedInv
  <2>3. knownDelay' = knownDelay
    <3>1. CASE SplitterSteps \/ Rotate \/ Close \/ OpenSteps \/ UNCHANGED flow
      BY <3>1 DEF SplitterSteps, SourceFrame, SourceEnds, FlushSubgraph, RunAgain, PendingPacket, PassOn, Encode,
                  Deposit, Rotate, Close, OpenSteps, OpenWaitsForSize, OpenWaitsForSps, OpenOut, OpenFails, queue, flow
    <3>2. CASE WriteSaved \/ WritePacket
      BY <3>2, WritingFacts
    <3>3. CASE QueueSteps
      <4>1. ~LearnDelay
        BY <2>2 DEF Comes, LearnDelay
      <4> QED BY <1>3, <3>3, <4>1 DEF QueueSteps, DropEarly, NextFile, ReadVideo, ReadAudio, queue
    <3> QED BY <3>1, <3>2, <3>3, StepCases
  <2>4. Named'
    BY <2>1, <2>2, <2>3, NamedStep
  <2>5. returned.pts \in VideoTimes /\ returned.pts \in Nat /\ returned.pts \in VideoTimes'
    BY <2>2, VideoTimesGrow DEF Comes
  <2>6. passthrough => StillSaved'
    BY <2>1, <2>2, <2>5, StillSavedStep DEF Comes
  <2>7. ~passthrough => lastInputPts' - returned.pts > knownDelay
    <3>1. lastInputPts \in Nat /\ lastInputPts' \in Nat /\ knownDelay \in Int
      BY DEF TypeInv, EncoderTypes, SynchroniserTypes
    <3> QED BY <2>2, <2>5, <3>1 DEF Comes
  <2>8. DelayKnown'
    BY <2>2, <2>3 DEF Comes, DelayKnown
  <2>9. Comes'
    BY <1>1, <2>1, <2>3, <2>5, <2>6, <2>7, <2>8 DEF Comes
  <2> QED BY <2>4, <2>9
<1> QED BY <1>2, <1>3

-----------------------------------------------------------------------------
(***************************************************************************)
(* What is true of a frame from the moment it is given up.                 *)
(***************************************************************************)
DroppedInv ==
  Known(dropped) =>
    /\ dropped \in VideoTimes
    /\ \A y \in Ahead : y.video => dropped < y.pts
    /\ \A i \in DOMAIN written :
         written[i].frame.pts = dropped => i \in VideoIn(written, written[i].file) \ LaterIn(written, written[i].file)

LEMMA OnlyFirstDropped == TypeInv /\ FlowInv /\ DroppedInv => OnlyFirstFramesSkipped
<1> SUFFICES ASSUME TypeInv, FlowInv, DroppedInv, NEW i \in DOMAIN written, written[i].frame.pts = dropped
             PROVE  i \in VideoOf(written[i].file) \ NotFirst(written[i].file)
  BY DEF OnlyFirstFramesSkipped
<1>1. written[i].frame.pts \in Nat
  BY WrittenTypes
<1>2. Known(dropped)
  BY <1>1, NoneApart DEF Known
<1> QED BY <1>2 DEF DroppedInv, VideoOf, NotFirst, VideoIn, LaterIn

LEMMA DroppedInit == ReaderInit => DroppedInv
BY DEF ReaderInit, Init, DroppedInv, Known

\* All intervals begin behind a frame that is given up, and there is one for every file with
\* a pending frame that is not its first.
LEMMA DroppingFrame ==
  ASSUME TypeInv, FlowInv, WrittenInv, ContextInv, CoveredInv, DropEarly
  PROVE  DroppedInv'
<1> DEFINE x == Candidate
           c == Current
           n == Len(fileContexts)
<1>1. /\ frames # << >> /\ fileContexts # << >> /\ Before /\ dropped' = x.pts
      /\ UNCHANGED <<source, framesRead, ppc, packet, sourceFrames, inEncoder, savedFrames, written>>
  BY DEF DropEarly, HasCandidate, producer, splitter, encoder, recorder, file, counters
<1>2. x \in Pending /\ x \in Delivered /\ x.video /\ x.pts \in Nat
  BY <1>1, CandidateIsFirst
<1>3. n \in Nat /\ n > 0 /\ DOMAIN fileContexts = 1..n /\ c = fileContexts[1]
  <2>1. fileContexts \in Seq(Context)
    BY DEF TypeInv, SynchroniserTypes
  <2> QED BY <1>1, <2>1, LenProperties, EmptySeq DEF Current
<1>4. c \in Contexts /\ x.pts < c.start /\ c.start \in Nat
  <2>1. c \in Contexts
    BY <1>3, ContextTypes
  <2> QED BY <1>1, <2>1, ContextTypes DEF Before
<1> HIDE DEF x, c, n
<1>5. /\ VideoTimes' = VideoTimes /\ Ahead' = Ahead /\ written' = written
  BY <1>1 DEF Delivered, Flying, Coming, Ahead, VideoTimes
<1>6. x.pts \in VideoTimes
  BY <1>2 DEF VideoTimes
<1>7. PICK i \in LaterIn(written, c.name) : c.start = written[i].frame.pts
  BY <1>4 DEF ContextInv, Good, Starts
<1>8. i \in VideoIn(written, c.name) /\ i \in DOMAIN written /\ written[i].frame.video
  BY <1>7, LaterPlaces
<1>9. \A y \in Ahead : y.video => x.pts < y.pts
  <2> SUFFICES ASSUME NEW y \in Ahead, y.video PROVE x.pts < y.pts
    OBVIOUS
  <2>1. c.start < y.pts /\ y.pts \in Nat
    BY <1>7, <1>8, DeliveredFacts DEF WrittenInv, WrittenInOrder, FlowInv, DeliveredInv
  <2> QED BY <1>2, <1>4, <2>1
<1>10. \A d \in Contexts : x.pts < d.start
  <2> SUFFICES ASSUME NEW d \in Contexts PROVE x.pts < d.start
    OBVIOUS
  <2>1. PICK k \in 1..n : d = fileContexts[k]
    BY <1>3 DEF Contexts, In
  <2>2. CASE k = 1
    BY <1>3, <1>4, <2>1, <2>2
  <2>3. CASE k # 1
    <3>1. 1 \in 1..n /\ 1 < k
      BY <1>3, <2>3
    <3>2. Known(c.end) /\ c.end < d.start
      BY <1>3, <2>1, <3>1 DEF ContextInv, InTurn
    <3>3. c.start <= c.end
      BY <1>4, <1>7, <1>8, <3>2 DEF ContextInv, Good, HoldsItsFile
    <3>4. c.end \in Nat /\ d.start \in Nat
      BY <1>4, <3>2, ContextTypes DEF Known
    <3> QED BY <1>2, <1>4, <3>2, <3>3, <3>4
  <2> QED BY <2>2, <2>3
<1>11. ASSUME NEW j \in DOMAIN written, written[j].frame.pts = x.pts
       PROVE  j \in VideoIn(written, written[j].file) \ LaterIn(written, written[j].file)
  <2> DEFINE f == written[j].file
  <2>1. written[j].frame = x
    BY <1>2, <1>11, WrittenTypes, DeliveredFacts
  <2>2. j \in VideoIn(written, f)
    BY <1>2, <2>1 DEF VideoIn
  <2>3. ASSUME j \in LaterIn(written, f) PROVE FALSE
    <3>1. PICK d \in Contexts : d.name = f
      BY <1>2, <2>1, <2>3 DEF CoveredInv, Names
    <3>2. PICK k \in LaterIn(written, f) :
            d.start = written[k].frame.pts /\ \A m \in LaterIn(written, f) : k <= m
      BY <3>1 DEF ContextInv, Good, Starts
    <3>3. k \in DOMAIN written /\ written[k].frame.video /\ k <= j
      BY <2>3, <3>2, LaterPlaces
    <3>4. x.pts < d.start /\ d.start \in Nat
      BY <1>10, ContextTypes
    <3>5. k # j
      BY <1>2, <2>1, <3>2, <3>4
    <3>6. k < j
      <4>1. DOMAIN written = 1..Len(written)
        BY LenProperties DEF TypeInv, RecorderTypes
      <4>2. k \in Int /\ j \in Int
        BY <3>3, <4>1
      <4> QED BY <3>3, <3>5, <4>2
    <3>7. d.start < x.pts
      BY <1>2, <2>1, <3>2, <3>3, <3>6 DEF WrittenInv, WrittenInOrder
    <3> QED BY <1>2, <3>4, <3>7
  <2> QED BY <2>2, <2>3
<1> QED BY <1>1, <1>5, <1>6, <1>9, <1>11 DEF DroppedInv

LEMMA DroppedStep ==
  ASSUME TypeInv, FlowInv, WrittenInv, ContextInv, CoveredInv, DroppedInv, [ReaderNext]_readerVars, Onward
  PROVE  DroppedInv'
<1>1. CASE DropEarly
  BY <1>1, DroppingFrame
<1>2. CASE ~DropEarly
  <2>1. dropped' = dropped
    <3>1. CASE SplitterSteps \/ Rotate \/ Close \/ OpenSteps \/ UNCHANGED flow
      BY <3>1 DEF SplitterSteps, SourceFrame, SourceEnds, FlushSubgraph, RunAgain, PendingPacket, PassOn, Encode,
                  Deposit, Rotate, Close, OpenSteps, OpenWaitsForSize, OpenWaitsForSps, OpenOut, OpenFails, history, flow
    <3>2. CASE WriteSaved \/ WritePacket
      BY <3>2, WritingFacts
    <3>3. CASE QueueSteps
      BY <1>2, <3>3 DEF QueueSteps, LearnDelay, NextFile, ReturnFrame, ReadVideo, ReadAudio, history
    <3> QED BY <3>1, <3>2, <3>3, StepCases
  <2> SUFFICES ASSUME Known(dropped)
               PROVE  /\ dropped \in VideoTimes'
                      /\ \A y \in Ahead' : y.video => dropped < y.pts
                      /\ \A i \in DOMAIN written' :
                           written'[i].frame.pts = dropped =>
                             i \in VideoIn(written', written'[i].file) \ LaterIn(written', written'[i].file)
    BY <2>1 DEF DroppedInv
  <2>2. /\ dropped \in VideoTimes /\ \A y \in Ahead : y.video => dropped < y.pts
        /\ \A i \in DOMAIN written : written[i].frame.pts = dropped =>
             i \in VideoIn(written, written[i].file) \ LaterIn(written, written[i].file)
    BY DEF DroppedInv
  <2>3. dropped \in VideoTimes' /\ dropped \in Times
    BY <2>2, VideoTimesGrow
  <2>4. \A y \in Ahead' : y.video => dropped < y.pts
    BY <2>2, <2>3, AheadOfWritten
  <2>5. CASE SplitterSteps \/ QueueSteps \/ UNCHANGED flow \/ Rotate \/ Close \/ OpenSteps
    <3>1. written' = written
      <4>1. CASE SplitterSteps \/ QueueSteps \/ UNCHANGED flow
        BY <4>1, FileUntouched DEF fileVars
      <4>2. CASE Rotate \/ Close \/ OpenSteps
        BY <4>2 DEF Rotate, Close, OpenSteps, OpenWaitsForSize, OpenWaitsForSps, OpenOut, OpenFails, history
      <4> QED BY <2>5, <4>1, <4>2
    <3> QED BY <2>2, <2>3, <2>4, <3>1
  <2>6. CASE WriteSaved \/ WritePacket
    <3>1. PICK p \in Ahead : WriteFrame(p)
      BY <2>6, WritingMoves
    <3>2. p \in Frame /\ p \in Delivered /\ p.pts \in Nat /\ outputInitialized
      BY <2>6, <3>1, WritingFacts, DeliveredFacts DEF FlowInv, DeliveredInv
    <3>3. CASE Skips(p) \/ Loses(p)
      BY <2>2, <2>3, <2>4, <3>3 DEF Skips, Loses
    <3>4. CASE Records(p)
      <4> DEFINE e == Recorded(p)
                 n == Len(written)
      <4>1. /\ e \in Entry /\ DOMAIN written = 1..n /\ n \in Nat
            /\ DOMAIN written' = 1..(n + 1) /\ written'[n + 1] = e
            /\ \A i \in 1..n : written'[i] = written[i]
        BY <3>2, <3>4, WrittenGrows
      <4>2. e.frame = p
        BY DEF Recorded
      <4>3. written' = Append(written, e) /\ written \in Seq(Entry)
        BY <3>4 DEF Records, TypeInv, RecorderTypes
      <4> HIDE DEF e
      <4>4. p.pts # dropped
        <5>1. p.video => dropped < p.pts /\ dropped \in Nat
          BY <2>2, <3>1, VideoTimesGrow
        <5>2. p.pts = dropped => p.video
          BY <2>2, <3>2, VideoTimesGrow
        <5> QED BY <3>2, <5>1, <5>2
      <4>5. ASSUME NEW i \in 1..n, written[i].frame.pts = dropped
            PROVE  i \in VideoIn(written', written[i].file) \ LaterIn(written', written[i].file)
        <5> DEFINE f == written[i].file
        <5>1. GrowsBy(written, written', e, f)
          BY <4>1, <4>3, VideoGrows
        <5>2. i # n + 1 /\ i \in VideoIn(written, f) \ LaterIn(written, f)
          BY <2>2, <4>1, <4>5
        <5> HIDE DEF f
        <5>3. /\ VideoIn(written, f) \subseteq VideoIn(written', f)
              /\ LaterIn(written', f) \subseteq LaterIn(written, f) \cup {n + 1}
          BY <5>1 DEF GrowsBy
        <5>4. i \in VideoIn(written', f) \ LaterIn(written', f)
          BY <5>2, <5>3
        <5> QED BY <5>4 DEF f
      <4>6. ASSUME NEW i \in DOMAIN written', written'[i].frame.pts = dropped
            PROVE  i \in VideoIn(written', written'[i].file) \ LaterIn(written', written'[i].file)
        <5>1. i # n + 1
          BY <4>1, <4>2, <4>4, <4>6
        <5>2. i \in 1..n /\ written'[i] = written[i]
          BY <4>1, <5>1
        <5> QED BY <4>5, <4>6, <5>2
      <4> QED BY <2>3, <2>4, <4>6
    <3> QED BY <3>1, <3>3, <3>4, WriteFrameCases
  <2> QED BY <2>5, <2>6, StepCases
<1> QED BY <1>1, <1>2

-----------------------------------------------------------------------------
(***************************************************************************)
(* The inductive invariant, and what follows from it.                      *)
(***************************************************************************)
RecordingInv ==
  /\ TypeInv /\ FlowInv /\ NameInv /\ WrittenInv /\ ContextInv /\ CoveredInv
  /\ QueueInv /\ ReturnedInv /\ DroppedInv

LEMMA RecordingInit == ReaderInit => RecordingInv
BY TypeInit, FlowInit, NameInit, WrittenInit, ContextInit, CoveredInit, QueueInit, ReturnedInit, DroppedInit
   DEF RecordingInv

LEMMA RecordingStep == RecordingInv /\ [ReaderNext]_readerVars => RecordingInv'
<1> SUFFICES ASSUME RecordingInv, [ReaderNext]_readerVars PROVE RecordingInv'
  OBVIOUS
<1> USE DEF RecordingInv
<1>1. TypeInv'
  BY TypeStep
<1>2. FlowInv' /\ Onward
  BY FlowStep
<1>3. NameInv' /\ WrittenInv' /\ ContextInv'
  BY <1>2, NameStep, WrittenStep, ContextStep
<1>4. CoveredInv'
  BY <1>1, <1>2, <1>3, CoveredStep
<1>5. QueueInv' /\ lastInputPts <= lastInputPts'
  BY <1>2, QueueStep
<1>6. ReturnedInv'
  BY <1>1, <1>2, <1>5, ReturnedStep
<1>7. DroppedInv'
  BY <1>2, DroppedStep
<1> QED BY <1>1, <1>2, <1>3, <1>4, <1>5, <1>6, <1>7

LEMMA RecordingInvNames == RecordingInv => FramesNameTheirFile
BY NamedIsNamesItsFile, ContextsMatch, OnlyFirstDropped DEF RecordingInv, FramesNameTheirFile

\* Whatever the source delivers and the codec keeps, and wherever files are rotated, are late
\* or fail, a frame the application gets names the file it is recorded in, the synchroniser's
\* intervals are those of the files, and only first frames and unrecorded ones are given up
\* (stream_recorder_sync.cpp:133-300).
THEOREM FramesNameTheirFileHolds == ReaderSpec => []FramesNameTheirFile
<1>1. ReaderInit => RecordingInv
  BY RecordingInit
<1>2. RecordingInv /\ [ReaderNext]_readerVars => RecordingInv'
  BY RecordingStep
<1>3. RecordingInv => FramesNameTheirFile
  BY RecordingInvNames
<1> QED BY <1>1, <1>2, <1>3, PTL DEF ReaderSpec

-----------------------------------------------------------------------------
(***************************************************************************)
(* Nothing is lost on the way to a file: what is owed is the end of what   *)
(* waits.                                                                  *)
(***************************************************************************)
RestAt(at, s, w) ==
  /\ at \in [1..Len(s) -> 1..Len(w)]
  /\ \A i \in 1..Len(s) :
       /\ w[at[i]] = s[i] /\ Goes(s[i])
       /\ \A j \in 1..Len(w) : j > at[i] /\ Goes(w[j]) <=> \E k \in 1..Len(s) : k > i /\ at[k] = j

LEMMA RestIs ==
  ASSUME NEW s \in Seq(Frame), NEW w \in Seq(Frame)
  PROVE  IsRestOf(s, w) <=> \E at : RestAt(at, s, w)
<1> DEFINE RestBy(at, d, e) ==
             /\ at \in [d -> e]
             /\ \A i \in d :
                  /\ w[at[i]] = s[i] /\ Goes(s[i])
                  /\ \A j \in e : j > at[i] /\ Goes(w[j]) <=> \E k \in d : k > i /\ at[k] = j
<1>1. DOMAIN s = 1..Len(s) /\ DOMAIN w = 1..Len(w)
  BY LenProperties
<1>2. ASSUME NEW at PROVE RestAt(at, s, w) <=> RestBy(at, 1..Len(s), 1..Len(w))
  BY Zenon DEF RestAt
<1>3. IsRestOf(s, w) <=> \E at : RestBy(at, DOMAIN s, DOMAIN w)
  <2>1. ASSUME NEW at, RestBy(at, DOMAIN s, DOMAIN w) PROVE IsRestOf(s, w)
    BY <2>1, Zenon DEF IsRestOf
  <2>2. ASSUME IsRestOf(s, w) PROVE \E at : RestBy(at, DOMAIN s, DOMAIN w)
    BY <2>2, Zenon DEF IsRestOf
  <2> QED BY <2>1, <2>2
<1> HIDE DEF RestBy
<1>4. ASSUME NEW at PROVE RestBy(at, DOMAIN s, DOMAIN w) <=> RestBy(at, 1..Len(s), 1..Len(w))
  BY <1>1
<1> QED BY <1>2, <1>3, <1>4

LEMMA RestOfNothing == ASSUME NEW w \in Seq(Frame) PROVE IsRestOf(<< >>, w)
<1>1. << >> \in Seq(Frame) /\ Len(<< >>) = 0 /\ 1..0 = {}
  OBVIOUS
<1>2. [i \in {} |-> 1] \in [{} -> 1..Len(w)]
  OBVIOUS
<1>3. RestAt([i \in {} |-> 1], << >>, w)
  BY <1>1, <1>2 DEF RestAt
<1> QED BY <1>1, <1>3, RestIs

LEMMA RestGrows ==
  ASSUME NEW s \in Seq(Frame), NEW w \in Seq(Frame), NEW p \in Frame, IsRestOf(s, w), Goes(p)
  PROVE  IsRestOf(Append(s, p), Append(w, p))
<1>1. PICK at : RestAt(at, s, w)
  BY RestIs
<1> DEFINE n == Len(s)
           m == Len(w)
           new == [i \in 1..(n + 1) |-> IF i = n + 1 THEN m + 1 ELSE at[i]]
           S == Append(s, p)
           W == Append(w, p)
<1>2. /\ S \in Seq(Frame) /\ Len(S) = n + 1 /\ S[n + 1] = p /\ n \in Nat
      /\ \A i \in 1..n : S[i] = s[i]
  BY AppendFacts
<1>3. /\ W \in Seq(Frame) /\ Len(W) = m + 1 /\ W[m + 1] = p /\ m \in Nat
      /\ \A i \in 1..m : W[i] = w[i]
  BY AppendFacts
<1>4. \A i \in 1..n : at[i] \in 1..m
  BY <1>1 DEF RestAt
<1> HIDE DEF S, W, n, m
<1>5. \A i \in 1..(n + 1) : i \in 1..n \/ i = n + 1
  BY <1>2
<1>6. /\ \A i \in 1..n : i \in 1..(n + 1) /\ new[i] = at[i] /\ new[i] \in 1..m
      /\ n + 1 \in 1..(n + 1) /\ new[n + 1] = m + 1 /\ m + 1 \in 1..(m + 1)
      /\ \A j \in 1..m : j \in 1..(m + 1) /\ j < m + 1 /\ j # m + 1
      /\ \A i \in 1..n : i < n + 1
  BY <1>2, <1>3, <1>4
<1>7. new \in [1..(n + 1) -> 1..(m + 1)]
  BY <1>5, <1>6
<1> HIDE DEF new
<1>8. ASSUME NEW i \in 1..(n + 1) PROVE W[new[i]] = S[i] /\ Goes(S[i])
  <2>1. CASE i \in 1..n
    <3>1. w[at[i]] = s[i] /\ Goes(s[i])
      BY <1>1, <2>1 DEF RestAt, n
    <3> QED BY <2>1, <3>1, <1>2, <1>3, <1>6
  <2>2. CASE i = n + 1
    BY <2>2, <1>2, <1>3, <1>6
  <2> QED BY <1>5, <2>1, <2>2
<1>9. ASSUME NEW i \in 1..(n + 1), NEW j \in 1..(m + 1)
      PROVE  j > new[i] /\ Goes(W[j]) <=> \E k \in 1..(n + 1) : k > i /\ new[k] = j
  <2>1. CASE i = n + 1
    <3>1. ~(j > m + 1) /\ \A k \in 1..(n + 1) : ~(k > n + 1)
      BY <1>2, <1>3
    <3> QED BY <2>1, <3>1, <1>6
  <2>2. CASE i \in 1..n /\ j = m + 1
    <3>1. j > new[i] /\ Goes(W[j])
      BY <2>2, <1>3, <1>6
    <3>2. n + 1 > i /\ new[n + 1] = j
      BY <2>2, <1>6, <1>2
    <3> QED BY <3>1, <3>2, <1>6
  <2>3. CASE i \in 1..n /\ j \in 1..m
    <3>1. j > at[i] /\ Goes(w[j]) <=> \E k \in 1..n : k > i /\ at[k] = j
      BY <1>1, <2>3 DEF RestAt, n, m
    <3>2. (\E k \in 1..(n + 1) : k > i /\ new[k] = j) <=> \E k \in 1..n : k > i /\ at[k] = j
      BY <2>3, <1>5, <1>6
    <3>3. new[i] = at[i] /\ W[j] = w[j]
      BY <2>3, <1>3, <1>6
    <3> QED BY <3>1, <3>2, <3>3
  <2>4. j \in 1..m \/ j = m + 1
    BY <1>3
  <2> QED BY <1>5, <2>1, <2>2, <2>3, <2>4
<1>10. RestAt(new, S, W)
  BY <1>2, <1>3, <1>7, <1>8, <1>9 DEF RestAt
<1> QED BY <1>2, <1>3, <1>10, RestIs DEF S, W

LEMMA RestWaits ==
  ASSUME NEW s \in Seq(Frame), NEW w \in Seq(Frame), NEW p \in Frame, IsRestOf(s, w),
         ~Goes(p) \/ s = << >>
  PROVE  IsRestOf(s, Append(w, p))
<1> DEFINE n == Len(s)
           m == Len(w)
           W == Append(w, p)
<1>1. PICK at : RestAt(at, s, w)
  BY RestIs
<1>2. /\ W \in Seq(Frame) /\ Len(W) = m + 1 /\ W[m + 1] = p /\ m \in Nat
      /\ \A i \in 1..m : W[i] = w[i]
  BY AppendFacts
<1>3. CASE s = << >>
  BY <1>2, <1>3, RestOfNothing
<1>4. CASE s # << >>
  <2>1. ~Goes(p)
    BY <1>4
  <2> HIDE DEF W, n, m
  <2>2. /\ \A j \in 1..(m + 1) : j \in 1..m \/ j = m + 1
        /\ \A j \in 1..m : j \in 1..(m + 1) /\ j # m + 1
    BY <1>2
  <2>3. at \in [1..n -> 1..m] /\ \A i \in 1..n : at[i] \in 1..m /\ w[at[i]] = s[i] /\ Goes(s[i])
    BY <1>1 DEF RestAt, n, m
  <2>4. at \in [1..n -> 1..(m + 1)] /\ \A i \in 1..n : W[at[i]] = s[i] /\ Goes(s[i])
    BY <1>2, <2>2, <2>3
  <2>5. ASSUME NEW i \in 1..n, NEW j \in 1..(m + 1)
        PROVE  j > at[i] /\ Goes(W[j]) <=> \E k \in 1..n : k > i /\ at[k] = j
    <3>1. CASE j = m + 1
      BY <3>1, <1>2, <2>1, <2>2, <2>3
    <3>2. CASE j \in 1..m
      <4>1. j > at[i] /\ Goes(w[j]) <=> \E k \in 1..n : k > i /\ at[k] = j
        BY <1>1, <3>2 DEF RestAt, n, m
      <4> QED BY <4>1, <3>2, <1>2
    <3> QED BY <3>1, <3>2, <2>2
  <2>6. RestAt(at, s, W)
    BY <1>2, <2>4, <2>5 DEF RestAt, n
  <2> QED BY <1>2, <2>6, RestIs DEF W
<1> QED BY <1>3, <1>4

\* In a rest the places rise.
LEMMA RestRises ==
  ASSUME NEW s \in Seq(Frame), NEW w \in Seq(Frame), NEW at, RestAt(at, s, w)
  PROVE  \A i, k \in 1..Len(s) : i < k => at[i] < at[k]
<1>1. ASSUME NEW i \in 1..Len(s), NEW k \in 1..Len(s), i < k PROVE at[i] < at[k]
  <2>1. at[k] \in 1..Len(w) /\ at[i] \in 1..Len(w)
    BY DEF RestAt
  <2>2. at[k] > at[i] /\ Goes(w[at[k]]) <=> \E l \in 1..Len(s) : l > i /\ at[l] = at[k]
    BY <2>1 DEF RestAt
  <2>3. k > i /\ at[k] = at[k]
    BY <1>1
  <2> QED BY <2>1, <2>2, <2>3
<1> QED BY <1>1

LEMMA TailFacts ==
  ASSUME NEW s \in Seq(Frame), s # << >>
  PROVE  /\ Tail(s) \in Seq(Frame) /\ Head(s) = s[1] /\ Head(s) \in Frame /\ 1 \in 1..Len(s)
         /\ Len(s) \in Nat /\ Len(Tail(s)) = Len(s) - 1
         /\ \A i \in 1..(Len(s) - 1) : i + 1 \in 1..Len(s) /\ Tail(s)[i] = s[i + 1]
<1>1. Len(s) \in Nat /\ Len(s) > 0
  BY EmptySeq, LenProperties
<1>2. /\ Tail(s) \in Seq(Frame) /\ Head(s) = s[1] /\ Head(s) \in Frame /\ Len(Tail(s)) = Len(s) - 1
      /\ \A i \in 1..(Len(s) - 1) : Tail(s)[i] = s[i + 1]
  BY <1>1, HeadTailProperties
<1> QED BY <1>1, <1>2

LEMMA RestTail ==
  ASSUME NEW s \in Seq(Frame), NEW w \in Seq(Frame), w # << >>, IsRestOf(s, w),
         s # << >> => Head(s) # Head(w)
  PROVE  IsRestOf(s, Tail(w))
<1>1. PICK at : RestAt(at, s, w)
  BY RestIs
<1> DEFINE n == Len(s)
           m == Len(w)
           v == Tail(w)
           new == [i \in 1..n |-> at[i] - 1]
<1>2. /\ v \in Seq(Frame) /\ Head(w) = w[1] /\ m \in Nat /\ Len(v) = m - 1
      /\ \A i \in 1..(m - 1) : i + 1 \in 1..m /\ v[i] = w[i + 1]
  BY TailFacts
<1>3. CASE s = << >>
  BY <1>2, <1>3, RestOfNothing
<1>4. CASE s # << >>
  <2>1. Head(s) = s[1] /\ 1 \in 1..n /\ n \in Nat
    BY <1>4, TailFacts
  <2>2. \A i \in 1..n : at[i] \in 1..m /\ w[at[i]] = s[i] /\ Goes(s[i])
    BY <1>1 DEF RestAt
  <2>3. \A i \in 1..n : at[1] <= at[i]
    BY <1>1, <2>1, <2>2, RestRises
  <2> HIDE DEF n, m, v
  <2>4. at[1] # 1
    BY <1>2, <1>4, <2>1, <2>2
  <2>5. ASSUME NEW i \in 1..n
        PROVE  at[i] - 1 \in 1..(m - 1) /\ (at[i] - 1) + 1 = at[i] /\ new[i] = at[i] - 1
    <3>1. PICK a \in 1..m : a = at[i]
      BY <2>2
    <3>2. PICK b \in 1..m : b = at[1]
      BY <2>1, <2>2
    <3>3. b <= a /\ b # 1
      BY <2>3, <2>4, <3>1, <3>2
    <3>4. a - 1 \in 1..(m - 1) /\ (a - 1) + 1 = a
      BY <1>2, <3>3
    <3> QED BY <3>1, <3>4
  <2>6. new \in [1..n -> 1..(m - 1)]
    BY <2>5
  <2> HIDE DEF new
  <2>7. ASSUME NEW i \in 1..n PROVE v[new[i]] = s[i] /\ Goes(s[i])
    <3>1. PICK b \in 1..(m - 1) : b = new[i] /\ b + 1 = at[i]
      BY <2>5
    <3>2. v[b] = w[b + 1]
      BY <1>2
    <3> QED BY <2>2, <3>1, <3>2
  <2>8. ASSUME NEW i \in 1..n, NEW j \in 1..(m - 1)
        PROVE  j > new[i] /\ Goes(v[j]) <=> \E k \in 1..n : k > i /\ new[k] = j
    <3>1. j + 1 \in 1..m /\ v[j] = w[j + 1]
      BY <1>2
    <3>2. j + 1 > at[i] /\ Goes(w[j + 1]) <=> \E k \in 1..n : k > i /\ at[k] = j + 1
      BY <1>1, <3>1 DEF RestAt, n, m
    <3>3. j > new[i] <=> j + 1 > at[i]
      <4>1. PICK b \in 1..(m - 1) : b = new[i] /\ b + 1 = at[i]
        BY <2>5
      <4>2. j > b <=> j + 1 > b + 1
        BY <1>2
      <4> QED BY <4>1, <4>2
    <3>4. ASSUME NEW k \in 1..n PROVE new[k] = j <=> at[k] = j + 1
      <4>1. PICK a \in 1..m : a = at[k] /\ new[k] = a - 1
        BY <2>2, <2>5
      <4>2. a - 1 = j <=> a = j + 1
        BY <1>2
      <4> QED BY <4>1, <4>2
    <3> QED BY <3>1, <3>2, <3>3, <3>4
  <2>9. RestAt(new, s, v)
    BY <1>2, <2>6, <2>7, <2>8 DEF RestAt, n
  <2> QED BY <1>2, <2>9, RestIs DEF v
<1> QED BY <1>3, <1>4

LEMMA RestWithout ==
  ASSUME NEW s \in Seq(Frame), NEW w \in Seq(Frame), w # << >>, IsRestOf(s, w)
  PROVE  Without(s, Head(w)) \in Seq(Frame) /\ IsRestOf(Without(s, Head(w)), Tail(w))
<1>1. CASE s # << >> /\ Head(s) = Head(w)
  <2>1. PICK at : RestAt(at, s, w)
    BY RestIs
  <2> DEFINE n == Len(s)
             m == Len(w)
             t == Tail(s)
             v == Tail(w)
             new == [i \in 1..(n - 1) |-> at[i + 1] - 1]
  <2>2. /\ v \in Seq(Frame) /\ m \in Nat /\ Len(v) = m - 1
        /\ \A i \in 1..(m - 1) : i + 1 \in 1..m /\ v[i] = w[i + 1]
    BY TailFacts
  <2>3. /\ t \in Seq(Frame) /\ n \in Nat /\ Len(t) = n - 1 /\ 1 \in 1..n
        /\ \A i \in 1..(n - 1) : i + 1 \in 1..n /\ t[i] = s[i + 1]
    BY <1>1, TailFacts
  <2>4. \A i \in 1..n : at[i] \in 1..m /\ w[at[i]] = s[i] /\ Goes(s[i])
    BY <2>1 DEF RestAt
  <2>5. \A i \in 1..(n - 1) : at[1] < at[i + 1]
    <3>1. \A i \in 1..(n - 1) : i + 1 \in 1..n /\ 1 < i + 1
      BY <2>3
    <3> QED BY <2>1, <2>3, <3>1, RestRises
  <2> HIDE DEF n, m, t, v
  <2>6. ASSUME NEW i \in 1..(n - 1)
        PROVE  at[i + 1] - 1 \in 1..(m - 1) /\ (at[i + 1] - 1) + 1 = at[i + 1] /\ new[i] = at[i + 1] - 1
    <3>1. PICK a \in 1..m : a = at[i + 1]
      BY <2>3, <2>4
    <3>2. PICK b \in 1..m : b = at[1]
      BY <2>3, <2>4
    <3>3. b < a
      BY <2>5, <3>1, <3>2
    <3>4. a - 1 \in 1..(m - 1) /\ (a - 1) + 1 = a
      BY <2>2, <3>3
    <3> QED BY <3>1, <3>4
  <2>7. new \in [1..(n - 1) -> 1..(m - 1)]
    BY <2>6
  <2> HIDE DEF new
  <2>8. ASSUME NEW i \in 1..(n - 1) PROVE v[new[i]] = t[i] /\ Goes(t[i])
    <3>1. v[new[i]] = w[at[i + 1]]
      BY <2>2, <2>6
    <3>2. t[i] = s[i + 1] /\ i + 1 \in 1..n
      BY <2>3
    <3> QED BY <2>4, <3>1, <3>2
  <2>9. ASSUME NEW i \in 1..(n - 1), NEW j \in 1..(m - 1)
        PROVE  j > new[i] /\ Goes(v[j]) <=> \E k \in 1..(n - 1) : k > i /\ new[k] = j
    <3>1. j + 1 \in 1..m /\ v[j] = w[j + 1] /\ i + 1 \in 1..n
      BY <2>2, <2>3
    <3>2. j + 1 > at[i + 1] /\ Goes(w[j + 1]) <=> \E k \in 1..n : k > i + 1 /\ at[k] = j + 1
      BY <2>1, <3>1 DEF RestAt, n, m
    <3>a. ASSUME NEW k \in 1..(n - 1)
          PROVE  /\ new[k] = j <=> at[k + 1] = j + 1
                 /\ j > new[k] <=> j + 1 > at[k + 1]
      <4>1. k + 1 \in 1..n
        BY <2>3
      <4>2. PICK a \in 1..m : a = at[k + 1] /\ new[k] = a - 1
        BY <4>1, <2>4, <2>6
      <4>3. (a - 1 = j <=> a = j + 1) /\ (j > a - 1 <=> j + 1 > a)
        BY <2>2
      <4> QED BY <4>2, <4>3
    <3>3. j > new[i] <=> j + 1 > at[i + 1]
      BY <3>a
    <3>4. \A k \in 1..(n - 1) : new[k] = j <=> at[k + 1] = j + 1
      BY <3>a
    <3>5. \A k \in 1..n : k > i + 1 => k - 1 \in 1..(n - 1) /\ k - 1 > i /\ (k - 1) + 1 = k
      BY <2>3
    <3>6. \A k \in 1..(n - 1) : k > i => k + 1 \in 1..n /\ k + 1 > i + 1
      BY <2>3
    <3>7. (\E k \in 1..n : k > i + 1 /\ at[k] = j + 1) <=> \E k \in 1..(n - 1) : k > i /\ new[k] = j
      BY <3>4, <3>5, <3>6
    <3> QED BY <3>1, <3>2, <3>3, <3>7
  <2>10. RestAt(new, t, v)
    <3>1. Len(t) = n - 1 /\ Len(v) = m - 1
      BY <2>2, <2>3
    <3> QED BY <3>1, <2>7, <2>8, <2>9 DEF RestAt
  <2>11. IsRestOf(t, v) /\ t \in Seq(Frame)
    BY <2>2, <2>3, <2>10, RestIs
  <2> QED BY <1>1, <2>11 DEF Without, t, v
<1>2. CASE ~(s # << >> /\ Head(s) = Head(w))
  <2>1. Without(s, Head(w)) = s
    BY <1>2 DEF Without
  <2>2. IsRestOf(s, Tail(w))
    BY <1>2, RestTail
  <2> QED BY <2>1, <2>2
<1> QED BY <1>1, <1>2

\* Until a file is open nothing was written in vain, and what is owed begins with a keyframe; a file
\* that has just been closed is followed by one that begins with the keyframe in hand.
Clean == failures = 0 /\ spsFromSource
OwedBeginsWithKey == owed # << >> /\ ~Known(firstPts) /\ ppc # "closed" => owed[1].key
SizeStaysKnown == outputInitialized \/ written # << >> => sizeKnown
KeyFollows ==
  ~Known(firstPts) /\ written # << >> /\ ppc # "closed" =>
    ppc \in {"reopen", "saved"} /\ savedFrames = << >> /\ packet.key
BegunIsOpen == Known(firstPts) => outputInitialized /\ \E i \in DOMAIN written : written[i].file = uri
EachStartsWithKey == \A i \in DOMAIN written : StartsWithKey(i)
NothingLost == ppc # "closed" => IsRestOf(owed, Waiting)
WholeInv ==
  /\ failures \in Nat /\ owed \in Seq(Frame)
  /\ Clean => NothingLost /\ OwedBeginsWithKey /\ SizeStaysKnown /\ KeyFollows /\ BegunIsOpen /\ EachStartsWithKey

LEMMA WholeInvSays == WholeInv => RecordingIsWhole
BY DEF WholeInv, Clean, NothingLost, EachStartsWithKey, RecordingIsWhole

LEMMA WholeInit == ReaderInit => WholeInv
<1> SUFFICES ASSUME ReaderInit PROVE WholeInv
  OBVIOUS
<1>1. /\ owed = << >> /\ written = << >> /\ firstPts = None /\ savedFrames = << >> /\ outputInitialized = FALSE
      /\ ppc = "source" /\ failures = 0
  BY DEF ReaderInit, Init, SplitterInit, RecorderInit
<1>2. << >> \in Seq(Frame) /\ << >> \o << >> = << >> /\ DOMAIN << >> = {}
  OBVIOUS
<1>3. Waiting = << >>
  BY <1>1, <1>2 DEF Waiting, InFlight
<1>4. NothingLost
  BY <1>1, <1>2, <1>3, RestOfNothing DEF NothingLost
<1>5. OwedBeginsWithKey /\ SizeStaysKnown /\ KeyFollows /\ BegunIsOpen
  BY <1>1 DEF OwedBeginsWithKey, SizeStaysKnown, KeyFollows, BegunIsOpen, Known
<1>6. EachStartsWithKey
  BY <1>1, <1>2 DEF EachStartsWithKey
<1> QED BY <1>1, <1>2, <1>4, <1>5, <1>6 DEF WholeInv

WaitingSays ==
  /\ Waiting \in Seq(Frame)
  /\ ppc \notin Holding => Waiting = savedFrames
  /\ ppc \in Holding => Waiting = Append(savedFrames, packet)

LEMMA WaitingIs == TypeInv => WaitingSays
<1> SUFFICES ASSUME TypeInv PROVE WaitingSays
  OBVIOUS
<1> USE DEF WaitingSays
<1>1. savedFrames \in Seq(Frame) /\ (ppc \in Holding => packet \in Frame)
  BY DEF TypeInv, RecorderTypes, SplitterTypes
<1>2. CASE ppc \notin Holding
  <2>1. savedFrames \o << >> = savedFrames
    BY <1>1
  <2> QED BY <1>1, <1>2, <2>1 DEF Waiting, InFlight, Holding
<1>3. CASE ppc \in Holding
  <2>1. savedFrames \o <<packet>> = Append(savedFrames, packet) /\ Append(savedFrames, packet) \in Seq(Frame)
    BY <1>1, <1>3, AppendIsConcat, AppendProperties
  <2> QED BY <1>1, <1>3, <2>1 DEF Waiting, InFlight, Holding
<1> QED BY <1>2, <1>3

LEMMA WaitingThen == TypeInv' => WaitingSays'
BY WaitingIs, PTL

LEMMA KeysAreVideo ==
  ASSUME TypeInv PROVE \A x \in Delivered : x.key => x.video
<1>1. /\ framesRead \in 0..Len(source) /\ Len(source) \in Nat
      /\ \A i \in 1..Len(source) : source[i].key => source[i].video
  BY SourceFacts DEF TypeInv, SplitterTypes
<1>2. \A i \in 1..framesRead : i \in 1..Len(source)
  BY <1>1
<1> QED BY <1>1, <1>2 DEF Delivered

\* What the invariant speaks of, besides the number of failures, and what a packet on its way changes of it.
recording == <<spsFromSource, recordsAudio, savedFrames, firstPts, written, outputInitialized, uri, sizeKnown>>

LEMMA RecordingKept ==
  ASSUME UNCHANGED recording
  PROVE  /\ spsFromSource' = spsFromSource /\ recordsAudio' = recordsAudio /\ savedFrames' = savedFrames
         /\ firstPts' = firstPts /\ written' = written /\ outputInitialized' = outputInitialized
         /\ uri' = uri /\ sizeKnown' = sizeKnown
         /\ SizeStaysKnown => SizeStaysKnown'
         /\ BegunIsOpen => BegunIsOpen'
         /\ EachStartsWithKey => EachStartsWithKey'
BY DEF recording, SizeStaysKnown, BegunIsOpen, EachStartsWithKey, StartsWithKey, Known

LEMMA RestNext ==
  ASSUME NEW s, NEW w, recordsAudio' = recordsAudio, owed' = s, Waiting' = w, IsRestOf(s, w)
  PROVE  IsRestOf(owed, Waiting)'
BY DEF IsRestOf, Goes

\* Nothing is offered, and the packet in hand stays or has gone into a file.
LEMMA PassingKeepsWhole ==
  ASSUME TypeInv, WholeInv, TypeInv',
         ppc \notin Holding \cup {"closed"}, ppc' \notin Holding \cup {"closed"},
         UNCHANGED recording, owed' = owed, failures' \in {failures, failures + 1}
  PROVE  WholeInv'
<1>1. failures' \in Nat /\ owed' \in Seq(Frame) /\ (failures' = 0 => failures = 0)
  BY DEF WholeInv
<1>2. SUFFICES ASSUME Clean'
      PROVE  NothingLost' /\ OwedBeginsWithKey' /\ SizeStaysKnown' /\ KeyFollows' /\ BegunIsOpen' /\ EachStartsWithKey'
  BY <1>1, <1>2 DEF WholeInv
<1>3. Clean
  BY <1>1, <1>2, RecordingKept DEF Clean
<1>4. NothingLost /\ OwedBeginsWithKey /\ SizeStaysKnown /\ KeyFollows /\ BegunIsOpen /\ EachStartsWithKey
  BY <1>3 DEF WholeInv
<1>5. NothingLost'
  <2>1. PICK s, w : s = owed /\ w = Waiting
    OBVIOUS
  <2>a. Waiting = savedFrames
    BY WaitingIs DEF WaitingSays
  <2>b. Waiting' = savedFrames'
    BY WaitingThen DEF WaitingSays
  <2>2. Waiting' = w
    BY <2>1, <2>a, <2>b, RecordingKept
  <2>3. IsRestOf(s, w)
    BY <1>4, <2>1 DEF NothingLost
  <2> QED BY <2>1, <2>2, <2>3, RestNext, RecordingKept DEF NothingLost
<1>6. OwedBeginsWithKey'
  BY <1>4, RecordingKept DEF OwedBeginsWithKey, Known
<1>7. KeyFollows'
  BY <1>4, RecordingKept DEF KeyFollows, Known, Holding
<1> QED BY <1>4, <1>5, <1>6, <1>7, RecordingKept

\* The recorder reads a packet.
LEMMA OfferKeepsWhole ==
  ASSUME TypeInv, WholeInv, TypeInv', FlowInv', NEW p \in Frame, Offer(p), ppc \in {"encoder", "retry"},
         UNCHANGED recording, failures' = failures
  PROVE  WholeInv'
<1>1. packet' = p /\ ppc' = "check" /\ owed' = IF Owes(p) THEN Append(owed, p) ELSE owed
  BY DEF Offer
<1>2. owed \in Seq(Frame) /\ owed' \in Seq(Frame) /\ failures' \in Nat
  BY <1>1, AppendFacts DEF WholeInv
<1>3. SUFFICES ASSUME Clean'
      PROVE  NothingLost' /\ OwedBeginsWithKey' /\ SizeStaysKnown' /\ KeyFollows' /\ BegunIsOpen' /\ EachStartsWithKey'
  BY <1>2, <1>3 DEF WholeInv
<1>4. Clean
  BY <1>3, RecordingKept DEF Clean
<1>5. NothingLost /\ OwedBeginsWithKey /\ SizeStaysKnown /\ KeyFollows /\ BegunIsOpen /\ EachStartsWithKey
  BY <1>4 DEF WholeInv
<1>6. ~Known(firstPts) => written = << >>
  BY <1>5 DEF KeyFollows
<1>7. p.key => p.video
  <2>1. p \in Delivered'
    BY <1>1 DEF FlowInv, DeliveredInv, Ahead, Flying, Holding
  <2>2. (\A x \in Delivered : x.key => x.video)'
    BY KeysAreVideo, PTL
  <2> QED BY <2>1, <2>2
<1>8. NothingLost'
  <2>1. PICK s, w : s = owed /\ w = Waiting
    OBVIOUS
  <2>2. /\ s \in Seq(Frame) /\ w \in Seq(Frame) /\ IsRestOf(s, w) /\ Waiting' = Append(w, p)
    <3>1. w = savedFrames /\ w \in Seq(Frame)
      BY <2>1, WaitingIs DEF WaitingSays, Holding
    <3>2. Waiting' = Append(savedFrames', packet')
      BY <1>1, WaitingThen DEF WaitingSays, Holding
    <3> QED BY <1>1, <1>2, <1>5, <2>1, <3>1, <3>2, RecordingKept DEF NothingLost
  <2>3. CASE Owes(p)
    <3>1. Goes(p)
      BY <1>7, <2>3 DEF Owes, Goes
    <3>2. IsRestOf(Append(s, p), Append(w, p))
      BY <2>2, <3>1, RestGrows
    <3>3. owed' = Append(s, p)
      BY <1>1, <2>1, <2>3
    <3> QED BY <2>2, <3>2, <3>3, RestNext, RecordingKept DEF NothingLost
  <2>4. CASE ~Owes(p)
    <3>1. ~Goes(p) \/ s = << >>
      BY <2>1, <2>4 DEF Owes, Goes
    <3>2. IsRestOf(s, Append(w, p))
      BY <2>2, <3>1, RestWaits
    <3>3. owed' = s
      BY <1>1, <2>1, <2>4
    <3> QED BY <2>2, <3>2, <3>3, RestNext, RecordingKept DEF NothingLost
  <2> QED BY <2>3, <2>4
<1>9. OwedBeginsWithKey'
  <2> SUFFICES ASSUME owed' # << >>, ~Known(firstPts') PROVE owed'[1].key
    BY DEF OwedBeginsWithKey, Known
  <2>1. firstPts' = firstPts /\ ~Known(firstPts) /\ written = << >>
    BY <1>6, RecordingKept DEF Known
  <2>2. CASE owed = << >>
    <3>1. Owes(p) /\ owed' = Append(owed, p)
      BY <1>1, <2>2
    <3>2. p.key
      BY <3>1, <2>1, <2>2 DEF Owes
    <3>3. Append(<< >>, p)[1] = p
      OBVIOUS
    <3> QED BY <2>2, <3>1, <3>2, <3>3
  <2>3. CASE owed # << >>
    <3>1. owed[1].key
      BY <1>5, <2>1, <2>3 DEF OwedBeginsWithKey
    <3>2. owed'[1] = owed[1]
      <4>1. 1 \in 1..Len(owed)
        BY <1>2, <2>3, TailFacts
      <4> QED BY <1>1, <1>2, <4>1, AppendFacts
    <3> QED BY <3>1, <3>2
  <2> QED BY <2>2, <2>3
<1>10. KeyFollows'
  BY <1>6, RecordingKept DEF KeyFollows, Known
<1> QED BY <1>5, <1>8, <1>9, <1>10, RecordingKept

\* A keyframe begins the next file.
LEMMA RotateKeepsWhole ==
  ASSUME TypeInv, WholeInv, TypeInv', Rotate PROVE WholeInv'
<1>1. /\ ppc = "check" /\ ppc' = "reopen" /\ outputInitialized /\ packet.key
      /\ savedFrames' = << >> /\ firstPts' = None /\ outputInitialized' = FALSE
      /\ UNCHANGED <<packet, owed, written, failures, spsFromSource, recordsAudio, sizeKnown>>
  BY DEF Rotate, CloseOut, Reset, CanStartNewFile, counters, history
<1>2. savedFrames = << >>
  BY <1>1 DEF TypeInv, OpenInv
<1>3. owed' \in Seq(Frame) /\ failures' \in Nat
  BY <1>1 DEF WholeInv
<1>4. SUFFICES ASSUME Clean'
      PROVE  NothingLost' /\ OwedBeginsWithKey' /\ SizeStaysKnown' /\ KeyFollows' /\ BegunIsOpen' /\ EachStartsWithKey'
  BY <1>3, <1>4 DEF WholeInv
<1>5. Clean
  BY <1>1, <1>4 DEF Clean
<1>6. NothingLost /\ SizeStaysKnown /\ EachStartsWithKey
  BY <1>5 DEF WholeInv
<1>7. PICK s, w : s = owed /\ w = Waiting
  OBVIOUS
<1>8. w = <<packet>> /\ packet \in Frame
  <2>1. packet \in Frame
    BY <1>1 DEF TypeInv, SplitterTypes, Holding
  <2>2. Append(<< >>, packet) = <<packet>>
    OBVIOUS
  <2> QED BY <1>1, <1>2, <1>7, <2>1, <2>2, WaitingIs DEF WaitingSays, Holding
<1>9. Waiting' = w
  <2>1. Waiting' = Append(savedFrames', packet')
    BY <1>1, WaitingThen DEF WaitingSays, Holding
  <2>2. Append(<< >>, packet) = <<packet>>
    OBVIOUS
  <2> QED BY <1>1, <1>8, <2>1, <2>2
<1>10. IsRestOf(s, w) /\ s \in Seq(Frame) /\ w \in Seq(Frame)
  BY <1>1, <1>6, <1>7, WaitingIs DEF NothingLost, WaitingSays, WholeInv
<1>11. NothingLost'
  BY <1>1, <1>7, <1>9, <1>10, RestNext DEF NothingLost
<1>12. OwedBeginsWithKey'
  <2>1. ASSUME s # << >> PROVE s[1].key
    <3>1. PICK at : RestAt(at, s, w)
      BY <1>10, RestIs
    <3>2. 1 \in 1..Len(s)
      BY <1>10, <2>1, TailFacts
    <3>3. at[1] \in 1..Len(w) /\ w[at[1]] = s[1]
      BY <3>1, <3>2 DEF RestAt
    <3>4. Len(w) = 1 /\ w[1] = packet
      BY <1>8
    <3>5. at[1] = 1
      BY <3>3, <3>4
    <3> QED BY <1>1, <3>3, <3>4, <3>5
  <2> QED BY <1>1, <1>7, <2>1 DEF OwedBeginsWithKey
<1>13. SizeStaysKnown'
  BY <1>1, <1>6 DEF SizeStaysKnown
<1>14. KeyFollows'
  BY <1>1 DEF KeyFollows
<1>15. BegunIsOpen'
  BY <1>1 DEF BegunIsOpen, Known
<1>16. EachStartsWithKey'
  BY <1>1, <1>6 DEF EachStartsWithKey, StartsWithKey
<1> QED BY <1>11, <1>12, <1>13, <1>14, <1>15, <1>16

LEMMA CloseKeepsWhole ==
  ASSUME TypeInv, WholeInv, Close PROVE WholeInv'
<1>1. /\ ppc' = "closed" /\ firstPts' = None /\ outputInitialized' = FALSE
      /\ UNCHANGED <<owed, written, failures, spsFromSource, sizeKnown>>
  BY DEF Close, CloseOut, Reset, counters, history
<1>2. owed' \in Seq(Frame) /\ failures' \in Nat
  BY <1>1 DEF WholeInv
<1>3. SUFFICES ASSUME Clean'
      PROVE  NothingLost' /\ OwedBeginsWithKey' /\ SizeStaysKnown' /\ KeyFollows' /\ BegunIsOpen' /\ EachStartsWithKey'
  BY <1>2, <1>3 DEF WholeInv
<1>4. Clean
  BY <1>1, <1>3 DEF Clean
<1>5. SizeStaysKnown /\ EachStartsWithKey
  BY <1>4 DEF WholeInv
<1>6. NothingLost' /\ OwedBeginsWithKey' /\ KeyFollows'
  BY <1>1 DEF NothingLost, OwedBeginsWithKey, KeyFollows
<1>7. SizeStaysKnown' /\ BegunIsOpen'
  BY <1>1, <1>5 DEF SizeStaysKnown, BegunIsOpen, Known
<1>8. EachStartsWithKey'
  BY <1>1, <1>5 DEF EachStartsWithKey, StartsWithKey
<1> QED BY <1>6, <1>7, <1>8

\* While no file is open, the packet in hand is offered to the next.
LEMMA OpenKeepsWhole ==
  ASSUME TypeInv, WholeInv, TypeInv', OpenSteps PROVE WholeInv'
<1>1. Opening
  BY DEF OpenSteps, OpenWaitsForSize, OpenWaitsForSps, OpenOut, OpenFails
<1>2. ~outputInitialized /\ packet \in Frame /\ ppc \in {"check", "open", "reopen"}
  BY <1>1, OpeningFacts
<1>3. /\ UNCHANGED <<packet, owed, written, spsFromSource, recordsAudio>>
      /\ failures' \in {failures, failures + 1}
  BY DEF OpenSteps, OpenWaitsForSize, OpenWaitsForSps, OpenOut, OpenFails, Fails, parameters, counters, history
<1>4. owed' \in Seq(Frame) /\ failures' \in Nat /\ (failures' = 0 => failures = 0)
  BY <1>3 DEF WholeInv
<1>5. SUFFICES ASSUME Clean'
      PROVE  NothingLost' /\ OwedBeginsWithKey' /\ SizeStaysKnown' /\ KeyFollows' /\ BegunIsOpen' /\ EachStartsWithKey'
  BY <1>4, <1>5 DEF WholeInv
<1>6. Clean
  BY <1>3, <1>4, <1>5 DEF Clean
<1>7. NothingLost /\ OwedBeginsWithKey /\ SizeStaysKnown /\ KeyFollows /\ BegunIsOpen /\ EachStartsWithKey
  BY <1>6 DEF WholeInv
<1>8. ~Known(firstPts) /\ ppc # "closed"
  BY <1>2, <1>7 DEF BegunIsOpen
<1>9. PICK s, w : s = owed /\ w = Waiting
  OBVIOUS
<1>10. w = Append(savedFrames, packet) /\ IsRestOf(s, w)
  BY <1>2, <1>7, <1>8, <1>9, WaitingIs DEF WaitingSays, Holding, NothingLost
<1>11. EachStartsWithKey'
  BY <1>3, <1>7 DEF EachStartsWithKey, StartsWithKey
<1>12. CASE OpenWaitsForSize
  <2>1. /\ UNCHANGED <<firstPts, outputInitialized>> /\ ~sizeKnown
        /\ \/ savedFrames' = Append(savedFrames, packet) /\ ppc' \in {"deposit", "encoder"}
           \/ savedFrames' = savedFrames /\ ppc' = "open"
    BY <1>12 DEF OpenWaitsForSize, LeaveUnopened
  <2>2. written = << >>
    BY <1>7, <2>1 DEF SizeStaysKnown
  <2>3. Waiting' = w
    BY <1>3, <1>10, <2>1, WaitingThen DEF WaitingSays, Holding
  <2>4. NothingLost'
    BY <1>3, <1>9, <1>10, <2>3, RestNext DEF NothingLost
  <2>5. OwedBeginsWithKey'
    BY <1>3, <1>7, <1>8, <2>1 DEF OwedBeginsWithKey
  <2>6. SizeStaysKnown' /\ KeyFollows' /\ BegunIsOpen'
    BY <1>2, <1>3, <1>8, <2>1, <2>2 DEF SizeStaysKnown, KeyFollows, BegunIsOpen, Known
  <2> QED BY <1>11, <2>4, <2>5, <2>6
<1>13. CASE OpenWaitsForSps
  BY <1>6, <1>13 DEF OpenWaitsForSps, FoundSps, Clean
<1>14. CASE OpenOut
  <2>1. /\ UNCHANGED <<firstPts, sizeKnown>> /\ sizeKnown /\ ppc' = "saved" /\ savedFrames' = SavedSinceKey
    BY <1>14 DEF OpenOut
  <2>2. savedFrames' = savedFrames
    BY <1>6, <2>1 DEF SavedSinceKey, Clean
  <2>3. Waiting' = w
    BY <1>3, <1>10, <2>1, <2>2, WaitingThen DEF WaitingSays, Holding
  <2>4. NothingLost'
    BY <1>3, <1>9, <1>10, <2>3, RestNext DEF NothingLost
  <2>5. OwedBeginsWithKey'
    BY <1>3, <1>7, <1>8, <2>1 DEF OwedBeginsWithKey
  <2>6. SizeStaysKnown' /\ BegunIsOpen'
    BY <1>8, <2>1 DEF SizeStaysKnown, BegunIsOpen, Known
  <2>7. KeyFollows'
    BY <1>3, <1>7, <1>8, <2>1, <2>2 DEF KeyFollows, Known
  <2> QED BY <1>11, <2>4, <2>5, <2>6, <2>7
<1>15. CASE OpenFails
  <2>1. failures' = failures + 1
    BY <1>15 DEF OpenFails, Fails
  <2> QED BY <1>5, <1>6, <2>1 DEF Clean
<1> QED BY <1>12, <1>13, <1>14, <1>15 DEF OpenSteps

\* What writing the first packet that waits leaves to be written.
Leaves(p) ==
  \/ UNCHANGED <<firstPts, written, owed, failures>> /\ (~Goes(p) \/ (~Known(firstPts) /\ ~p.key))
  \/ failures' = failures + 1 /\ owed' = owed
  \/ /\ written' = Append(written, Recorded(p)) /\ owed' = Without(owed, p) /\ failures' = failures
     /\ Known(firstPts') /\ (~Known(firstPts) => p.key)

LEMMA WritingLeaves ==
  ASSUME NEW p \in Frame, WriteFrame(p) PROVE Leaves(p)
<1>1. Known(p.pts)
  BY NoneApart, FrameParts DEF Known
<1>2. CASE Ignored(p) \/ LeadIn(p)
  <2>1. ~Goes(p) \/ (~Known(firstPts) /\ ~p.key)
    BY <1>2 DEF Ignored, LeadIn, Goes
  <2>2. UNCHANGED <<firstPts, written, owed, failures>>
    BY <1>2 DEF WriteFrame
  <2> QED BY <2>1, <2>2 DEF Leaves
<1>3. CASE ~Ignored(p) /\ ~LeadIn(p)
  <2>1. Known(firstPts') /\ (~Known(firstPts) => p.key)
    BY <1>1, <1>3 DEF WriteFrame, LeadIn
  <2>2. \/ failures' = failures + 1 /\ owed' = owed
        \/ written' = Append(written, Recorded(p)) /\ owed' = Without(owed, p) /\ failures' = failures
    BY <1>3 DEF WriteFrame, Fails, Recorded
  <2> QED BY <2>1, <2>2 DEF Leaves
<1> QED BY <1>2, <1>3

LEMMA WritingRest ==
  ASSUME NEW s \in Seq(Frame), NEW w \in Seq(Frame), w # << >>, s = owed, IsRestOf(s, w),
         OwedBeginsWithKey, ppc # "closed", failures \in Nat, failures' = failures, Leaves(Head(w))
  PROVE  owed' \in Seq(Frame) /\ IsRestOf(owed', Tail(w))
<1>1. CASE UNCHANGED <<firstPts, written, owed, failures>> /\ (~Goes(Head(w)) \/ (~Known(firstPts) /\ ~Head(w).key))
  <2>1. ASSUME s # << >> PROVE Head(s) # Head(w)
    <3>1. Head(s) = s[1] /\ 1 \in 1..Len(s)
      BY <2>1, TailFacts
    <3>2. Goes(s[1])
      <4>1. PICK at : RestAt(at, s, w)
        BY RestIs
      <4> QED BY <3>1, <4>1 DEF RestAt
    <3>3. ~Known(firstPts) => s[1].key
      BY <2>1 DEF OwedBeginsWithKey
    <3> QED BY <1>1, <3>1, <3>2, <3>3
  <2>2. IsRestOf(s, Tail(w))
    BY <2>1, RestTail
  <2> QED BY <1>1, <2>2
<1>2. CASE owed' = Without(owed, Head(w))
  BY <1>2, RestWithout
<1> QED BY <1>1, <1>2 DEF Leaves

\* A packet is written.
LEMMA WriteKeepsWhole ==
  ASSUME TypeInv, FlowInv, WholeInv, TypeInv', WriteSaved \/ WritePacket PROVE WholeInv'
<1> DEFINE p == IF ppc = "saved" /\ savedFrames # << >> THEN Head(savedFrames) ELSE packet
<1>1. /\ outputInitialized /\ uri \in Nat /\ packet \in Frame /\ ppc \in {"check", "saved"}
      /\ ppc = "check" => savedFrames = << >>
      /\ UNCHANGED <<outputInitialized, uri, packet>>
  BY WritingFacts DEF TypeInv, OpenInv, SplitterTypes, Holding
<1>2. /\ WriteFrame(p) /\ p \in Frame
      /\ WriteSaved => ppc' = "saved" /\ p = Head(savedFrames) /\ savedFrames # << >> /\ savedFrames' = Tail(savedFrames)
      /\ WritePacket => ppc' = "encoder" /\ p = packet /\ savedFrames = << >> /\ savedFrames' = << >>
  BY WritingFacts
<1>3. UNCHANGED <<spsFromSource, recordsAudio, sizeKnown>>
  BY DEF WriteSaved, WritePacket, parameters
<1> HIDE DEF p
<1>4. Leaves(p)
  BY <1>2, WritingLeaves
<1>5. failures \in Nat /\ owed \in Seq(Frame) /\ failures' \in {failures, failures + 1}
  BY <1>4 DEF WholeInv, Leaves
<1>6. PICK s, w : s = owed /\ w = Waiting
  OBVIOUS
<1>7. /\ w = Append(savedFrames, packet) /\ w \in Seq(Frame) /\ w # << >> /\ s \in Seq(Frame)
      /\ savedFrames \in Seq(Frame)
  <2>1. savedFrames \in Seq(Frame)
    BY DEF TypeInv, RecorderTypes
  <2>2. w = Append(savedFrames, packet) /\ w \in Seq(Frame)
    BY <1>1, <1>6, WaitingIs DEF WaitingSays, Holding
  <2> QED BY <1>1, <1>5, <1>6, <2>1, <2>2, AppendFacts
<1>8. Head(w) = p /\ Waiting' = Tail(w)
  <2>1. CASE WriteSaved
    <3>1. Head(w) = Head(savedFrames) /\ Tail(w) = Append(Tail(savedFrames), packet)
      BY <1>1, <1>2, <1>7, <2>1
    <3>2. Waiting' = Append(savedFrames', packet')
      BY <1>2, <2>1, WaitingThen DEF WaitingSays, Holding
    <3> QED BY <1>1, <1>2, <2>1, <3>1, <3>2
  <2>2. CASE WritePacket
    <3>1. w = <<packet>>
      BY <1>2, <1>7, <2>2
    <3>2. Waiting' = << >>
      BY <1>2, <2>2, WaitingThen DEF WaitingSays, Holding
    <3> QED BY <1>2, <2>2, <3>1, <3>2
  <2> QED BY <2>1, <2>2
<1>9. owed' \in Seq(Frame) /\ failures' \in Nat
  <2>1. Without(owed, p) \in Seq(Frame)
    BY <1>5, TailFacts DEF Without
  <2> QED BY <1>4, <1>5, <2>1 DEF Leaves
<1>10. SUFFICES ASSUME Clean'
       PROVE  NothingLost' /\ OwedBeginsWithKey' /\ SizeStaysKnown' /\ KeyFollows' /\ BegunIsOpen' /\ EachStartsWithKey'
  BY <1>9, <1>10 DEF WholeInv
<1>11. Clean /\ failures' = failures
  BY <1>3, <1>5, <1>10 DEF Clean
<1>12. NothingLost /\ OwedBeginsWithKey /\ SizeStaysKnown /\ KeyFollows /\ BegunIsOpen /\ EachStartsWithKey
  BY <1>11 DEF WholeInv
<1>13. NothingLost'
  <2>1. IsRestOf(s, w)
    BY <1>1, <1>6, <1>12 DEF NothingLost
  <2>2. IsRestOf(owed', Tail(w))
    BY <1>1, <1>4, <1>5, <1>6, <1>7, <1>8, <1>11, <1>12, <2>1, WritingRest
  <2>3. PICK t, v : t = owed' /\ v = Tail(w)
    OBVIOUS
  <2> QED BY <1>3, <1>8, <2>2, <2>3, RestNext DEF NothingLost
<1>14. SizeStaysKnown'
  BY <1>1, <1>3, <1>12 DEF SizeStaysKnown
<1>15. CASE UNCHANGED <<firstPts, written, owed>> /\ (~Goes(p) \/ (~Known(firstPts) /\ ~p.key))
  <2>1. OwedBeginsWithKey' /\ BegunIsOpen' /\ EachStartsWithKey'
    BY <1>1, <1>12, <1>15 DEF OwedBeginsWithKey, BegunIsOpen, EachStartsWithKey, StartsWithKey, Known
  <2>2. ASSUME ~Known(firstPts), written # << >> PROVE FALSE
    <3>1. ppc = "saved" /\ savedFrames = << >> /\ packet.key
      BY <1>1, <1>12, <2>2 DEF KeyFollows
    <3>2. p = packet
      BY <1>2, <3>1
    <3>3. packet \in Delivered
      BY <1>1 DEF FlowInv, DeliveredInv, Ahead, Flying, Holding
    <3>4. packet.video
      BY <3>1, <3>3, KeysAreVideo
    <3> QED BY <1>15, <3>1, <3>2, <3>4 DEF Goes
  <2>3. KeyFollows'
    BY <1>15, <2>2 DEF KeyFollows, Known
  <2> QED BY <1>13, <1>14, <2>1, <2>3
<1>16. CASE written' = Append(written, Recorded(p)) /\ Known(firstPts') /\ (~Known(firstPts) => p.key)
  <2>1. OwedBeginsWithKey' /\ KeyFollows'
    BY <1>16 DEF OwedBeginsWithKey, KeyFollows, Known
  <2>2. /\ Len(written) \in Nat /\ DOMAIN written = 1..Len(written) /\ DOMAIN written' = 1..(Len(written) + 1)
        /\ written'[Len(written) + 1] = Recorded(p) /\ \A i \in 1..Len(written) : written'[i] = written[i]
    <3>1. Recorded(p) \in Entry /\ written \in Seq(Entry)
      BY <1>1, <1>2, RecordedIsEntry DEF TypeInv, RecorderTypes
    <3> QED BY <1>16, <3>1, AppendFacts
  <2>3. Recorded(p).file = uri /\ Recorded(p).frame = p
    BY DEF Recorded
  <2>4. BegunIsOpen'
    <3>1. Len(written) + 1 \in DOMAIN written' /\ written'[Len(written) + 1].file = uri'
      BY <1>1, <2>2, <2>3
    <3> QED BY <1>1, <3>1 DEF BegunIsOpen
  <2>5. EachStartsWithKey'
    <3>1. ASSUME NEW i \in 1..Len(written), \A j \in 1..(i - 1) : written'[j].file # written'[i].file
          PROVE  written'[i].frame.key
      <4>1. \A j \in 1..(i - 1) : j \in 1..Len(written)
        BY <2>2
      <4>2. \A j \in 1..(i - 1) : written[j].file # written[i].file
        BY <2>2, <3>1, <4>1
      <4> QED BY <1>12, <2>2, <4>2 DEF EachStartsWithKey, StartsWithKey
    <3>2. ASSUME \A j \in 1..Len(written) : written'[j].file # written'[Len(written) + 1].file
          PROVE  written'[Len(written) + 1].frame.key
      <4>1. \A j \in 1..Len(written) : written[j].file # uri
        BY <2>2, <2>3, <3>2
      <4>2. ~Known(firstPts)
        BY <1>12, <2>2, <4>1 DEF BegunIsOpen
      <4> QED BY <1>16, <2>2, <2>3, <4>2
    <3>3. ASSUME NEW i \in 1..(Len(written) + 1) PROVE StartsWithKey(i)'
      <4>1. CASE i \in 1..Len(written)
        BY <3>1, <4>1 DEF StartsWithKey
      <4>2. CASE i = Len(written) + 1
        <5>1. i - 1 = Len(written)
          BY <2>2, <4>2
        <5> QED BY <3>2, <4>2, <5>1 DEF StartsWithKey
      <4> QED BY <2>2, <4>1, <4>2
    <3> QED BY <2>2, <3>3 DEF EachStartsWithKey
  <2> QED BY <1>13, <1>14, <2>1, <2>4, <2>5
<1> QED BY <1>4, <1>5, <1>11, <1>15, <1>16 DEF Leaves

LEMMA SplitterKeepsWhole ==
  ASSUME TypeInv, WholeInv, TypeInv', FlowInv', SplitterSteps PROVE WholeInv'
<1> USE DEF recording, recorder, file, parameters, counters, history
<1>1. CASE SourceFrame \/ SourceEnds \/ FlushSubgraph \/ Deposit
  <2>1. /\ ppc \in {"source", "ended", "encoder", "retry", "deposit"}
        /\ ppc' \in {"encoder", "source", "flushed", "ended"}
        /\ UNCHANGED recording /\ owed' = owed /\ failures' = failures
    BY <1>1 DEF SourceFrame, SourceEnds, FlushSubgraph, RunAgain, Deposit, Reads
  <2> QED BY <2>1, PassingKeepsWhole DEF Holding
<1>2. CASE PendingPacket
  <2>1. inEncoder # << >>
    BY <1>2, LenProperties, RecordingAssumption DEF PendingPacket, Ready, TypeInv, EncoderTypes
  <2>2. Head(inEncoder) \in Frame
    BY <2>1, TailIn DEF TypeInv, EncoderTypes
  <2>3. Offer(Head(inEncoder)) /\ ppc = "encoder" /\ UNCHANGED recording /\ failures' = failures
    BY <1>2 DEF PendingPacket
  <2> QED BY <2>2, <2>3, OfferKeepsWhole
<1>3. CASE PassOn
  <2>1. Input \in Frame
    BY <1>3, TailIn DEF PassOn, Gets, Input, TypeInv, SplitterTypes
  <2>2. Offer(Input) /\ ppc \in {"encoder", "retry"} /\ UNCHANGED recording /\ failures' = failures
    BY <1>3 DEF PassOn, Gets, Reads
  <2> QED BY <2>1, <2>2, OfferKeepsWhole
<1>4. CASE Encode
  <2> DEFINE taken == Append(inEncoder, Input)
  <2>1. ppc \in {"encoder", "retry"} /\ UNCHANGED recording
    BY <1>4 DEF Encode, Gets, Reads
  <2>2. taken \in Seq(Frame) /\ taken # << >>
    <3>1. Input \in Frame
      BY <1>4, TailIn DEF Encode, Gets, Input, TypeInv, SplitterTypes
    <3> QED BY <3>1, AppendIn DEF TypeInv, EncoderTypes
  <2>3. Head(taken) \in Frame
    BY <2>2, TailIn
  <2>4. \/ Offer(Head(taken)) /\ failures' = failures
        \/ ppc' \in {"retry", "deposit"} /\ owed' = owed /\ failures' \in {failures, failures + 1}
    BY <1>4 DEF Encode, Fails
  <2> HIDE DEF taken
  <2>5. CASE Offer(Head(taken)) /\ failures' = failures
    BY <2>1, <2>3, <2>5, OfferKeepsWhole
  <2>6. CASE ppc' \in {"retry", "deposit"} /\ owed' = owed /\ failures' \in {failures, failures + 1}
    BY <2>1, <2>6, PassingKeepsWhole DEF Holding
  <2> QED BY <2>4, <2>5, <2>6
<1> QED BY <1>1, <1>2, <1>3, <1>4 DEF SplitterSteps

\* What the synchroniser and the application's reader do.
Elsewhere == UNCHANGED <<ppc, packet, owed, recording>> /\ failures' \in {failures, failures + 1}

LEMMA ElsewhereKeepsWhole ==
  ASSUME TypeInv, WholeInv, TypeInv', Elsewhere PROVE WholeInv'
<1>1. UNCHANGED recording /\ ppc' = ppc /\ packet' = packet /\ owed' = owed /\ failures' \in {failures, failures + 1}
  BY DEF Elsewhere
<1>2. failures' \in Nat /\ owed' \in Seq(Frame) /\ (failures' = 0 => failures = 0)
  BY <1>1 DEF WholeInv
<1>3. SUFFICES ASSUME Clean'
      PROVE  NothingLost' /\ OwedBeginsWithKey' /\ SizeStaysKnown' /\ KeyFollows' /\ BegunIsOpen' /\ EachStartsWithKey'
  BY <1>2, <1>3 DEF WholeInv
<1>4. Clean
  BY <1>1, <1>2, <1>3, RecordingKept DEF Clean
<1>5. NothingLost /\ OwedBeginsWithKey /\ SizeStaysKnown /\ KeyFollows /\ BegunIsOpen /\ EachStartsWithKey
  BY <1>4 DEF WholeInv
<1>6. NothingLost'
  <2> SUFFICES ASSUME ppc' # "closed" PROVE IsRestOf(owed, Waiting)'
    BY DEF NothingLost
  <2>1. PICK s, w : s = owed /\ w = Waiting
    OBVIOUS
  <2>2. Waiting' = w
    BY <1>1, <2>1, WaitingIs, WaitingThen, RecordingKept DEF WaitingSays
  <2>3. IsRestOf(s, w)
    BY <1>1, <1>5, <2>1 DEF NothingLost
  <2> QED BY <1>1, <2>1, <2>2, <2>3, RestNext, RecordingKept
<1>7. OwedBeginsWithKey'
  BY <1>1, <1>5, RecordingKept DEF OwedBeginsWithKey, Known
<1>8. KeyFollows'
  BY <1>1, <1>5, RecordingKept DEF KeyFollows, Known
<1> QED BY <1>1, <1>5, <1>6, <1>7, <1>8, RecordingKept

LEMMA WholeCases ==
  ASSUME [ReaderNext]_readerVars
  PROVE  SplitterSteps \/ Rotate \/ Close \/ OpenSteps \/ WriteSaved \/ WritePacket \/ Elsewhere
<1> USE DEF recorder, file, output, parameters, counters, history, Elsewhere, recording
<1>1. CASE UNCHANGED readerVars
  BY <1>1 DEF readerVars, vars, producer
<1>2. CASE Producer
  BY <1>2 DEF Producer, SplitterSteps, OpenSteps
<1>3. CASE RequestNewFile
  BY <1>3 DEF RequestNewFile
<1>4. CASE Move
  <2>1. failures' \in {failures, failures + 1}
    BY <1>4 DEF Move, SaveFromMemory, MoveOnDisk, Fails
  <2> QED BY <1>4, <2>1 DEF Move
<1>5. CASE GetNewFrame \/ StreamStops
  BY <1>5 DEF GetNewFrame, BeginRead, StreamStops, ReadEnds, producer
<1>6. CASE LibraryReads
  <2>1. CASE LearnDelay \/ DropEarly \/ NextFile \/ NothingSettled
    BY <2>1 DEF LearnDelay, DropEarly, NextFile, NothingSettled, producer
  <2>2. CASE ReadVideo \/ ReadAudio
    BY <2>2 DEF ReadVideo, ReadAudio
  <2> QED BY <1>6, <2>1, <2>2 DEF LibraryReads
<1>7. CASE FrameRead
  BY <1>7 DEF FrameRead, ReturnFrame, producer
<1>8. CASE HandleFrame \/ FinalizeMover \/ CloseReader \/ AddLastFile \/ TerminateMover \/ Closed
  <2>1. UNCHANGED vars
    BY <1>8 DEF HandleFrame, FinalizeMover, CloseReader, AddLastFile, TerminateMover, Closed, readerVars
  <2> QED BY <2>1 DEF vars, producer
<1>9. CASE Flush
  BY <1>9 DEF Flush
<1>10. CASE CloseGraph \/ FreeStreamData
  BY <1>10 DEF CloseGraph, FreeStreamData, SplitterSteps
<1> QED
  BY <1>1, <1>2, <1>3, <1>4, <1>5, <1>6, <1>7, <1>8, <1>9, <1>10 DEF ReaderNext

LEMMA WholeStep ==
  RecordingInv /\ RecordingInv' /\ WholeInv /\ [ReaderNext]_readerVars => WholeInv'
<1> SUFFICES ASSUME RecordingInv, RecordingInv', WholeInv, [ReaderNext]_readerVars PROVE WholeInv'
  OBVIOUS
<1>1. TypeInv /\ FlowInv /\ TypeInv' /\ FlowInv'
  BY DEF RecordingInv
<1>2. CASE SplitterSteps
  BY <1>1, <1>2, SplitterKeepsWhole
<1>3. CASE Rotate \/ Close
  BY <1>1, <1>3, RotateKeepsWhole, CloseKeepsWhole
<1>4. CASE OpenSteps
  BY <1>1, <1>4, OpenKeepsWhole
<1>5. CASE WriteSaved \/ WritePacket
  BY <1>1, <1>5, WriteKeepsWhole
<1>6. CASE Elsewhere
  BY <1>1, <1>6, ElsewhereKeepsWhole
<1> QED BY <1>2, <1>3, <1>4, <1>5, <1>6, WholeCases

\* While nothing fails and the source answers for the parameter sets, no packet from the first
\* keyframe on is lost to a rotation, a late opening, or the frames saved for it, and each file
\* starts with a keyframe (stream_ffmpeg_recorder.cpp:1237-1283, 1068-1079).
THEOREM RecordingIsWholeHolds == ReaderSpec => []RecordingIsWhole
<1>1. ReaderInit => RecordingInv /\ WholeInv
  BY RecordingInit, WholeInit
<1>2. RecordingInv /\ WholeInv /\ [ReaderNext]_readerVars => RecordingInv' /\ WholeInv'
  BY RecordingStep, WholeStep
<1>3. WholeInv => RecordingIsWhole
  BY WholeInvSays
<1> QED BY <1>1, <1>2, <1>3, PTL DEF ReaderSpec

-----------------------------------------------------------------------------
(***************************************************************************)
(* The application's clips.                                                *)
(***************************************************************************)
Showing == [pts : Nat, name : Nat]
Mover == [clip : Clip, alive : BOOLEAN]

\* The clips c say what was shown in s.
Told(c, s) ==
  /\ \A k \in 1..Len(s) : \E i \in 1..Len(c) : s[k].name = c[i].name
  /\ \A i \in 1..Len(c) :
       /\ \E k \in 1..Len(s) : Begins(c[i], s, k)
       /\ \E k \in 1..Len(s) : Ends(c[i], s, k)
       /\ c[i].prev = IF i = 1 THEN None ELSE c[i - 1].name
       /\ i > 1 => c[i - 1].last < c[i].start
  /\ \A i, j \in 1..Len(c) : i < j => c[i].name # c[j].name

LEMMA BeginsStill ==
  ASSUME NEW s \in Seq(Showing), NEW f \in Showing, NEW c, NEW d, NEW k \in 1..Len(s), Begins(c, s, k),
         d.name = c.name, d.start = c.start
  PROVE  k \in 1..Len(Append(s, f)) /\ Begins(d, Append(s, f), k)
<1>1. /\ Len(s) \in Nat /\ Len(Append(s, f)) = Len(s) + 1
      /\ \A i \in 1..Len(s) : Append(s, f)[i] = s[i]
  BY AppendFacts
<1>2. k \in 1..(Len(s) + 1) /\ \A j \in 1..(k - 1) : j \in 1..Len(s)
  BY <1>1
<1> QED BY <1>1, <1>2 DEF Begins

LEMMA EndsStill ==
  ASSUME NEW s \in Seq(Showing), NEW f \in Showing, NEW c, NEW k \in 1..Len(s), Ends(c, s, k), c.name # f.name
  PROVE  k \in 1..Len(Append(s, f)) /\ Ends(c, Append(s, f), k)
<1>1. /\ Len(s) \in Nat /\ Len(Append(s, f)) = Len(s) + 1 /\ Append(s, f)[Len(s) + 1] = f
      /\ \A i \in 1..Len(s) : Append(s, f)[i] = s[i]
  BY AppendFacts
<1>2. /\ k \in 1..(Len(s) + 1)
      /\ \A j \in (k + 1)..(Len(s) + 1) : (j \in (k + 1)..Len(s) /\ j \in 1..Len(s)) \/ j = Len(s) + 1
  BY <1>1
<1> QED BY <1>1, <1>2 DEF Ends

LEMMA NewestEnds ==
  ASSUME NEW s \in Seq(Showing), NEW f \in Showing, NEW c, c.name = f.name, c.last = f.pts
  PROVE  Len(s) + 1 \in 1..Len(Append(s, f)) /\ Ends(c, Append(s, f), Len(s) + 1)
<1>1. /\ Len(s) \in Nat /\ Len(Append(s, f)) = Len(s) + 1 /\ Append(s, f)[Len(s) + 1] = f
  BY AppendFacts
<1>2. Len(s) + 1 \in 1..(Len(s) + 1) /\ (Len(s) + 1 + 1)..(Len(s) + 1) = {}
  BY <1>1
<1>3. f = [pts |-> c.last, name |-> c.name]
  BY DEF Showing
<1> QED BY <1>1, <1>2, <1>3 DEF Ends

LEMMA NewestBegins ==
  ASSUME NEW s \in Seq(Showing), NEW f \in Showing, NEW c, c.name = f.name, c.start = f.pts,
         \A k \in 1..Len(s) : s[k].name # f.name
  PROVE  Begins(c, Append(s, f), Len(s) + 1)
<1>1. /\ Len(s) \in Nat /\ Append(s, f)[Len(s) + 1] = f /\ \A i \in 1..Len(s) : Append(s, f)[i] = s[i]
  BY AppendFacts
<1>2. Len(s) + 1 - 1 = Len(s)
  BY <1>1
<1>3. f = [pts |-> c.start, name |-> c.name]
  BY DEF Showing
<1> QED BY <1>1, <1>2, <1>3 DEF Begins

\* Another frame of the clip that is being read.
LEMMA ToldMore ==
  ASSUME NEW b \in Seq(Clip), NEW c \in Clip, NEW s \in Seq(Showing), NEW f \in Showing,
         Told(Append(b, c), s), f.name = c.name
  PROVE  Told(Append(b, [c EXCEPT !.last = f.pts]), Append(s, f))
<1> DEFINE n == Len(b)
           m == Len(s)
           C == Append(b, c)
           d == [c EXCEPT !.last = f.pts]
           D == Append(b, d)
           S == Append(s, f)
<1>1. d \in Clip /\ d.name = c.name /\ d.start = c.start /\ d.prev = c.prev /\ d.last = f.pts
  BY DEF Clip, Showing
<1>2. /\ n \in Nat /\ Len(C) = n + 1 /\ C[n + 1] = c /\ \A i \in 1..n : C[i] = b[i]
      /\ Len(D) = n + 1 /\ D[n + 1] = d /\ \A i \in 1..n : D[i] = b[i]
  BY <1>1, AppendFacts
<1>3. m \in Nat /\ Len(S) = m + 1 /\ S[m + 1] = f /\ \A k \in 1..m : S[k] = s[k]
  BY AppendFacts
<1> HIDE DEF n, C, d, D
<1>4. /\ \A i \in 1..(n + 1) : i \in 1..n \/ i = n + 1
      /\ \A i \in 1..n : i \in 1..(n + 1) /\ i # n + 1 /\ i < n + 1
      /\ n + 1 \in 1..(n + 1)
  BY <1>2
<1>5. /\ \A i \in 1..(n + 1) : D[i].name = C[i].name /\ D[i].start = C[i].start /\ D[i].prev = C[i].prev
      /\ \A i \in 1..n : D[i] = C[i]
  BY <1>1, <1>2, <1>4
<1>6. ASSUME NEW k \in 1..Len(S) PROVE \E i \in 1..Len(D) : S[k].name = D[i].name
  <2>1. CASE k \in 1..m
    <3>1. PICK i \in 1..(n + 1) : s[k].name = C[i].name
      BY <1>2, <2>1 DEF Told, C
    <3> QED BY <3>1, <1>2, <1>3, <1>5, <2>1
  <2>2. CASE k = m + 1
    BY <2>2, <1>1, <1>2, <1>3, <1>4
  <2> QED BY <1>3, <2>1, <2>2
<1>7. ASSUME NEW i \in 1..Len(D) PROVE \E k \in 1..Len(S) : Begins(D[i], S, k)
  <2>1. PICK k \in 1..m : Begins(C[i], s, k)
    BY <1>2 DEF Told, C
  <2> QED BY <2>1, <1>2, <1>5, BeginsStill
<1>8. ASSUME NEW i \in 1..Len(D) PROVE \E k \in 1..Len(S) : Ends(D[i], S, k)
  <2>1. CASE i \in 1..n
    <3>1. PICK k \in 1..m : Ends(C[i], s, k)
      BY <1>2, <1>4, <2>1 DEF Told, C
    <3>2. C[i].name # c.name
      BY <1>2, <1>4, <2>1 DEF Told, C
    <3> QED BY <2>1, <3>1, <3>2, <1>5, EndsStill
  <2>2. CASE i = n + 1
    BY <2>2, <1>1, <1>2, NewestEnds
  <2> QED BY <1>2, <1>4, <2>1, <2>2
<1>9. ASSUME NEW i \in 1..Len(D)
      PROVE  /\ D[i].prev = IF i = 1 THEN None ELSE D[i - 1].name
             /\ i > 1 => D[i - 1].last < D[i].start
  <2>1. i = 1 \/ (i > 1 /\ i - 1 \in 1..n /\ i - 1 \in 1..(n + 1))
    BY <1>2
  <2>2. /\ C[i].prev = IF i = 1 THEN None ELSE C[i - 1].name
        /\ i > 1 => C[i - 1].last < C[i].start
    BY <1>2 DEF Told, C
  <2> QED BY <1>2, <1>5, <2>1, <2>2
<1>10. \A i, j \in 1..Len(D) : i < j => D[i].name # D[j].name
  <2>1. \A i, j \in 1..(n + 1) : i < j => C[i].name # C[j].name
    BY <1>2 DEF Told, C
  <2> QED BY <1>2, <1>5, <2>1
<1>11. Told(D, S)
  BY <1>6, <1>7, <1>8, <1>9, <1>10 DEF Told
<1> QED BY <1>11 DEF D, d

\* The first frame of another file.
LEMMA ToldNext ==
  ASSUME NEW b \in Seq(Clip), NEW c \in Clip, NEW s \in Seq(Showing), NEW f \in Showing, Told(b, s),
         c.name = f.name, c.start = f.pts, c.last = f.pts,
         c.prev = IF b = << >> THEN None ELSE b[Len(b)].name,
         \A k \in 1..Len(s) : s[k].name # f.name /\ s[k].pts < f.pts
  PROVE  Told(Append(b, c), Append(s, f))
<1> DEFINE n == Len(b)
           m == Len(s)
           D == Append(b, c)
           S == Append(s, f)
<1>2. n \in Nat /\ Len(D) = n + 1 /\ D[n + 1] = c /\ \A i \in 1..n : D[i] = b[i]
  BY AppendFacts
<1>3. m \in Nat /\ Len(S) = m + 1 /\ S[m + 1] = f /\ \A k \in 1..m : S[k] = s[k]
  BY AppendFacts
<1>a. b = << >> <=> n = 0
  BY EmptySeq
<1> HIDE DEF n, D
<1>4. /\ \A i \in 1..(n + 1) : i \in 1..n \/ i = n + 1
      /\ \A i \in 1..n : i \in 1..(n + 1) /\ i # n + 1 /\ i < n + 1
      /\ n + 1 \in 1..(n + 1)
  BY <1>2
<1>5. \A i \in 1..n : b[i].name # f.name
  <2> SUFFICES ASSUME NEW i \in 1..n PROVE b[i].name # f.name
    OBVIOUS
  <2>1. PICK k \in 1..m : Begins(b[i], s, k)
    BY DEF Told, n
  <2> QED BY <2>1 DEF Begins
<1>6. ASSUME NEW k \in 1..Len(S) PROVE \E i \in 1..Len(D) : S[k].name = D[i].name
  <2>1. CASE k \in 1..m
    <3>1. PICK i \in 1..n : s[k].name = b[i].name
      BY <2>1 DEF Told, n
    <3> QED BY <3>1, <1>2, <1>3, <1>4, <2>1
  <2>2. CASE k = m + 1
    BY <2>2, <1>2, <1>3, <1>4
  <2> QED BY <1>3, <2>1, <2>2
<1>7. ASSUME NEW i \in 1..Len(D) PROVE \E k \in 1..Len(S) : Begins(D[i], S, k)
  <2>1. CASE i \in 1..n
    <3>1. PICK k \in 1..m : Begins(b[i], s, k)
      BY <2>1 DEF Told, n
    <3> QED BY <2>1, <3>1, <1>2, BeginsStill
  <2>2. CASE i = n + 1
    <3>1. Begins(D[i], S, m + 1)
      BY <2>2, <1>2, NewestBegins
    <3> QED BY <3>1, <1>3
  <2> QED BY <1>2, <1>4, <2>1, <2>2
<1>8. ASSUME NEW i \in 1..Len(D) PROVE \E k \in 1..Len(S) : Ends(D[i], S, k)
  <2>1. CASE i \in 1..n
    <3>1. PICK k \in 1..m : Ends(b[i], s, k)
      BY <2>1 DEF Told, n
    <3> QED BY <2>1, <3>1, <1>2, <1>5, EndsStill
  <2>2. CASE i = n + 1
    BY <2>2, <1>2, NewestEnds
  <2> QED BY <1>2, <1>4, <2>1, <2>2
<1>9. ASSUME NEW i \in 1..Len(D)
      PROVE  /\ D[i].prev = IF i = 1 THEN None ELSE D[i - 1].name
             /\ i > 1 => D[i - 1].last < D[i].start
  <2>1. CASE i \in 1..n
    <3>1. i = 1 \/ (i > 1 /\ i - 1 \in 1..n)
      BY <1>2, <2>1
    <3>2. /\ b[i].prev = IF i = 1 THEN None ELSE b[i - 1].name
          /\ i > 1 => b[i - 1].last < b[i].start
      BY <2>1 DEF Told, n
    <3> QED BY <1>2, <2>1, <3>1, <3>2
  <2>2. CASE i = n + 1 /\ n = 0
    BY <1>2, <1>a, <2>2
  <2>3. CASE i = n + 1 /\ n # 0
    <3>1. i > 1 /\ i # 1 /\ i - 1 = n /\ n \in 1..n
      BY <1>2, <2>3
    <3>2. PICK k \in 1..m : Ends(b[n], s, k)
      BY <3>1 DEF Told, n
    <3>3. b[n].last < f.pts
      BY <3>2 DEF Ends
    <3> QED BY <1>2, <1>a, <2>3, <3>1, <3>3 DEF n
  <2> QED BY <1>2, <1>4, <2>1, <2>2, <2>3
<1>10. ASSUME NEW i \in 1..Len(D), NEW j \in 1..Len(D), i < j PROVE D[i].name # D[j].name
  <2>1. i \in 1..n /\ (j \in 1..n \/ j = n + 1)
    BY <1>2, <1>10
  <2> QED BY <1>2, <1>5, <1>10, <2>1 DEF Told, n
<1>11. Told(D, S)
  BY <1>6, <1>7, <1>8, <1>9, <1>10 DEF Told
<1> QED BY <1>11 DEF D

\* The files that are closed and whose intervals the reader is past, and the one of the first interval.
Open(n) == outputInitialized /\ uri = n
Past == {n \in Names : ~Open(n) /\ \A c \in Contexts : c.name # n}
IsCurrent(n) == fileContexts # << >> /\ Head(fileContexts).name = n
Turn(n) == IsCurrent(n) => IsCurrent(n)' \/ (NextFile /\ n \in Past')
FilesMoveOn ==
  /\ Names \subseteq Names' /\ Past \subseteq Past'
  /\ \A n \in Names : ~Open(n) => ~Open(n)'
  /\ \A n : Turn(n)

LEMMA PastStays ==
  ASSUME Names \subseteq Names', \A n \in Names : ~Open(n) => ~Open(n)',
         \A c \in Contexts' : (\E e \in Contexts : e.name = c.name) \/ Open(c.name)
  PROVE  Past \subseteq Past'
<1> SUFFICES ASSUME NEW n \in Past PROVE n \in Past'
  OBVIOUS
<1>1. n \in Names' /\ ~Open(n)'
  BY DEF Past
<1>2. \A c \in Contexts' : c.name # n
  BY DEF Past
<1> QED BY <1>1, <1>2 DEF Past

LEMMA FilesStay ==
  ASSUME UNCHANGED <<written, uri, outputInitialized, fileContexts>> PROVE FilesMoveOn
<1>1. Names' = Names /\ Contexts' = Contexts /\ \A n : Open(n)' <=> Open(n)
  BY DEF Names, Contexts, Open
<1>2. \A n : Turn(n)
  BY DEF Turn, IsCurrent
<1> QED BY <1>1, <1>2, PastStays DEF FilesMoveOn

LEMMA NamesGrow ==
  ASSUME NEW w \in Seq(Entry), NEW e \in Entry, written = w, written' = Append(w, e)
  PROVE  Names' = Names \cup {e.file}
<1>1. /\ Len(w) \in Nat /\ DOMAIN w = 1..Len(w) /\ DOMAIN Append(w, e) = 1..(Len(w) + 1)
      /\ Append(w, e)[Len(w) + 1] = e /\ \A i \in 1..Len(w) : Append(w, e)[i] = w[i]
  BY AppendFacts
<1>2. \A i : i \in 1..(Len(w) + 1) <=> i \in 1..Len(w) \/ i = Len(w) + 1
  BY <1>1
<1>3. Names' = {Append(w, e)[i].file : i \in 1..(Len(w) + 1)} /\ Names = {w[i].file : i \in 1..Len(w)}
  BY <1>1 DEF Names
<1> QED BY <1>1, <1>2, <1>3

LEMMA WritingMovesOn ==
  ASSUME TypeInv, WriteSaved \/ WritePacket
  PROVE  /\ FilesMoveOn /\ outputInitialized /\ UNCHANGED <<outputInitialized, uri>>
         /\ Names' \in {Names, Names \cup {uri}}
<1>1. outputInitialized /\ UNCHANGED <<outputInitialized, uri>> /\ uri \in Nat
  BY WritingFacts DEF TypeInv, OpenInv
<1>2. PICK p \in Frame : WriteFrame(p)
  BY WritingFacts
<1>3. \A n : Open(n)' <=> Open(n)
  BY <1>1 DEF Open
<1>4. CASE Skips(p) \/ Loses(p)
  <2>1. UNCHANGED <<written, fileContexts>>
    BY <1>4 DEF Skips, Loses
  <2>2. Names' = Names
    BY <2>1 DEF Names
  <2> QED BY <1>1, <2>1, <2>2, FilesStay
<1>5. CASE Records(p)
  <2>1. written' = Append(written, Recorded(p)) /\ Recorded(p) \in Entry /\ Recorded(p).file = uri
    BY <1>1, <1>5, RecordedIsEntry DEF Records, Recorded
  <2>2. Names' = Names \cup {uri}
    <3>1. written \in Seq(Entry)
      BY DEF TypeInv, RecorderTypes
    <3> QED BY <2>1, <3>1, NamesGrow
  <2> DEFINE c == [start |-> p.pts, end |-> None, name |-> uri]
  <2>3. c \in Context /\ fileContexts \in Seq(Context)
    BY <1>1, FrameParts DEF Context, TypeInv, SynchroniserTypes
  <2>4. fileContexts' \in {fileContexts, Append(fileContexts, c)} /\ c.name = uri
    BY <1>5 DEF Records, NotifyNewFile
  <2> HIDE DEF c
  <2>5. /\ Len(fileContexts) \in Nat /\ DOMAIN fileContexts = 1..Len(fileContexts)
        /\ DOMAIN Append(fileContexts, c) = 1..(Len(fileContexts) + 1) /\ Append(fileContexts, c) # << >>
        /\ Append(fileContexts, c)[Len(fileContexts) + 1] = c
        /\ \A i \in 1..Len(fileContexts) : Append(fileContexts, c)[i] = fileContexts[i]
    BY <2>3, AppendFacts
  <2>6. \A i : i \in 1..(Len(fileContexts) + 1) <=> i \in 1..Len(fileContexts) \/ i = Len(fileContexts) + 1
    BY <2>5
  <2>7. \A e \in Contexts' : e \in Contexts \/ e = c
    BY <2>4, <2>5, <2>6 DEF Contexts, In
  <2>8. Past \subseteq Past'
    BY <1>1, <1>3, <2>2, <2>4, <2>7, PastStays DEF Open
  <2>9. ASSUME NEW n, IsCurrent(n) PROVE IsCurrent(n)'
    <3>1. fileContexts # << >> /\ Head(fileContexts).name = n
      BY <2>9 DEF IsCurrent
    <3>2. Head(Append(fileContexts, c)) = Head(fileContexts)
      BY <2>3, <3>1
    <3> QED BY <2>4, <2>5, <3>1, <3>2 DEF IsCurrent
  <2> QED BY <1>1, <1>3, <2>2, <2>8, <2>9 DEF FilesMoveOn, Turn
<1> QED BY <1>2, <1>4, <1>5, WriteFrameCases

LEMMA NextFileMovesOn ==
  ASSUME TypeInv, FlowInv, WrittenInv, ContextInv, NextFile PROVE FilesMoveOn
<1>1. UNCHANGED <<written, uri, outputInitialized>>
  BY FileUntouched DEF QueueSteps, fileVars
<1>2. /\ fileContexts # << >> /\ fileContexts' = Tail(fileContexts) /\ Known(Head(fileContexts).end)
  BY DEF NextFile, HasCandidate, Beyond, Current
<1>3. fileContexts \in Seq(Context)
  BY DEF TypeInv, SynchroniserTypes
<1> DEFINE n == Len(fileContexts)
           h == fileContexts[1]
<1>4. /\ n \in Nat /\ n > 0 /\ DOMAIN fileContexts = 1..n /\ Head(fileContexts) = h
      /\ DOMAIN Tail(fileContexts) = 1..(n - 1)
      /\ \A i \in 1..(n - 1) : Tail(fileContexts)[i] = fileContexts[i + 1]
  BY <1>2, <1>3, HeadTailProperties, LenProperties, EmptySeq
<1> HIDE DEF n
<1>5. 1 \in 1..n /\ \A i \in 1..(n - 1) : i + 1 \in 1..n /\ 1 < i + 1
  BY <1>4
<1>6. Names' = Names /\ \A m : Open(m)' <=> Open(m)
  BY <1>1 DEF Names, Open
<1>7. \A c \in Contexts' : \E i \in 1..(n - 1) : c = fileContexts[i + 1]
  BY <1>2, <1>4 DEF Contexts, In
<1>8. Past \subseteq Past'
  <2>1. \A c \in Contexts' : c \in Contexts
    BY <1>4, <1>5, <1>7 DEF Contexts, In
  <2> QED BY <1>6, <2>1, PastStays
<1>9. h \in Contexts /\ Known(h.end)
  BY <1>2, <1>4, <1>5 DEF Contexts, In
<1>10. h.name \in Past'
  <2>1. h.name \in Names /\ ~Open(h.name)
    BY <1>9, OpenIsLast DEF ContextInv, Good, OpenWhile, Known, Open
  <2>2. ASSUME NEW i \in 1..(n - 1) PROVE fileContexts[i + 1].name # h.name
    <3> DEFINE c == fileContexts[i + 1]
    <3>1. c \in Contexts /\ h.end < c.start
      BY <1>4, <1>5 DEF ContextInv, InTurn, Contexts, In
    <3>2. PICK k \in LaterIn(written, c.name) : c.start = written[k].frame.pts
      BY <3>1 DEF ContextInv, Good, Starts
    <3>3. k \in VideoIn(written, c.name) /\ k \in DOMAIN written
      BY <3>2 DEF LaterIn, VideoIn
    <3>4. \A j \in VideoIn(written, h.name) : written[j].frame.pts <= h.end
      BY <1>9 DEF ContextInv, Good, HoldsItsFile
    <3>5. h.end \in Nat /\ c.start \in Nat
      BY <1>9, <3>1, ContextTypes DEF Known
    <3> HIDE DEF c, h
    <3>6. c.name # h.name
      BY <3>1, <3>2, <3>3, <3>4, <3>5
    <3> QED BY <3>6 DEF c
  <2> HIDE DEF h
  <2>3. \A c \in Contexts' : c.name # h.name
    BY <1>7, <2>2
  <2> QED BY <1>6, <2>1, <2>3 DEF Past
<1>11. \A m : IsCurrent(m) => m \in Past'
  BY <1>4, <1>10 DEF IsCurrent
<1> QED BY <1>6, <1>8, <1>11 DEF FilesMoveOn, Turn

LEMMA ClosingMovesOn ==
  ASSUME TypeInv, Rotate \/ Close
  PROVE  FilesMoveOn /\ Names' = Names /\ outputInitialized' = FALSE
<1>1. /\ outputInitialized' = FALSE /\ written' = written
      /\ fileContexts' = fileContexts \/ fileContexts' = [fileContexts EXCEPT ![Min(Unended)].end = lastVideoPts]
  BY DEF Rotate, Close, CloseOut, Reset, NotifyCloseFile, history
<1>2. Names' = Names /\ \A n : ~Open(n)'
  BY <1>1 DEF Names, Open
<1>3. fileContexts \in Seq(Context) /\ lastVideoPts \in Nat
  BY DEF TypeInv, SynchroniserTypes, RecorderTypes
<1>4. /\ fileContexts' \in Seq(Context) /\ Len(fileContexts') = Len(fileContexts)
      /\ \A i \in 1..Len(fileContexts) : fileContexts'[i].name = fileContexts[i].name
  <2>1. \A i \in DOMAIN fileContexts : [fileContexts[i] EXCEPT !.end = lastVideoPts].name = fileContexts[i].name
    BY <1>3, LenProperties DEF Context
  <2>2. CASE fileContexts' = [fileContexts EXCEPT ![Min(Unended)].end = lastVideoPts]
    BY <1>3, <2>1, <2>2, EndsAnInterval, LenProperties
  <2> QED BY <1>1, <1>3, <2>2
<1>5. ASSUME NEW c \in Contexts' PROVE \E e \in Contexts : e.name = c.name
  <2>1. PICK i \in 1..Len(fileContexts) : c = fileContexts'[i]
    BY <1>4, LenProperties DEF Contexts, In
  <2>2. fileContexts[i] \in Contexts
    BY <1>3, LenProperties DEF Contexts, In
  <2> QED BY <1>4, <2>1, <2>2
<1>6. Past \subseteq Past'
  BY <1>2, <1>5, PastStays
<1>7. ASSUME NEW n, IsCurrent(n) PROVE IsCurrent(n)'
  <2>1. fileContexts # << >> /\ Head(fileContexts).name = n
    BY <1>7 DEF IsCurrent
  <2>2. Len(fileContexts) \in Nat /\ Len(fileContexts) # 0 /\ Head(fileContexts) = fileContexts[1]
    BY <1>3, <2>1, EmptySeq, LenProperties, HeadTailProperties
  <2>3. fileContexts' # << >> /\ Head(fileContexts') = fileContexts'[1]
    BY <1>4, <2>2, EmptySeq, HeadTailProperties
  <2>4. 1 \in 1..Len(fileContexts)
    BY <2>2
  <2> QED BY <1>4, <2>1, <2>2, <2>3, <2>4 DEF IsCurrent
<1> QED BY <1>1, <1>2, <1>6, <1>7 DEF FilesMoveOn, Turn

LEMMA OpeningMovesOn ==
  ASSUME TypeInv, FlowInv, NameInv, OpenSteps PROVE FilesMoveOn /\ Names' = Names /\ ~outputInitialized
<1>1. /\ UNCHANGED <<written, fileContexts>> /\ uri' \notin Names /\ ~outputInitialized
  BY OpeningNames
<1>2. Names' = Names /\ Contexts' = Contexts /\ \A n \in Names : ~Open(n)'
  BY <1>1 DEF Names, Contexts, Open
<1>3. \A n : Turn(n)
  BY <1>1 DEF Turn, IsCurrent
<1> QED BY <1>1, <1>2, <1>3, PastStays DEF FilesMoveOn

\* Once closed, a file stays closed, and the reader passes by each in turn.
LEMMA FilesStep ==
  RecordingInv /\ [ReaderNext]_readerVars => FilesMoveOn
<1> SUFFICES ASSUME RecordingInv, [ReaderNext]_readerVars PROVE FilesMoveOn
  OBVIOUS
<1> USE DEF RecordingInv
<1>1. CASE SplitterSteps
  <2>1. UNCHANGED <<written, uri, outputInitialized, fileContexts>>
    BY <1>1 DEF SplitterSteps, SourceFrame, SourceEnds, FlushSubgraph, RunAgain, PendingPacket, PassOn, Encode, Deposit,
                recorder, file, history
  <2> QED BY <2>1, FilesStay
<1>2. CASE Rotate \/ Close
  BY <1>2, ClosingMovesOn
<1>3. CASE OpenSteps
  BY <1>3, OpeningMovesOn
<1>4. CASE WriteSaved \/ WritePacket
  BY <1>4, WritingMovesOn
<1>5. CASE NextFile
  BY <1>5, NextFileMovesOn
<1>6. CASE LearnDelay \/ DropEarly \/ ReturnFrame \/ ReadVideo \/ ReadAudio
  <2>1. UNCHANGED <<written, uri, outputInitialized, fileContexts>>
    BY <1>6 DEF LearnDelay, DropEarly, ReturnFrame, ReadVideo, ReadAudio, producer, recorder, file, history
  <2> QED BY <2>1, FilesStay
<1>7. CASE UNCHANGED flow
  BY <1>7, FilesStay DEF flow
<1> QED BY <1>1, <1>2, <1>3, <1>4, <1>5, <1>6, <1>7, StepCases DEF QueueSteps

\* A file that was recorded in memory stays there until it is moved, or cannot be.
Moved == DOMAIN storage \cup moveFailed
KeptInv == recordInRAM => \A n \in Names : Open(n) \/ n \in DOMAIN closedFiles \/ n \in Moved

StoredBy(S) == S /\ UNCHANGED <<storage, moveFailed>>
LEMMA StorageCases ==
  ASSUME [ReaderNext]_readerVars
  PROVE  /\ recordInRAM' = recordInRAM
         /\ \/ /\ UNCHANGED <<closedFiles, storage, moveFailed>>
               /\ SplitterSteps \/ WriteSaved \/ WritePacket \/ QueueSteps \/ UNCHANGED flow
            \/ StoredBy(Rotate \/ Close \/ OpenSteps)
            \/ Move
<1> USE DEF splitter, encoder, recorder, file, output, queue, history, counters, flow, StoredBy, reader
<1>1. CASE UNCHANGED readerVars
  BY <1>1 DEF readerVars, vars, producer
<1>2. CASE (Producer \/ RequestNewFile) /\ UNCHANGED reader
  <2>1. CASE SourceFrame \/ SourceEnds \/ PendingPacket \/ PassOn \/ Encode \/ Deposit
    <3>1. UNCHANGED <<recordInRAM, closedFiles>>
      BY <2>1 DEF SourceFrame, SourceEnds, RunAgain, PendingPacket, PassOn, Encode, Deposit
    <3> QED BY <1>2, <2>1, <3>1 DEF SplitterSteps
  <2>2. CASE Rotate \/ OpenSteps
    <3>1. recordInRAM' = recordInRAM
      BY <2>2 DEF Rotate, CloseOut, KeepInMemory, OpenSteps, OpenWaitsForSize, OpenWaitsForSps, OpenOut, OpenFails
    <3> QED BY <1>2, <2>2, <3>1
  <2>3. CASE WriteSaved \/ WritePacket
    <3>1. UNCHANGED <<recordInRAM, closedFiles>>
      BY <2>3 DEF WriteSaved, WritePacket
    <3> QED BY <1>2, <2>3, <3>1
  <2>4. CASE RequestNewFile
    BY <1>2, <2>4 DEF RequestNewFile
  <2> QED BY <1>2, <2>1, <2>2, <2>3, <2>4 DEF Producer, OpenSteps
<1>4. CASE Move
  BY <1>4 DEF Move
<1>5. CASE GetNewFrame \/ StreamStops
  BY <1>5 DEF GetNewFrame, BeginRead, StreamStops, ReadEnds, producer
<1>6. CASE LibraryReads
  <2>1. UNCHANGED <<recordInRAM, closedFiles, storage, moveFailed>>
    BY <1>6 DEF LibraryReads, LearnDelay, DropEarly, NextFile, NothingSettled, ReadVideo, ReadAudio, producer
  <2>2. CASE NothingSettled
    BY <2>1, <2>2 DEF NothingSettled, producer
  <2> QED BY <1>6, <2>1, <2>2 DEF LibraryReads, QueueSteps
<1>7. CASE FrameRead
  BY <1>7 DEF FrameRead, ReturnFrame, QueueSteps, producer
<1>8. CASE HandleFrame \/ FinalizeMover \/ CloseReader \/ AddLastFile \/ TerminateMover \/ Closed
  <2>1. UNCHANGED vars /\ UNCHANGED <<storage, moveFailed>>
    BY <1>8 DEF HandleFrame, FinalizeMover, CloseReader, AddLastFile, TerminateMover, Closed, readerVars
  <2> QED BY <2>1 DEF vars, producer
<1>9. CASE Flush
  BY <1>9 DEF Flush
<1>10. CASE CloseGraph
  BY <1>10 DEF CloseGraph, FlushSubgraph, RunAgain, SplitterSteps
<1>11. CASE FreeStreamData
  BY <1>11 DEF FreeStreamData, Close, CloseOut, KeepInMemory
<1> QED
  BY <1>1, <1>2, <1>4, <1>5, <1>6, <1>7, <1>8, <1>9, <1>10, <1>11 DEF ReaderNext

LEMMA KeptWhenClosed ==
  ASSUME NEW name, NEW bf, KeepInMemory(name, bf), recordInRAM
  PROVE  DOMAIN closedFiles' = DOMAIN closedFiles \cup {name}
BY DEF KeepInMemory, Filed

LEMMA MovingMoves ==
  ASSUME Move
  PROVE  /\ Moving /\ mover' = [mover EXCEPT !.alive = FALSE] /\ Moved' = Moved \cup {mover.clip.name}
         /\ recordInRAM => DOMAIN closedFiles' = DOMAIN closedFiles \ {mover.clip.name}
         /\ UNCHANGED <<written, uri, outputInitialized, fileContexts, recordInRAM, call, cur, database, served>>
<1>1. CASE SaveFromMemory(mover.clip.name)
  BY <1>1 DEF Move, SaveFromMemory, Stopped, Moved, Filed, history, queue
<1>2. CASE MoveOnDisk(mover.clip.name)
  BY <1>2 DEF Move, MoveOnDisk, Stopped, Moved, Filed, history, queue
<1> QED BY <1>1, <1>2 DEF Move

LEMMA KeptStep ==
  ASSUME RecordingInv, KeptInv, [ReaderNext]_readerVars PROVE KeptInv'
<1> SUFFICES ASSUME recordInRAM', NEW n \in Names' PROVE Open(n)' \/ n \in DOMAIN closedFiles' \/ n \in Moved'
  BY DEF KeptInv
<1> USE DEF RecordingInv
<1>1. recordInRAM /\ \A m \in Names : Open(m) \/ m \in DOMAIN closedFiles \/ m \in Moved
  BY StorageCases DEF KeptInv
<1>2. CASE UNCHANGED <<closedFiles, storage, moveFailed>> /\ (SplitterSteps \/ QueueSteps \/ UNCHANGED flow)
  <2>1. UNCHANGED <<written, uri, outputInitialized>>
    BY <1>2, FileUntouched DEF fileVars
  <2> QED BY <1>1, <1>2, <2>1 DEF Names, Open, Moved
<1>3. CASE UNCHANGED <<closedFiles, storage, moveFailed>> /\ (WriteSaved \/ WritePacket)
  <2>1. outputInitialized /\ UNCHANGED <<outputInitialized, uri>> /\ (n \in Names \/ n = uri)
    BY <1>3, WritingMovesOn
  <2> QED BY <1>1, <1>3, <2>1 DEF Open, Moved
<1>4. CASE StoredBy(OpenSteps)
  <2>1. n \in Names /\ ~Open(n) /\ Moved' = Moved
    BY <1>4, OpeningMovesOn DEF StoredBy, Open, Moved
  <2>2. DOMAIN closedFiles \subseteq DOMAIN closedFiles'
    <3>1. CASE OpenFails
      <4>1. CASE KeepInMemory(IF Known(uri) THEN uri ELSE NextTs, EmptyFile)
        BY <1>1, <4>1, KeptWhenClosed
      <4>2. CASE UNCHANGED output
        BY <4>2 DEF output
      <4> QED BY <3>1, <4>1, <4>2 DEF OpenFails
    <3>2. CASE OpenWaitsForSize \/ OpenWaitsForSps \/ OpenOut
      BY <3>2 DEF OpenWaitsForSize, OpenWaitsForSps, OpenOut, output
    <3> QED BY <1>4, <3>1, <3>2 DEF StoredBy, OpenSteps
  <2> QED BY <1>1, <2>1, <2>2
<1>5. CASE StoredBy(Rotate \/ Close)
  <2>1. n \in Names /\ Moved' = Moved
    BY <1>5, ClosingMovesOn DEF StoredBy, Moved
  <2>2. CASE CloseOut
    <3>1. DOMAIN closedFiles' = DOMAIN closedFiles \cup {uri}
      BY <1>1, <2>2, KeptWhenClosed DEF CloseOut
    <3> QED BY <1>1, <2>1, <3>1 DEF Open
  <2>3. CASE ~outputInitialized /\ UNCHANGED output
    BY <1>1, <2>1, <2>3 DEF Open, output
  <2> QED BY <1>5, <2>2, <2>3 DEF StoredBy, Rotate, Close
<1>6. CASE Move
  <2>1. Names' = Names /\ (Open(n)' <=> Open(n))
    BY <1>6, MovingMoves DEF Names, Open
  <2> QED BY <1>1, <1>6, <2>1, MovingMoves
<1>7. \/ UNCHANGED <<closedFiles, storage, moveFailed>> /\ (SplitterSteps \/ QueueSteps \/ UNCHANGED flow)
      \/ UNCHANGED <<closedFiles, storage, moveFailed>> /\ (WriteSaved \/ WritePacket)
      \/ StoredBy(OpenSteps) \/ StoredBy(Rotate \/ Close) \/ Move
  BY StorageCases DEF StoredBy
<1> QED BY <1>2, <1>3, <1>4, <1>5, <1>6, <1>7

\* The places of the reader, and what it has there.
Ended == {"terminate", "closed"}
ReaderTypes ==
  /\ database \in Seq(Clip) /\ cur \in Clip /\ mover \in Mover \cup {None} /\ served \in Seq(Showing)
  /\ cur = NoClip => database = << >> /\ mover = None
CallInv ==
  /\ rpc # "idle" <=> call = "read"
  /\ call = "last" => ppc = "closed"
  /\ ppc = "closed" => ~outputInitialized
  /\ call = "frame" => returned \in Showing

LEMMA MoverParts ==
  ASSUME NEW m \in Mover
  PROVE  /\ m # None /\ m.clip \in Clip /\ m.alive \in BOOLEAN
         /\ [m EXCEPT !.alive = FALSE] \in Mover
         /\ [m EXCEPT !.alive = FALSE].clip = m.clip /\ [m EXCEPT !.alive = FALSE].alive = FALSE
BY ReaderAssumption DEF Mover

LEMMA NewMover ==
  ASSUME NEW c \in Clip
  PROVE  /\ [clip |-> c, alive |-> TRUE] \in Mover
         /\ [clip |-> c, alive |-> TRUE].clip = c /\ [clip |-> c, alive |-> TRUE].alive = TRUE
BY DEF Mover

LEMMA MoverKnown ==
  ASSUME ReaderTypes, Known(mover)
  PROVE  mover \in Mover /\ mover.clip \in Clip /\ mover.clip.name \in Nat \cup {None}
BY MoverParts DEF ReaderTypes, Known, Clip

\* The steps of the recorder and of the library, which are nothing to the reader; those of a call; and the reads.
Quiet == UNCHANGED <<call, cur, mover, database, served, rpc, returned>>
OnCall ==
  /\ UNCHANGED <<cur, mover, database, served, returned>>
  /\ call \notin Ended \cup {"frame", "read"} /\ call' \notin Ended \cup {"frame"}
  /\ rpc' # "idle" <=> call' = "read"
  /\ call' = "last" => Close
CallEnds == StreamStops /\ UNCHANGED <<cur, mover, database, served, returned>>
Fetching == UNCHANGED <<call, cur, mover, database, served, returned>> /\ rpc # "idle" /\ rpc' # "idle"
OnClips == HandleFrame \/ FinalizeMover \/ AddLastFile \/ TerminateMover

LEMMA ReaderCases ==
  ASSUME [ReaderNext]_readerVars, CallInv
  PROVE  Quiet \/ OnCall \/ CallEnds \/ Fetching \/ Move \/ FrameRead \/ OnClips
<1> USE DEF reader, queue, history
<1>1. CASE UNCHANGED readerVars
  BY <1>1 DEF readerVars, vars, Quiet
<1>2. CASE (Producer \/ RequestNewFile) /\ UNCHANGED reader
  <2>1. UNCHANGED <<rpc, returned>>
    BY <1>2 DEF Producer, SourceFrame, SourceEnds, RunAgain, PendingPacket, PassOn, Encode, Deposit, Rotate,
                OpenWaitsForSize, OpenWaitsForSps, OpenOut, OpenFails, WriteSaved, WritePacket, RequestNewFile
  <2> QED BY <1>2, <2>1 DEF Quiet
<1>3. CASE Move
  BY <1>3
<1>4. CASE GetNewFrame
  BY <1>4 DEF GetNewFrame, BeginRead, OnCall, Ended
<1>5. CASE StreamStops
  BY <1>5 DEF StreamStops, ReadEnds, CallEnds
<1>6. CASE LibraryReads
  BY <1>6 DEF LibraryReads, LearnDelay, DropEarly, NextFile, NothingSettled, ReadVideo, ReadAudio, HasCandidate, Fetching
<1>7. CASE FrameRead
  BY <1>7
<1>8. CASE HandleFrame \/ FinalizeMover \/ AddLastFile \/ TerminateMover
  BY <1>8 DEF OnClips
<1>9. CASE CloseReader
  BY <1>9 DEF CloseReader, vars, OnCall, CallInv, Ended
<1>10. CASE Closed
  BY <1>10 DEF Closed, readerVars, vars, Quiet
<1>11. CASE Flush
  BY <1>11 DEF Flush, OnCall, CallInv, Ended
<1>12. CASE CloseGraph
  BY <1>12 DEF CloseGraph, FlushSubgraph, RunAgain, Quiet
<1>13. CASE FreeStreamData
  BY <1>13 DEF FreeStreamData, Close, OnCall, CallInv, Ended
<1> QED
  BY <1>1, <1>2, <1>3, <1>4, <1>5, <1>6, <1>7, <1>8, <1>9, <1>10, <1>11, <1>12, <1>13 DEF ReaderNext

\* What the synchroniser returns.
LEMMA ReturnedShows ==
  ASSUME TypeInv, FrameRead
  PROVE  /\ returned' \in Showing /\ Head(fileContexts).name = returned'.name /\ fileContexts # << >>
         /\ served' = Append(served, returned')
         /\ UNCHANGED <<cur, mover, database>> /\ rpc # "idle" /\ rpc' = "idle" /\ call' = "frame"
         /\ frames # << >> /\ returned'.pts = Head(frames).pts
         /\ UNCHANGED <<ppc, frame, edge, outputInitialized, fileContexts>> /\ frames' = Tail(frames)
<1>1. /\ frames # << >> /\ fileContexts # << >> /\ rpc = "queue" /\ fileContexts' = fileContexts
      /\ returned' = [pts |-> Head(frames).pts, name |-> Head(fileContexts).name] /\ rpc' = "idle" /\ call' = "frame"
      /\ UNCHANGED <<cur, mover, database, ppc, frame, edge, outputInitialized>> /\ frames' = Tail(frames)
      /\ served' = Append(served, returned')
  BY DEF FrameRead, ReturnFrame, HasCandidate, Candidate, Current, producer, splitter, recorder, file
<1>2. Head(frames).pts \in Nat
  BY <1>1, TailIn, FrameParts DEF TypeInv, SynchroniserTypes
<1>3. Head(fileContexts).name \in Nat
  <2>1. fileContexts \in Seq(Context)
    BY DEF TypeInv, SynchroniserTypes
  <2>2. Head(fileContexts) \in Context
    BY <1>1, <2>1, HeadTailProperties
  <2> QED BY <2>2 DEF Context
<1> QED BY <1>1, <1>2, <1>3 DEF Showing

LEMMA ClosedStays ==
  ASSUME [ReaderNext]_readerVars, TypeInv, CallInv
  PROVE  /\ ppc = "closed" => ppc' = "closed"
         /\ ppc' = "closed" => ~outputInitialized'
<1>1. CASE SplitterSteps
  <2>1. ppc \in {"source", "encoder", "retry", "deposit", "ended"} /\ ppc' # "closed"
    BY <1>1 DEF SplitterSteps, SourceFrame, SourceEnds, FlushSubgraph, RunAgain, PendingPacket, PassOn, Encode, Deposit,
                Gets, Reads, Offer
  <2> QED BY <2>1
<1>2. CASE Rotate \/ Close
  <2>1. outputInitialized' = FALSE /\ ppc \in {"check", "flushed"}
    BY <1>2 DEF Rotate, Close, CloseOut, Reset
  <2> QED BY <2>1
<1>3. CASE OpenSteps
  <2>1. ppc \in {"check", "open", "reopen"} /\ ppc' # "closed"
    BY <1>3 DEF OpenSteps, OpenWaitsForSize, OpenWaitsForSps, OpenOut, OpenFails, Opening, LeaveUnopened
  <2> QED BY <2>1
<1>4. CASE WriteSaved \/ WritePacket
  BY <1>4, WritingFacts
<1>5. CASE QueueSteps
  <2>1. UNCHANGED <<ppc, outputInitialized>>
    BY <1>5 DEF QueueSteps, LearnDelay, DropEarly, NextFile, ReturnFrame, ReadVideo, ReadAudio, producer, recorder, file
  <2> QED BY <2>1 DEF CallInv
<1>6. CASE UNCHANGED flow
  BY <1>6 DEF flow, CallInv
<1> QED BY <1>1, <1>2, <1>3, <1>4, <1>5, <1>6, StepCases

LEMMA CallStep ==
  ASSUME [ReaderNext]_readerVars, TypeInv, CallInv PROVE CallInv'
<1>1. (ppc = "closed" => ppc' = "closed") /\ (ppc' = "closed" => ~outputInitialized')
  BY ClosedStays
<1>2. CASE Quiet
  BY <1>1, <1>2 DEF Quiet, CallInv
<1>3. CASE OnCall
  <2>1. Close => ppc' = "closed"
    BY DEF Close
  <2> QED BY <1>1, <1>3, <2>1 DEF OnCall, CallInv
<1>4. CASE CallEnds
  BY <1>1, <1>4 DEF CallEnds, StreamStops, ReadEnds, CallInv
<1>5. CASE Fetching
  BY <1>1, <1>5 DEF Fetching, CallInv
<1>6. CASE Move
  BY <1>1, <1>6 DEF Move, queue, history, CallInv
<1>7. CASE FrameRead
  BY <1>1, <1>7, ReturnedShows DEF CallInv
<1>8. CASE OnClips
  <2>1. rpc' = rpc /\ call # "read" /\ call' \notin {"read", "last", "frame"}
    BY <1>8 DEF OnClips, HandleFrame, FinalizeMover, AddLastFile, TerminateMover, vars, queue
  <2> QED BY <1>1, <2>1 DEF CallInv
<1> QED BY <1>2, <1>3, <1>4, <1>5, <1>6, <1>7, <1>8, ReaderCases

\* The clips but the one that is being read.
PastClips == database \o Finished
LEMMA FinishedSays ==
  ASSUME ReaderTypes
  PROVE  /\ PastClips \in Seq(Clip)
         /\ PastClips = IF Known(mover) THEN Append(database, mover.clip) ELSE database
<1>1. database \in Seq(Clip)
  BY DEF ReaderTypes
<1>2. CASE Known(mover)
  <2>1. mover.clip \in Clip
    BY <1>2, MoverKnown
  <2>2. database \o <<mover.clip>> = Append(database, mover.clip)
    BY <1>1, <2>1, AppendIsConcat
  <2> QED BY <1>1, <1>2, <2>1, <2>2, AppendProperties DEF PastClips, Finished
<1>3. CASE ~Known(mover)
  <2>1. database \o << >> = database
    BY <1>1, ConcatEmptySeq
  <2> QED BY <1>1, <1>3, <2>1 DEF PastClips, Finished
<1> QED BY <1>2, <1>3

\* What a step of the reader does to the clips: it adds the file it is reading, it sees what the mover
\* does, or it reads on.
Adds ==
  /\ cur # NoClip /\ ~Moving
  /\ database' = PastClips /\ mover' = [clip |-> cur, alive |-> TRUE]
Sees == ~Moving /\ database' = PastClips /\ mover' = None /\ cur' = cur
ReadsOn == UNCHANGED <<mover, database>>
Begun == cur' = [name |-> returned.name, start |-> returned.pts, last |-> returned.pts, prev |-> cur.name]

LEMMA ClipSteps ==
  ASSUME OnClips
  PROVE  /\ UNCHANGED <<served, returned, written, uri, outputInitialized, fileContexts, storage, moveFailed,
                        closedFiles, recordInRAM, ppc, rpc, frames, edge, frame, source, framesRead>>
         /\ \/ /\ call = "frame" /\ call' = "finalize"
               /\ \/ returned.name = cur.name /\ cur' = [cur EXCEPT !.last = returned.pts] /\ ReadsOn
                  \/ returned.name # cur.name /\ Begun /\ (Adds \/ (cur = NoClip /\ ReadsOn))
            \/ call = "last" /\ call' = "terminate" /\ cur' = cur /\ (Adds \/ (cur = NoClip /\ ReadsOn))
            \/ call \in {"finalize", "terminate"} /\ call' \in {"idle", "closed"} /\ Sees
               /\ (call = "terminate" <=> call' = "closed")
            \/ call = "finalize" /\ call' = "idle" /\ cur' = cur /\ ReadsOn
<1>1. /\ UNCHANGED <<served, returned, written, uri, outputInitialized, fileContexts, storage, moveFailed,
                     closedFiles, recordInRAM, ppc, rpc, frames, edge, frame, source, framesRead>>
  <2>1. UNCHANGED vars /\ UNCHANGED <<served, storage, moveFailed>>
    BY DEF OnClips, HandleFrame, FinalizeMover, AddLastFile, TerminateMover
  <2> QED BY <2>1 DEF vars, producer, splitter, recorder, file, output, queue, counters, history
<1>2. CASE HandleFrame
  BY <1>1, <1>2 DEF HandleFrame, AddFileToDb, Adds, ReadsOn, Begun, PastClips
<1>3. CASE FinalizeMover
  BY <1>1, <1>3 DEF FinalizeMover, Sees, ReadsOn, PastClips
<1>4. CASE AddLastFile
  BY <1>1, <1>4 DEF AddLastFile, AddFileToDb, Adds, ReadsOn, PastClips
<1>5. CASE TerminateMover
  BY <1>1, <1>5 DEF TerminateMover, Sees, PastClips
<1> QED BY <1>2, <1>3, <1>4, <1>5 DEF OnClips

LEMMA ClipShown ==
  ASSUME NEW f \in Showing
  PROVE  /\ \A c \in Clip : [c EXCEPT !.last = f.pts] \in Clip /\ [c EXCEPT !.last = f.pts].name = c.name
         /\ \A c \in Clip : \A d : d = [name |-> f.name, start |-> f.pts, last |-> f.pts, prev |-> c.name] =>
              d \in Clip /\ d.name = f.name /\ d.start = f.pts /\ d.last = f.pts /\ d.prev = c.name
         /\ f.name # NoClip.name /\ NoClip.name = None /\ f.name \in Nat /\ f.pts \in Nat
BY NoneApart DEF Clip, Showing, NoClip

LEMMA ReaderStep ==
  ASSUME ReaderTypes, CallInv, TypeInv, [ReaderNext]_readerVars PROVE ReaderTypes'
<1> DEFINE Goal == /\ database' \in Seq(Clip) /\ cur' \in Clip /\ mover' \in Mover \cup {None} /\ served' \in Seq(Showing)
                   /\ cur' = NoClip => database' = << >> /\ mover' = None
<1>1. CASE Quiet \/ OnCall \/ CallEnds \/ Fetching
  BY <1>1 DEF Quiet, OnCall, CallEnds, Fetching, ReaderTypes
<1>2. CASE Move
  <2>1. Moving /\ mover' = [mover EXCEPT !.alive = FALSE] /\ UNCHANGED <<cur, database, served>>
    BY <1>2, MovingMoves
  <2>2. mover \in Mover /\ cur # NoClip
    BY <2>1, MoverKnown DEF Moving, ReaderTypes, Known
  <2>3. mover' \in Mover
    BY <2>1, <2>2, MoverParts
  <2> QED BY <2>1, <2>2, <2>3 DEF ReaderTypes
<1>3. CASE FrameRead
  <2>1. returned' \in Showing /\ served' = Append(served, returned') /\ UNCHANGED <<cur, mover, database>>
    BY <1>3, ReturnedShows
  <2>2. served' \in Seq(Showing)
    BY <2>1, AppendProperties DEF ReaderTypes
  <2> QED BY <2>1, <2>2 DEF ReaderTypes
<1>4. CASE OnClips
  <2>1. UNCHANGED served
    BY <1>4, ClipSteps
  <2>2. cur \in Clip /\ (cur = NoClip => database = << >> /\ mover = None) /\ mover \in Mover \cup {None}
        /\ database \in Seq(Clip) /\ served \in Seq(Showing)
    BY DEF ReaderTypes
  <2>3. call = "frame" => returned \in Showing
    BY DEF CallInv
  <2>4. Adds \/ Sees \/ ReadsOn
    BY <1>4, ClipSteps
  <2>5. database' \in Seq(Clip) /\ mover' \in Mover \cup {None}
    BY <2>2, <2>4, FinishedSays, NewMover DEF Adds, Sees, ReadsOn
  <2>6. CASE cur' = cur
    <3>1. cur = NoClip => database' = << >> /\ mover' = None
      <4>1. CASE cur = NoClip
        <5>1. PastClips = database
          BY <2>2, <4>1, FinishedSays DEF Known
        <5> QED BY <2>2, <2>4, <4>1, <5>1 DEF Adds, Sees, ReadsOn
      <4> QED BY <4>1
    <3> QED BY <2>1, <2>2, <2>5, <2>6, <3>1 DEF ReaderTypes
  <2>7. CASE call = "frame" /\ (Begun \/ (returned.name = cur.name /\ cur' = [cur EXCEPT !.last = returned.pts]))
    <3>1. returned \in Showing
      BY <2>3, <2>7
    <3>2. cur' \in Clip /\ cur'.name = returned.name
      <4>1. CASE Begun
        BY <2>2, <4>1, <3>1, ClipShown DEF Begun
      <4>2. CASE returned.name = cur.name /\ cur' = [cur EXCEPT !.last = returned.pts]
        BY <2>2, <4>2, <3>1, ClipShown
      <4> QED BY <2>7, <4>1, <4>2
    <3>3. cur' # NoClip
      BY <3>1, <3>2, ClipShown
    <3> QED BY <2>1, <2>2, <2>5, <3>2, <3>3 DEF ReaderTypes
  <2> QED BY <1>4, <2>6, <2>7, ClipSteps DEF Sees
<1> QED BY <1>1, <1>2, <1>3, <1>4, ReaderCases

\* The frames are returned as they came, those that wait after those that were.
ServedInv ==
  /\ \A i, j \in 1..Len(served) : i < j => served[i].pts < served[j].pts
  /\ \A k \in 1..Len(served) : served[k].pts \in Times /\ \A y \in Pending : served[k].pts < y.pts

LEMMA ServedSame ==
  ASSUME [ReaderNext]_readerVars, CallInv PROVE served' = served \/ FrameRead
<1>1. CASE Move
  BY <1>1, MovingMoves
<1>2. CASE OnClips
  BY <1>2, ClipSteps
<1> QED BY <1>1, <1>2, ReaderCases DEF Quiet, OnCall, CallEnds, Fetching

LEMMA ServedStep ==
  ASSUME TypeInv, FlowInv, Onward, ServedInv, ReaderTypes, CallInv, [ReaderNext]_readerVars PROVE ServedInv'
<1>1. Times \subseteq Times'
  BY DEF Onward, Times
<1>2. CASE served' = served
  <2>1. \A k \in 1..Len(served) : served[k].pts \in Times /\ \A y \in Pending : served[k].pts < y.pts
    BY DEF ServedInv
  <2>2. ASSUME NEW k \in 1..Len(served), NEW y \in Pending' PROVE served[k].pts < y.pts
    BY <2>1, FreshTimes DEF Onward
  <2> QED BY <1>1, <1>2, <2>1, <2>2 DEF ServedInv
<1>3. CASE FrameRead
  <2> DEFINE h == Head(frames)
             m == Len(served)
  <2>1. /\ returned' \in Showing /\ served' = Append(served, returned') /\ frames # << >> /\ returned'.pts = h.pts
        /\ UNCHANGED <<ppc, frame, edge>> /\ frames' = Tail(frames)
    BY <1>3, ReturnedShows
  <2>2. frames \in Seq(Frame)
    BY DEF TypeInv, SynchroniserTypes
  <2>3. /\ h \in In(frames) /\ In(frames) = In(frames') \cup {h}
        /\ \A x \in In(frames') : h.pts < x.pts
    BY <2>1, <2>2, TailIn DEF FlowInv, PendingInv
  <2>4. Undeposited' = Undeposited
    BY <2>1 DEF Undeposited
  <2>5. Pending' = In(frames') \cup In(edge) \cup Undeposited
    BY <2>1, <2>4 DEF Pending
  <2>6. h \in Pending /\ h.pts \in Times /\ Pending' \subseteq Pending /\ \A y \in Pending' : h.pts < y.pts
    BY <2>3, <2>5 DEF Pending, Times, FlowInv, DeliveredInv, PendingInv
  <2>7. /\ m \in Nat /\ Len(served') = m + 1 /\ served'[m + 1] = returned' /\ \A i \in 1..m : served'[i] = served[i]
    BY <2>1, AppendFacts DEF ReaderTypes
  <2> HIDE DEF m, h
  <2>8. \A k \in 1..m : served[k].pts \in Times /\ \A y \in Pending : served[k].pts < y.pts
    BY DEF ServedInv, m
  <2>9. \A i, j \in 1..m : i < j => served[i].pts < served[j].pts
    BY DEF ServedInv, m
  <2>10. \A i \in 1..(m + 1) : i \in 1..m \/ i = m + 1
    BY <2>7
  <2>11. ASSUME NEW i \in 1..(m + 1), NEW j \in 1..(m + 1), i < j PROVE served'[i].pts < served'[j].pts
    <3>1. i \in 1..m
      BY <2>7, <2>11
    <3>2. CASE j \in 1..m
      BY <2>7, <2>9, <2>11, <3>1, <3>2
    <3>3. CASE j = m + 1
      BY <2>1, <2>6, <2>7, <2>8, <3>1, <3>3
    <3> QED BY <2>10, <3>2, <3>3
  <2>12. ASSUME NEW k \in 1..(m + 1)
         PROVE  served'[k].pts \in Times' /\ \A y \in Pending' : served'[k].pts < y.pts
    <3>1. CASE k \in 1..m
      BY <1>1, <2>6, <2>7, <2>8, <3>1
    <3>2. CASE k = m + 1
      BY <1>1, <2>1, <2>6, <2>7, <3>2
    <3> QED BY <2>10, <3>1, <3>2
  <2> QED BY <2>7, <2>11, <2>12 DEF ServedInv
<1> QED BY <1>2, <1>3, ServedSame

\* All clips, of which the last is the one that is being read.
Reading == cur # NoClip /\ call \notin Ended
ClipsSay ==
  /\ Clips \in Seq(Clip)
  /\ Clips = IF Reading THEN Append(PastClips, cur) ELSE PastClips
LEMMA ClipsAre == ReaderTypes => ClipsSay
<1> SUFFICES ASSUME ReaderTypes PROVE ClipsSay
  OBVIOUS
<1>1. PastClips \in Seq(Clip) /\ cur \in Clip /\ Clips = PastClips \o (IF Reading THEN <<cur>> ELSE << >>)
  BY FinishedSays DEF ReaderTypes, Clips, PastClips, Reading, Ended
<1>2. PastClips \o << >> = PastClips /\ PastClips \o <<cur>> = Append(PastClips, cur)
  BY <1>1, ConcatEmptySeq, AppendIsConcat
<1> QED BY <1>1, <1>2, AppendProperties DEF ClipsSay

LEMMA NamesOfAppend ==
  ASSUME NEW S, NEW s \in Seq(S), NEW e \in S
  PROVE  NamesIn(Append(s, e)) = NamesIn(s) \cup {e.name}
<1>1. /\ Len(s) \in Nat /\ DOMAIN s = 1..Len(s) /\ DOMAIN Append(s, e) = 1..(Len(s) + 1)
      /\ Append(s, e)[Len(s) + 1] = e /\ \A i \in 1..Len(s) : Append(s, e)[i] = s[i]
  BY AppendFacts
<1>2. \A i : i \in 1..(Len(s) + 1) <=> i \in 1..Len(s) \/ i = Len(s) + 1
  BY <1>1
<1> QED BY <1>1, <1>2 DEF NamesIn

PastSays ==
  /\ PastClips \in Seq(Clip)
  /\ PastClips = IF Known(mover) THEN Append(database, mover.clip) ELSE database
LEMMA PastAre == ReaderTypes => PastSays
BY FinishedSays DEF PastSays

\* The steps by which no clip begins, or changes.
Settling ==
  /\ UNCHANGED <<cur, served, returned>> /\ Clips' = Clips
  /\ call = "frame" <=> call' = "frame"
  /\ call = "frame" => ~NextFile
LEMMA AddedOrSeen ==
  ASSUME PastSays, PastSays', ReaderTypes
  PROVE  /\ Adds => PastClips' = Append(PastClips, cur)
         /\ Sees \/ ReadsOn => PastClips' = PastClips
<1>1. ASSUME Adds PROVE PastClips' = Append(PastClips, cur)
  <2>1. mover' # None /\ mover'.clip = cur /\ database' = PastClips
    BY <1>1, NewMover, MoverParts DEF Adds, ReaderTypes
  <2> QED BY <2>1 DEF PastSays, Known
<1>2. ASSUME Sees PROVE PastClips' = PastClips
  BY <1>2 DEF PastSays, Known, Sees
<1>3. ASSUME ReadsOn PROVE PastClips' = PastClips
  BY <1>3 DEF PastSays, ReadsOn, Known
<1> QED BY <1>1, <1>2, <1>3

LEMMA Settles ==
  ASSUME [ReaderNext]_readerVars, CallInv, ReaderTypes, ReaderTypes', ~FrameRead, OnClips => call # "frame"
  PROVE  Settling
<1>1. ClipsSay /\ ClipsSay' /\ PastSays /\ PastSays'
  BY ClipsAre, PastAre, PTL
<1>2. NextFile => rpc = "queue"
  BY DEF NextFile, HasCandidate
<1>3. call = "frame" => ~NextFile
  BY <1>2 DEF CallInv
<1>4. CASE Quiet \/ OnCall \/ CallEnds \/ Fetching
  <2>1. UNCHANGED <<cur, mover, database, served, returned>> /\ (call = "frame" <=> call' = "frame")
        /\ (call \in Ended <=> call' \in Ended)
    BY <1>4 DEF Quiet, OnCall, CallEnds, Fetching, StreamStops, ReadEnds, CallInv, Ended
  <2>2. PastClips' = PastClips /\ (Reading' <=> Reading)
    BY <2>1 DEF PastClips, Finished, Reading
  <2> QED BY <1>1, <1>3, <2>1, <2>2 DEF ClipsSay, Settling
<1>5. CASE Move
  <2>1. /\ Moving /\ mover' = [mover EXCEPT !.alive = FALSE] /\ UNCHANGED <<call, cur, database, served>>
    BY <1>5, MovingMoves
  <2>2. returned' = returned
    BY <1>5 DEF Move, history
  <2>3. Known(mover) /\ Known(mover') /\ mover'.clip = mover.clip
    BY <2>1, MoverKnown, MoverParts DEF Moving, Known
  <2>4. PastClips' = PastClips /\ (Reading' <=> Reading)
    BY <1>1, <2>1, <2>3 DEF PastSays, Reading
  <2> QED BY <1>1, <1>3, <2>1, <2>2, <2>4 DEF ClipsSay, Settling
<1>6. CASE OnClips
  <2>1. UNCHANGED <<served, returned, cur>> /\ call # "frame" /\ call' # "frame"
    BY <1>6, ClipSteps DEF Sees
  <2>2. Adds => PastClips' = Append(PastClips, cur)
    BY <1>1, AddedOrSeen
  <2>3. Sees \/ ReadsOn => PastClips' = PastClips
    BY <1>1, AddedOrSeen
  <2>4. CASE call = "last" /\ call' = "terminate" /\ Adds
    <3>1. Reading /\ ~Reading'
      BY <2>4 DEF Adds, Reading, Ended
    <3> QED BY <1>1, <1>3, <2>1, <2>2, <2>4, <3>1 DEF ClipsSay, Settling
  <2>5. CASE (Sees \/ ReadsOn) /\ (cur = NoClip \/ (call \in Ended <=> call' \in Ended))
    <3>1. Reading' <=> Reading
      BY <2>1, <2>5 DEF Reading
    <3> QED BY <1>1, <1>3, <2>1, <2>3, <2>5, <3>1 DEF ClipsSay, Settling
  <2> QED BY <1>6, <2>1, <2>4, <2>5, ClipSteps DEF Ended
<1> QED BY <1>4, <1>5, <1>6, ReaderCases

\* What was shown before the frame that is being looked at, and what the clips say of it.
ShownBefore(s) ==
  /\ call # "frame" => s = served
  /\ call = "frame" => IsCurrent(returned.name) /\ served = Append(s, returned)
  /\ Told(Clips, s)
  /\ \A k \in 1..Len(s) : s[k].name \in Past \/ (IsCurrent(s[k].name) /\ s[k].name = cur.name)
ToldInv == \E s \in Seq(Showing) : ShownBefore(s)

LEMMA ShownStays ==
  ASSUME FilesMoveOn, Settling, NEW s \in Seq(Showing), ShownBefore(s) PROVE ShownBefore(s)'
<1>1. UNCHANGED <<cur, served, returned>> /\ Clips' = Clips /\ (call = "frame" <=> call' = "frame")
      /\ (call = "frame" => ~NextFile)
  BY DEF Settling
<1>2. \A n : n \in Past => n \in Past'
  BY DEF FilesMoveOn
<1>3. \A n : IsCurrent(n) => IsCurrent(n)' \/ (NextFile /\ n \in Past')
  BY DEF FilesMoveOn, Turn
<1>4. call' # "frame" => s = served'
  BY <1>1 DEF ShownBefore
<1>5. call' = "frame" => served' = Append(s, returned')
  BY <1>1 DEF ShownBefore
<1>6. call' = "frame" => IsCurrent(returned.name)'
  <2>1. PICK n : n = returned.name
    OBVIOUS
  <2>2. call' = "frame" => IsCurrent(n)'
    BY <1>1, <1>3, <2>1 DEF ShownBefore
  <2>3. returned'.name = n
    BY <1>1, <2>1
  <2> QED BY <2>2, <2>3 DEF IsCurrent
<1>7. Told(Clips, s)'
  <2>1. Told(Clips, s)
    BY DEF ShownBefore
  <2>2. PICK c : c = Clips
    OBVIOUS
  <2>3. Told(c, s) /\ Clips' = c
    BY <1>1, <2>1, <2>2
  <2>4. Told(Clips', s)
    BY <2>3
  <2> QED BY <2>4, Zenon DEF Told, Begins, Ends
<1>8. ASSUME NEW k \in 1..Len(s) PROVE s[k].name \in Past' \/ (IsCurrent(s[k].name)' /\ s[k].name = cur'.name)
  <2>1. s[k].name \in Past \/ (IsCurrent(s[k].name) /\ s[k].name = cur.name)
    BY DEF ShownBefore
  <2> QED BY <1>1, <1>2, <1>3, <2>1
<1> QED BY <1>4, <1>5, <1>6, <1>7, <1>8 DEF ShownBefore

LEMMA ShownAsRead ==
  ASSUME FrameRead, TypeInv, CallInv, ReaderTypes, ReaderTypes', FilesMoveOn, NEW s \in Seq(Showing), ShownBefore(s)
  PROVE  ShownBefore(s)'
<1>1. /\ returned' \in Showing /\ Head(fileContexts).name = returned'.name /\ fileContexts # << >>
      /\ served' = Append(served, returned') /\ UNCHANGED <<cur, mover, database, fileContexts>>
      /\ rpc # "idle" /\ call' = "frame"
  BY ReturnedShows
<1>2. call = "read" /\ s = served
  BY <1>1 DEF CallInv, ShownBefore
<1>3. ClipsSay /\ ClipsSay'
  BY ClipsAre, PTL
<1>4. PastClips' = PastClips /\ (Reading' <=> Reading)
  BY <1>1, <1>2 DEF PastClips, Finished, Reading, Ended
<1>5. Clips' = Clips
  BY <1>1, <1>3, <1>4 DEF ClipsSay
<1>6. Told(Clips, s)'
  <2>1. Told(Clips, s)
    BY DEF ShownBefore
  <2>2. PICK c : c = Clips
    OBVIOUS
  <2>3. Told(c, s) /\ Clips' = c
    BY <1>5, <2>1, <2>2
  <2>4. Told(Clips', s)
    BY <2>3
  <2> QED BY <2>4, Zenon DEF Told, Begins, Ends
<1>7. ASSUME NEW k \in 1..Len(s) PROVE s[k].name \in Past' \/ (IsCurrent(s[k].name)' /\ s[k].name = cur'.name)
  <2>1. s[k].name \in Past \/ (IsCurrent(s[k].name) /\ s[k].name = cur.name)
    BY DEF ShownBefore
  <2>2. IsCurrent(s[k].name) => IsCurrent(s[k].name)'
    BY <1>1 DEF IsCurrent
  <2> QED BY <1>1, <2>1, <2>2 DEF FilesMoveOn
<1>8. call' = "frame" => IsCurrent(returned.name)'
  BY <1>1 DEF IsCurrent
<1>9. call' = "frame" => served' = Append(s, returned')
  BY <1>1, <1>2
<1> QED BY <1>1, <1>6, <1>7, <1>8, <1>9 DEF ShownBefore

LEMMA CurrentNotPast ==
  ASSUME TypeInv, NEW n, IsCurrent(n) PROVE n \notin Past
<1>1. fileContexts # << >> /\ fileContexts \in Seq(Context) /\ Head(fileContexts).name = n
  BY DEF IsCurrent, TypeInv, SynchroniserTypes
<1>2. Len(fileContexts) \in Nat /\ Len(fileContexts) # 0 /\ DOMAIN fileContexts = 1..Len(fileContexts)
      /\ Head(fileContexts) = fileContexts[1]
  BY <1>1, EmptySeq, LenProperties, HeadTailProperties
<1>3. 1 \in DOMAIN fileContexts
  BY <1>2
<1>4. fileContexts[1] \in Contexts
  BY <1>3 DEF Contexts, In
<1> QED BY <1>1, <1>2, <1>4 DEF Past

\* A frame of another file is of one that no clip is of.
LEMMA ShownIsNew ==
  ASSUME TypeInv, call = "frame", NEW s \in Seq(Showing), ShownBefore(s), returned.name # cur.name
  PROVE  \A k \in 1..Len(s) : s[k].name # returned.name /\ s[k].name \in Past
<1>1. IsCurrent(returned.name)
  BY DEF ShownBefore
<1>2. returned.name \notin Past
  BY <1>1, CurrentNotPast
<1>3. ASSUME NEW k \in 1..Len(s), IsCurrent(s[k].name), s[k].name = cur.name PROVE FALSE
  BY <1>1, <1>3 DEF IsCurrent
<1>4. \A k \in 1..Len(s) : s[k].name \in Past
  BY <1>3 DEF ShownBefore
<1> QED BY <1>2, <1>4

LEMMA ShownAsHandled ==
  ASSUME OnClips, call = "frame", TypeInv, CallInv, ServedInv, ReaderTypes, ReaderTypes', NEW s \in Seq(Showing), ShownBefore(s)
  PROVE  ShownBefore(served)'
<1>1. /\ UNCHANGED <<served, returned, written, uri, outputInitialized, fileContexts>> /\ call' = "finalize"
      /\ \/ returned.name = cur.name /\ cur' = [cur EXCEPT !.last = returned.pts] /\ ReadsOn
         \/ returned.name # cur.name /\ Begun /\ (Adds \/ (cur = NoClip /\ ReadsOn))
  BY ClipSteps
<1>2. /\ returned \in Showing /\ served = Append(s, returned) /\ IsCurrent(returned.name) /\ Told(Clips, s)
      /\ cur \in Clip /\ cur' \in Clip
  BY DEF CallInv, ShownBefore, ReaderTypes
<1>3. ClipsSay /\ ClipsSay' /\ PastSays /\ PastSays'
  BY ClipsAre, PastAre, PTL
<1>4. /\ Len(s) \in Nat /\ Len(served) = Len(s) + 1 /\ served[Len(s) + 1] = returned
      /\ \A k \in 1..Len(s) : served[k] = s[k]
  BY <1>2, AppendFacts
<1>5. /\ \A k \in 1..(Len(s) + 1) : k \in 1..Len(s) \/ k = Len(s) + 1
      /\ \A k \in 1..Len(s) : k \in 1..(Len(s) + 1) /\ k < Len(s) + 1
      /\ Len(s) + 1 \in 1..(Len(s) + 1)
  BY <1>4
<1>6. Past' = Past /\ \A n : IsCurrent(n)' <=> IsCurrent(n)
  <2>1. Names' = Names /\ Contexts' = Contexts /\ \A n : Open(n)' <=> Open(n)
    BY <1>1 DEF Names, Contexts, Open
  <2> QED BY <1>1, <2>1 DEF Past, IsCurrent
<1>7. returned.name # None
  BY <1>2, ClipShown
<1>8. cur'.name = returned.name
  <2>1. CASE Begun
    BY <1>2, <2>1, ClipShown DEF Begun
  <2>2. CASE returned.name = cur.name /\ cur' = [cur EXCEPT !.last = returned.pts]
    BY <1>2, <2>2, ClipShown
  <2> QED BY <1>1, <2>1, <2>2
<1>9. Reading'
  BY <1>1, <1>7, <1>8, ClipShown, <1>2 DEF Reading, Ended
<1>10. Told(Clips', served)
  <2>1. CASE returned.name = cur.name /\ cur' = [cur EXCEPT !.last = returned.pts] /\ ReadsOn
    <3>1. Reading
      BY <2>1, <1>2, ClipShown DEF Reading, Ended
    <3>2. PastClips' = PastClips
      BY <1>3, <2>1, AddedOrSeen
    <3>3. Clips = Append(PastClips, cur) /\ Clips' = Append(PastClips, cur') /\ PastClips \in Seq(Clip)
      BY <1>3, <1>9, <3>1, <3>2 DEF ClipsSay, PastSays
    <3> QED BY <1>2, <2>1, <3>3, ToldMore
  <2>2. CASE returned.name # cur.name /\ Begun /\ (Adds \/ (cur = NoClip /\ ReadsOn))
    <3>1. PastClips' = Clips /\ cur.name = IF Clips = << >> THEN None ELSE Clips[Len(Clips)].name
      <4>1. CASE Adds
        <5>1. Reading
          BY <4>1 DEF Adds, Reading, Ended
        <5>2. Clips = Append(PastClips, cur) /\ PastClips' = Append(PastClips, cur) /\ PastClips \in Seq(Clip)
          BY <1>3, <4>1, <5>1, AddedOrSeen DEF ClipsSay, PastSays
        <5>3. Clips # << >> /\ Clips[Len(Clips)] = cur
          BY <1>2, <5>2, AppendFacts
        <5> QED BY <5>2, <5>3
      <4>2. CASE cur = NoClip /\ ReadsOn
        <5>1. ~Reading /\ mover = None /\ database = << >>
          BY <4>2 DEF Reading, ReaderTypes
        <5>2. Clips = PastClips /\ PastClips' = PastClips /\ PastClips = << >>
          BY <1>3, <4>2, <5>1, AddedOrSeen DEF ClipsSay, PastSays, Known
        <5> QED BY <4>2, <5>2, <1>2, ClipShown
      <4> QED BY <2>2, <4>1, <4>2
    <3>2. Clips' = Append(Clips, cur') /\ Clips \in Seq(Clip)
      BY <1>3, <1>9, <3>1 DEF ClipsSay
    <3>3. cur'.name = returned.name /\ cur'.start = returned.pts /\ cur'.last = returned.pts /\ cur'.prev = cur.name
      BY <1>2, <2>2, ClipShown DEF Begun
    <3>4. \A k \in 1..Len(s) : s[k].name # returned.name
      BY <2>2, ShownIsNew
    <3>5. ASSUME NEW k \in 1..Len(s) PROVE s[k].pts < returned.pts
      <4>1. k \in 1..Len(served) /\ Len(s) + 1 \in 1..Len(served) /\ k < Len(s) + 1
        BY <1>4, <1>5
      <4>2. served[k].pts < served[Len(s) + 1].pts
        BY <4>1 DEF ServedInv
      <4> QED BY <4>2, <1>4
    <3> QED BY <1>2, <3>1, <3>2, <3>3, <3>4, <3>5, ToldNext
  <2> QED BY <1>1, <2>1, <2>2
<1>11. ASSUME NEW k \in 1..Len(served)
       PROVE  served[k].name \in Past' \/ (IsCurrent(served[k].name)' /\ served[k].name = cur'.name)
  <2>1. CASE k = Len(s) + 1
    <3>1. served[k] = returned /\ served[k].name = cur'.name
      BY <1>4, <1>8, <2>1
    <3>2. IsCurrent(served[k].name)
      BY <1>2, <3>1
    <3> QED BY <1>1, <3>1, <3>2 DEF IsCurrent
  <2>2. CASE k \in 1..Len(s)
    <3>1. s[k].name \in Past \/ (IsCurrent(s[k].name) /\ s[k].name = cur.name)
      BY <2>2 DEF ShownBefore
    <3>2. returned.name # cur.name => s[k].name \in Past
      BY <2>2, ShownIsNew
    <3>3. PICK n : n = s[k].name
      OBVIOUS
    <3>4. n \in Past \/ (IsCurrent(n) /\ n = cur.name)
      BY <3>1, <3>3
    <3>5. n \in Past' \/ (IsCurrent(n)' /\ n = cur'.name)
      BY <1>6, <1>8, <3>2, <3>3, <3>4
    <3>6. served[k].name = n /\ served'[k].name = n
      BY <1>1, <1>4, <2>2, <3>3
    <3> QED BY <3>5, <3>6 DEF IsCurrent
  <2> QED BY <1>4, <1>5, <2>1, <2>2
<1> QED BY <1>1, <1>10, <1>11 DEF ShownBefore, Told, Begins, Ends

LEMMA ToldStep ==
  ASSUME TypeInv, CallInv, ServedInv, ReaderTypes, ReaderTypes', FilesMoveOn, ToldInv, [ReaderNext]_readerVars
  PROVE  ToldInv'
<1>1. PICK s \in Seq(Showing) : ShownBefore(s)
  BY DEF ToldInv
<1>2. CASE FrameRead
  <2>1. ShownBefore(s)'
    BY <1>1, <1>2, ShownAsRead
  <2> QED BY <2>1 DEF ToldInv
<1>3. CASE OnClips /\ call = "frame"
  <2>1. ShownBefore(served)'
    BY <1>1, <1>3, ShownAsHandled
  <2> QED BY <2>1 DEF ToldInv, ReaderTypes
<1>4. CASE ~FrameRead /\ (OnClips => call # "frame")
  <2>1. ShownBefore(s)'
    BY <1>1, <1>4, Settles, ShownStays
  <2> QED BY <2>1 DEF ToldInv
<1> QED BY <1>2, <1>3, <1>4

\* The mover works on one closed file that nobody has moved; those of the other clips are moved, and
\* nothing else is.
MoverInv ==
  /\ Moving => mover.clip.name \in Names /\ ~Open(mover.clip.name) /\ mover.clip.name \notin Moved
  /\ Known(mover) /\ ~Moving => mover.clip.name \in Moved
  /\ NamesIn(database) \subseteq Moved
  /\ Moved \subseteq NamesIn(PastClips)

LEMMA PastNames ==
  ASSUME ReaderTypes
  PROVE  NamesIn(PastClips) = NamesIn(database) \cup (IF Known(mover) THEN {mover.clip.name} ELSE {})
<1>1. database \in Seq(Clip) /\ PastClips = IF Known(mover) THEN Append(database, mover.clip) ELSE database
  BY FinishedSays DEF ReaderTypes
<1>2. CASE Known(mover)
  BY <1>1, <1>2, MoverKnown, NamesOfAppend
<1>3. CASE ~Known(mover)
  BY <1>1, <1>3
<1> QED BY <1>2, <1>3

\* The file whose clip the reader adds is closed, and has no other clip.
LEMMA AddedIsClosed ==
  ASSUME TypeInv, FlowInv, WrittenInv, ContextInv, CallInv, ReaderTypes, ToldInv, cur # NoClip, call \notin Ended,
         call = "last" \/ (call = "frame" /\ returned.name # cur.name)
  PROVE  cur.name \in Names /\ ~Open(cur.name) /\ cur.name \notin NamesIn(PastClips)
<1>1. PICK s \in Seq(Showing) : ShownBefore(s)
  BY DEF ToldInv
<1>2. Clips = Append(PastClips, cur) /\ PastClips \in Seq(Clip) /\ cur \in Clip
  BY ClipsAre, FinishedSays DEF ClipsSay, Reading, ReaderTypes
<1> DEFINE n == Len(PastClips)
<1>3. /\ n \in Nat /\ Len(Clips) = n + 1 /\ Clips[n + 1] = cur /\ DOMAIN PastClips = 1..n
      /\ \A i \in 1..n : Clips[i] = PastClips[i]
  BY <1>2, AppendFacts
<1> HIDE DEF n
<1>4. n + 1 \in 1..(n + 1) /\ \A i \in 1..n : i \in 1..(n + 1) /\ i < n + 1
  BY <1>3
<1>5. Told(Clips, s)
  BY <1>1 DEF ShownBefore
<1>6. PICK k \in 1..Len(s) : Begins(Clips[n + 1], s, k)
  BY <1>3, <1>4, <1>5 DEF Told
<1>7. s[k].name = cur.name
  BY <1>3, <1>6 DEF Begins
<1>8. cur.name \in Past \/ (IsCurrent(cur.name) /\ call = "last")
  <2>1. s[k].name \in Past \/ (IsCurrent(s[k].name) /\ s[k].name = cur.name)
    BY <1>1 DEF ShownBefore
  <2>2. call = "frame" => s[k].name \in Past
    BY <1>1, ShownIsNew
  <2> QED BY <1>7, <2>1, <2>2 DEF IsCurrent
<1>9. ASSUME IsCurrent(cur.name), call = "last" PROVE cur.name \in Names /\ ~Open(cur.name)
  <2>1. ~outputInitialized
    BY <1>9 DEF CallInv
  <2>2. fileContexts # << >> /\ fileContexts \in Seq(Context) /\ Head(fileContexts).name = cur.name
    BY <1>9 DEF IsCurrent, TypeInv, SynchroniserTypes
  <2>3. Len(fileContexts) \in Nat /\ Len(fileContexts) # 0 /\ DOMAIN fileContexts = 1..Len(fileContexts)
        /\ Head(fileContexts) = fileContexts[1]
    BY <2>2, EmptySeq, LenProperties, HeadTailProperties
  <2>4. 1 \in DOMAIN fileContexts
    BY <2>3
  <2>5. fileContexts[1] \in Contexts
    BY <2>4 DEF Contexts, In
  <2>6. fileContexts[1].name \in Names
    BY <2>5, OpenIsLast
  <2> QED BY <2>1, <2>2, <2>3, <2>6 DEF Open
<1>10. cur.name \notin NamesIn(PastClips)
  <2> SUFFICES ASSUME NEW i \in 1..n, PastClips[i].name = cur.name PROVE FALSE
    BY <1>3 DEF NamesIn
  <2> DEFINE m == n + 1
  <2>1. \A a, b \in 1..m : a < b => Clips[a].name # Clips[b].name
    BY <1>3, <1>5 DEF Told
  <2>2. i \in 1..m /\ m \in 1..m /\ i < m
    BY <1>4
  <2>3. Clips[i].name # Clips[m].name
    BY <2>1, <2>2
  <2> QED BY <1>3, <2>3
<1> QED BY <1>8, <1>9, <1>10 DEF Past

LEMMA MoverStays ==
  ASSUME MoverInv, FilesMoveOn, UNCHANGED <<mover, database>>, Moved' = Moved PROVE MoverInv'
<1>1. PastClips' = PastClips /\ NamesIn(database') = NamesIn(database) /\ (Moving' <=> Moving)
  BY DEF PastClips, Finished, Moving
<1>2. ASSUME Moving PROVE mover'.clip.name \in Names' /\ ~(outputInitialized' /\ uri' = mover'.clip.name)
                          /\ mover'.clip.name \notin Moved'
  <2>1. PICK f : f = mover.clip.name
    OBVIOUS
  <2>2. f \in Names /\ ~Open(f) /\ f \notin Moved
    BY <1>2, <2>1 DEF MoverInv
  <2>3. f \in Names' /\ ~Open(f)'
    BY <2>2 DEF FilesMoveOn
  <2> QED BY <2>1, <2>2, <2>3 DEF Open
<1>3. NamesIn(PastClips') = NamesIn(PastClips)
  BY <1>1
<1> QED BY <1>1, <1>2, <1>3 DEF MoverInv, Open

LEMMA MoverStep ==
  ASSUME TypeInv, FlowInv, WrittenInv, ContextInv, CallInv, ReaderTypes, ReaderTypes', ToldInv, MoverInv, FilesMoveOn,
         [ReaderNext]_readerVars
  PROVE  MoverInv'
<1>1. PastSays /\ PastSays'
  BY PastAre, PTL
<1>2. CASE Move
  <2>1. /\ Moving /\ mover' = [mover EXCEPT !.alive = FALSE] /\ Moved' = Moved \cup {mover.clip.name}
        /\ UNCHANGED database
    BY <1>2, MovingMoves
  <2>2. Known(mover) /\ mover'.clip = mover.clip /\ Known(mover') /\ ~Moving'
    BY <2>1, MoverKnown, MoverParts DEF Moving, Known
  <2>3. PastClips' = PastClips
    BY <1>1, <2>1, <2>2 DEF PastSays
  <2>4. mover.clip.name \in NamesIn(PastClips)
    BY <2>2, PastNames
  <2>5. NamesIn(PastClips') = NamesIn(PastClips)
    BY <2>3
  <2> QED BY <2>1, <2>2, <2>4, <2>5 DEF MoverInv
<1>3. CASE OnClips
  <2>1. UNCHANGED <<storage, moveFailed, written, uri, outputInitialized, ppc>>
    BY <1>3, ClipSteps
  <2>2. Moved' = Moved /\ Names' = Names /\ \A n : Open(n)' <=> Open(n)
    BY <2>1 DEF Moved, Names, Open
  <2>3. CASE ReadsOn
    BY <2>2, <2>3, MoverStays DEF ReadsOn
  <2>4. ~Moving => NamesIn(PastClips) \subseteq Moved
    BY PastNames DEF MoverInv
  <2>5. CASE Sees
    <3>1. PastClips' = PastClips /\ database' = PastClips /\ ~Known(mover') /\ ~Moving' /\ ~Moving
      BY <1>1, <2>5, AddedOrSeen DEF Sees, Known, Moving
    <3>2. NamesIn(database') = NamesIn(PastClips) /\ NamesIn(PastClips') = NamesIn(PastClips)
      BY <3>1
    <3> QED BY <2>2, <2>4, <3>1, <3>2 DEF MoverInv
  <2>6. CASE Adds
    <3>1. /\ cur # NoClip /\ cur \in Clip /\ ~Moving /\ database' = PastClips
          /\ mover' = [clip |-> cur, alive |-> TRUE] /\ PastClips' = Append(PastClips, cur)
      BY <1>1, <2>6, AddedOrSeen DEF Adds, ReaderTypes
    <3>2. mover'.clip = cur /\ mover'.alive = TRUE /\ mover' # None
      BY <3>1, NewMover, MoverParts
    <3>3. Known(mover') /\ Moving'
      BY <3>2 DEF Known, Moving
    <3>4. (call = "last" \/ (call = "frame" /\ returned.name # cur.name)) \/ ReadsOn \/ Sees
      BY <1>3, ClipSteps
    <3>5. CASE call = "last" \/ (call = "frame" /\ returned.name # cur.name)
      <4>1. cur.name \in Names /\ ~Open(cur.name) /\ cur.name \notin NamesIn(PastClips)
        BY <3>1, <3>5, AddedIsClosed DEF Ended
      <4>2. PICK f : f = cur.name
        OBVIOUS
      <4>3. f \in Names' /\ ~Open(f)' /\ f \notin Moved' /\ mover'.clip.name = f
        BY <2>2, <3>2, <4>1, <4>2 DEF MoverInv
      <4>4. mover'.clip.name \in Names' /\ ~(outputInitialized' /\ uri' = mover'.clip.name)
            /\ mover'.clip.name \notin Moved'
        BY <4>3 DEF Open
      <4>5. NamesIn(database') \subseteq Moved'
        BY <2>2, <2>4, <3>1
      <4>6. NamesIn(PastClips') = NamesIn(PastClips) \cup {cur.name}
        <5>1. PastClips \in Seq(Clip)
          BY <1>1 DEF PastSays
        <5>2. NamesIn(Append(PastClips, cur)) = NamesIn(PastClips) \cup {cur.name}
          BY <3>1, <5>1, NamesOfAppend
        <5>3. NamesIn(PastClips') = NamesIn(Append(PastClips, cur))
          BY <3>1
        <5> QED BY <5>2, <5>3
      <4> QED BY <2>2, <3>3, <4>4, <4>5, <4>6 DEF MoverInv, Open
    <3> QED BY <2>3, <2>5, <3>4, <3>5
  <2> QED BY <1>3, <2>3, <2>5, <2>6, ClipSteps
<1>4. CASE Quiet \/ OnCall \/ CallEnds \/ Fetching \/ FrameRead
  <2>1. UNCHANGED <<mover, database>>
    BY <1>4, ReturnedShows DEF Quiet, OnCall, CallEnds, Fetching
  <2>2. Moved' = Moved \/ Move
    BY StorageCases DEF StoredBy, Moved
  <2> QED BY <1>2, <2>1, <2>2, MoverStays
<1> QED BY <1>2, <1>3, <1>4, ReaderCases

ClipsInv == ReaderTypes /\ CallInv /\ ServedInv /\ ToldInv /\ MoverInv /\ KeptInv

LEMMA ClipsInit == ReaderInit => ClipsInv
<1> SUFFICES ASSUME ReaderInit PROVE ClipsInv
  OBVIOUS
<1>1. /\ call = "idle" /\ cur = NoClip /\ mover = None /\ database = << >> /\ storage = << >> /\ moveFailed = {}
      /\ served = << >> /\ ppc = "source" /\ rpc = "idle" /\ outputInitialized = FALSE /\ written = << >>
  BY DEF ReaderInit, Init, SplitterInit, RecorderInit, SynchroniserInit
<1>2. DOMAIN << >> = {} /\ Len(<< >>) = 0 /\ 1..0 = {}
  OBVIOUS
<1>3. Names = {} /\ Moved = {}
  BY <1>1, <1>2 DEF Names, Moved
<1>4. ReaderTypes
  <2>1. NoClip \in Clip
    BY DEF NoClip, Clip
  <2>2. << >> \in Seq(Clip) /\ << >> \in Seq(Showing)
    BY EmptySeq
  <2> QED BY <1>1, <2>1, <2>2 DEF ReaderTypes
<1>5. CallInv
  BY <1>1 DEF CallInv
<1>6. ServedInv
  BY <1>1, <1>2 DEF ServedInv
<1>7. Clips = << >> /\ PastClips = << >>
  <2>1. ~Known(mover) /\ ~Reading
    BY <1>1 DEF Known, Reading
  <2>2. PastClips = << >>
    BY <1>1, <1>4, <2>1, FinishedSays
  <2> QED BY <1>4, <2>1, <2>2, ClipsAre DEF ClipsSay
<1>8. ToldInv
  <2>1. Told(<< >>, << >>)
    BY <1>2 DEF Told
  <2>2. ShownBefore(<< >>)
    BY <1>1, <1>2, <1>7, <2>1 DEF ShownBefore
  <2> QED BY <2>2, EmptySeq DEF ToldInv
<1>9. MoverInv
  <2>1. NamesIn(<< >>) = {}
    BY <1>2 DEF NamesIn
  <2> QED BY <1>1, <1>3, <1>7, <2>1 DEF MoverInv, Moving, Known
<1>10. KeptInv
  BY <1>3 DEF KeptInv
<1> QED BY <1>4, <1>5, <1>6, <1>8, <1>9, <1>10 DEF ClipsInv

LEMMA ClipsStep ==
  RecordingInv /\ RecordingInv' /\ ClipsInv /\ [ReaderNext]_readerVars => ClipsInv'
<1> SUFFICES ASSUME RecordingInv, RecordingInv', ClipsInv, [ReaderNext]_readerVars PROVE ClipsInv'
  OBVIOUS
<1>1. /\ TypeInv /\ FlowInv /\ WrittenInv /\ ContextInv
      /\ ReaderTypes /\ CallInv /\ ServedInv /\ ToldInv /\ MoverInv /\ KeptInv
  BY DEF RecordingInv, ClipsInv
<1>2. FilesMoveOn /\ KeptInv'
  BY <1>1, FilesStep, KeptStep
<1>3. Onward
  BY <1>1, FlowStep
<1>4. ReaderTypes' /\ CallInv' /\ ServedInv'
  BY <1>1, <1>3, ReaderStep, CallStep, ServedStep
<1>5. ToldInv'
  BY <1>1, <1>2, <1>4, ToldStep
<1>6. MoverInv'
  BY <1>1, <1>2, <1>4, MoverStep
<1> QED BY <1>2, <1>4, <1>5, <1>6 DEF ClipsInv

LEMMA ClipsInvSays == ClipsInv => ClipsAreFound
<1> SUFFICES ASSUME ClipsInv PROVE ClipsAreFound
  OBVIOUS
<1> USE DEF ClipsInv
<1>1. EveryFileIsOneClip
  <2> SUFFICES ASSUME call # "frame"
      PROVE  /\ NamesIn(Clips) = NamesIn(served)
             /\ \A i \in DOMAIN Clips :
                  /\ \E k \in DOMAIN served : Begins(Clips[i], served, k)
                  /\ \E k \in DOMAIN served : Ends(Clips[i], served, k)
                  /\ Clips[i].prev = IF i = 1 THEN None ELSE Clips[i - 1].name
                  /\ i > 1 => Clips[i - 1].last < Clips[i].start
    BY DEF EveryFileIsOneClip
  <2>1. Told(Clips, served)
    BY DEF ToldInv, ShownBefore
  <2>2. DOMAIN Clips = 1..Len(Clips) /\ DOMAIN served = 1..Len(served)
    BY ClipsAre, LenProperties DEF ClipsSay, ReaderTypes
  <2>3. NamesIn(served) \subseteq NamesIn(Clips)
    <3> SUFFICES ASSUME NEW k \in 1..Len(served) PROVE \E i \in 1..Len(Clips) : served[k].name = Clips[i].name
      BY <2>2 DEF NamesIn
    <3> QED BY <2>1 DEF Told
  <2>4. NamesIn(Clips) \subseteq NamesIn(served)
    <3> SUFFICES ASSUME NEW i \in 1..Len(Clips) PROVE \E k \in 1..Len(served) : Clips[i].name = served[k].name
      BY <2>2 DEF NamesIn
    <3>1. PICK k \in 1..Len(served) : Begins(Clips[i], served, k)
      BY <2>1 DEF Told
    <3> QED BY <3>1 DEF Begins
  <2>5. ASSUME NEW i \in DOMAIN Clips
        PROVE  /\ \E k \in DOMAIN served : Begins(Clips[i], served, k)
               /\ \E k \in DOMAIN served : Ends(Clips[i], served, k)
               /\ Clips[i].prev = IF i = 1 THEN None ELSE Clips[i - 1].name
               /\ i > 1 => Clips[i - 1].last < Clips[i].start
    BY <2>1, <2>2 DEF Told
  <2> QED BY <2>3, <2>4, <2>5
<1>2. MovedWhenClosed
  <2>1. ASSUME Moving
        PROVE  /\ ~(outputInitialized /\ uri = mover.clip.name)
               /\ recordInRAM => mover.clip.name \in DOMAIN closedFiles
    <3>1. mover.clip.name \in Names /\ ~Open(mover.clip.name) /\ mover.clip.name \notin Moved
      BY <2>1 DEF MoverInv
    <3> QED BY <3>1 DEF KeptInv, Open
  <2>2. NamesIn(database) \subseteq DOMAIN storage \cup moveFailed
    BY DEF MoverInv, Moved
  <2> QED BY <2>1, <2>2 DEF MovedWhenClosed
<1> QED BY <1>1, <1>2 DEF ClipsAreFound

\* Wherever the recorder and the mover's thread run between the reader's steps, and whenever it is
\* closed, each file the application was shown is one clip with the times of its first and last
\* frame, and is moved only when it is complete (StreamReader.py:575-636, 680-693).
THEOREM ClipsAreFoundHolds == ReaderSpec => []ClipsAreFound
<1>1. ReaderInit => RecordingInv /\ ClipsInv
  BY RecordingInit, ClipsInit
<1>2. RecordingInv /\ ClipsInv /\ [ReaderNext]_readerVars => RecordingInv' /\ ClipsInv'
  BY RecordingStep, ClipsStep
<1>3. ClipsInv => ClipsAreFound
  BY ClipsInvSays
<1> QED BY <1>1, <1>2, <1>3, PTL DEF ReaderSpec
=============================================================================
