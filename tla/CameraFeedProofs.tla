--------------------------- MODULE CameraFeedProofs ---------------------------
(***************************************************************************)
(* Proofs about CameraFeed, for every camera, any list of devices and any  *)
(* limits.                                                                 *)
(***************************************************************************)
EXTENDS CameraFeed, SequenceTheorems, WellFoundedInduction, TLAPS

(***************************************************************************)
(* The streams that are chosen                                             *)
(***************************************************************************)

\* Numbers of which there are some have a least one, and a greatest if they are bounded.
LEMMA LeastExists ==
  ASSUME NEW S \in SUBSET Nat, S # {} PROVE \E x \in S : \A y \in S : x <= y
<1>1. PICK x \in S : \A y \in S : ~ (<<y, x>> \in OpToRel(<, Nat))
  BY WFMin, NatLessThanWellFounded, Zenon
<1>2. \A y \in S : ~ (y < x)
  BY <1>1, Zenon DEF OpToRel
<1> QED
  BY <1>2

LEMMA GreatestExists ==
  ASSUME NEW n \in Nat, NEW S \in SUBSET (1..n), S # {} PROVE \E x \in S : \A y \in S : x >= y
<1> DEFINE T == {n - x : x \in S}
<1>1. T \in SUBSET Nat /\ T # {}
  <2>1. \A x \in S : n - x \in Nat
    OBVIOUS
  <2> QED
    BY <2>1
<1>2. PICK m \in T : \A y \in T : m <= y
  BY <1>1, LeastExists
<1>3. PICK x \in S : m = n - x
  BY <1>2
<1>4. ASSUME NEW y \in S PROVE x >= y
  <2>1. m <= n - y
    BY <1>2
  <2>2. x \in 1..n /\ y \in 1..n
    OBVIOUS
  <2> QED
    BY <1>3, <2>1, <2>2
<1> QED
  BY <1>4

LEMMA MinMaxIn ==
  ASSUME NEW n \in Nat, NEW S \in SUBSET (1..n), S # {} PROVE Min(S) \in S /\ Max(S) \in S
<1>1. S \in SUBSET Nat
  OBVIOUS
<1> QED
  BY <1>1, LeastExists, GreatestExists DEF Min, Max

\* A stream that is read is of its medium.
LEMMA ChosenAreOfTheirMedium ==
  ASSUME camera \in Cameras, NEW i \in Nat, i \in {ChosenStreams.video, ChosenStreams.audio}
  PROVE  camera.streams[i].media \in {"video", "audio"}
<1> DEFINE D == DOMAIN camera.streams
           tv == InStreams("video", Timed)
           au == InStreams("audio", {"aac", "pcma", "pcmu"})
<1>1. camera.streams \in Seq(Stream) /\ Len(camera.streams) \in Nat /\ D = 1..Len(camera.streams)
  BY CameraSourceAssumption DEF Camera
<1>2. tv \in SUBSET D /\ au \in SUBSET D /\ AnyVideo \in SUBSET D
  BY DEF InStreams, AnyVideo
<1>3. tv # {} => Min(tv) \in tv
  BY <1>1, <1>2, MinMaxIn
<1>4. AnyVideo # {} => Max(AnyVideo) \in AnyVideo
  BY <1>1, <1>2, MinMaxIn
<1>5. au # {} => Max(au) \in au
  BY <1>1, <1>2, MinMaxIn
<1>6. None \notin Nat
  BY CameraSourceAssumption
<1>7. /\ ChosenStreams.video = IF tv # {} THEN Min(tv) ELSE IF AnyVideo # {} THEN Max(AnyVideo) ELSE None
      /\ ChosenStreams.audio = IF au # {} THEN Max(au) ELSE None
  BY DEF ChosenStreams
<1>8. i \in tv \cup AnyVideo \cup au
  BY <1>3, <1>4, <1>5, <1>6, <1>7
<1> QED
  BY <1>8 DEF InStreams, AnyVideo

(***************************************************************************)
(* The types of the source's state                                         *)
(***************************************************************************)
SentBy(c) == {s \in Sent : s.stream \in DOMAIN c.streams}
Clock == [seen : Nat, time : Int \cup {None}, received : Int \cup {None}, assigned : Int \cup {None}, debt : Int]

Timing == stamp \in Clock /\ (stamp.seen > 0 => stamp.time \in Int /\ stamp.assigned \in Int)

SourceType ==
  /\ camera \in Cameras /\ sends \in Seq(SentBy(camera)) /\ now \in Int /\ firstTime \in Int
  /\ lastWall \in [{"video", "audio"} -> Int \cup {None}]
  /\ chosen \in {NoStreams, ChosenStreams}
  /\ firstFrame \in Packet \cup {None}
  /\ given \in Seq(Packet) /\ pictures \in Seq(Packet) /\ untimed \in SUBSET Nat
  /\ Timing

\* What the elements and the client leave of the source's state, whatever they do.
SourceKept ==
  /\ UNCHANGED <<camera, sends, times, given, pictures>>
  /\ chosen' \in {chosen, NoStreams} /\ firstFrame' \in {firstFrame, None}

LEMMA ClosedKeeps == CloseSource /\ UNCHANGED camera => SourceKept
BY DEF CloseSource, SourceKept, gave

LEMMA UnchangedKeeps == UNCHANGED <<camera, source>> => SourceKept
BY DEF source, SourceKept, gave

LEMMA SourceOrKept == [Next]_vars => SourceNext \/ SourceKept
<1> SUFFICES ASSUME [Next]_vars, ~SourceNext PROVE SourceKept
  OBVIOUS
<1> USE ClosedKeeps, UnchangedKeeps
<1>1. CASE ClientNext
  BY <1>1 DEF ClientNext, OpenFeed, FeedOpened, Read, View, Split, Record, RecordedAll, Flush,
     CloseFeed,
     CloseDecoder
<1>2. CASE DecoderNext
  <2>1. CASE DecoderOpens \/ DecoderSourceFails
    BY <2>1 DEF DecoderOpens, DecoderSourceFails, CloseDecoder
  <2>2. CASE DecoderRefuses \/ ServeHeldFrame \/ ReadThrough \/ ChangeDevice
    BY <2>2 DEF DecoderRefuses, ServeHeldFrame, ReadThrough, ChangeDevice
  <2>3. CASE ReceiveFrame \/ SkipStaleFrame \/ ReceiveNothing
    BY <2>3 DEF ReceiveFrame, SkipStaleFrame, ReceiveNothing, DecoderGives, DecoderEnds
  <2>4. CASE PassPacket \/ SubmitPacket \/ SubmitFails \/ SourceReadFails
    BY <2>4 DEF PassPacket, SubmitPacket, SubmitFails, SourceReadFails, DecoderGives, DecoderEnds
  <2> QED
    BY <1>2, <2>1, <2>2, <2>3, <2>4 DEF DecoderNext
<1>3. CASE TranscoderNext
  <2>1. CASE OpenTranscoder \/ TranscoderSourceFails \/ Resample \/ ReadQueue
    BY <2>1 DEF OpenTranscoder, TranscoderSourceFails, Resample, ReadQueue
  <2>2. ASSUME NEW e \in {"encode", "resample", "expand"},
               \/ CallBelow(e) \/ TransformPending(e) \/ TransformPacket(e) \/ TransformLosesPacket(e)
               \/ TransformFails(e) \/ PassOther(e) \/ PassNone(e)
        PROVE  SourceKept
    BY <2>2 DEF CallBelow, TransformPending, TransformPacket, TransformLosesPacket,
       TransformFails,
       PassOther, PassNone, Idle
  <2> QED
    BY <1>3, <2>1, <2>2 DEF TranscoderNext
<1>4. CASE UNCHANGED vars
  BY <1>4 DEF vars, sourceVars
<1> QED
  BY <1>1, <1>2, <1>3, <1>4 DEF Next, Closed
(***************************************************************************)
(* The clock of the live555 session                                        *)
(***************************************************************************)
LEMMA AdjustmentIsSmall ==
  ASSUME NEW debt \in Int, NEW inc \in Nat \ {0}
  PROVE  Adjustment(debt, inc) \in Int /\ Adjustment(debt, inc) < inc
BY DEF Adjustment, Lesser, Greater

LEMMA FirstStampType ==
  ASSUME NEW time \in Int, NEW base \in Int \cup {None}
  PROVE  FirstStamp(time, base).assigned \in Int /\ FirstStamp(time, base).debt \in Int
<1>1. DefaultIncrement \in Int
  BY CameraSourceAssumption
<1>2. CASE base = None
  BY <1>2 DEF FirstStamp
<1>3. CASE base \in Int
  BY <1>1, <1>3 DEF FirstStamp
<1> QED
  BY <1>2, <1>3

\* A frame's time is later than the one before, or it is a fragment of the same frame, or it was
\* given none.
LEMMA StampAdvances ==
  ASSUME camera \in Cameras, Timing,
         NEW received \in Int \cup {None}, now' \in Int, NEW inc \in Nat \ {0},
         stamp' = Stamped(received, now', inc)
  PROVE  /\ stamp' \in Clock /\ stamp'.seen > 0 /\ stamp'.time \in Int /\ stamp'.assigned \in Int
         /\ stamp'.received = received
         /\ (stamp.seen > 0 /\ ~TooFarBack(received, now')) =>
              stamp'.assigned > stamp.assigned \/ (SameFrame(received) /\ stamp'.assigned = stamp.assigned)
<1> DEFINE s == stamp'
           time == now'
           New(assigned, debt) == [seen |-> stamp.seen + 1, time |-> time, received |-> received,
                                   assigned |-> assigned, debt |-> debt]
<1>0. time \in Int /\ s = Stamped(received, time, inc)
  OBVIOUS
<1> SUFFICES /\ s \in Clock /\ s.seen > 0 /\ s.time \in Int /\ s.assigned \in Int /\ s.received = received
             /\ (stamp.seen > 0 /\ ~TooFarBack(received, time)) =>
                  s.assigned > stamp.assigned \/ (SameFrame(received) /\ s.assigned = stamp.assigned)
  OBVIOUS
<1> HIDE DEF s, time
<1>1. DefaultIncrement \in Nat /\ DefaultIncrement > 1 /\ ResetTimeJump \in Nat /\ camera.tsBase \in Int \cup {None}
  BY CameraSourceAssumption DEF Camera
<1>2. stamp.seen \in Nat /\ stamp.debt \in Int
  BY DEF Timing, Clock
<1>3. ASSUME NEW a \in Int, NEW d \in Int, NEW t, t = Adjusted(New(a, d), inc)
      PROVE  t \in Clock /\ t.seen > 0 /\ t.time \in Int /\ t.assigned \in Int /\ t.received = received
             /\ t.assigned > a - inc
  <2>1. t = [seen |-> stamp.seen + 1, time |-> time, received |-> received,
             assigned |-> a - Adjustment(d, inc), debt |-> d - Adjustment(d, inc)]
    BY <1>0, <1>3 DEF Adjusted
  <2>2. Adjustment(d, inc) \in Int /\ Adjustment(d, inc) < inc
    BY AdjustmentIsSmall
  <2>3. a - Adjustment(d, inc) \in Int /\ d - Adjustment(d, inc) \in Int /\ a - Adjustment(d, inc) > a - inc
    BY <2>2
  <2> HIDE DEF New
  <2>4. t \in Clock
    BY <1>0, <1>2, <2>1, <2>3 DEF Clock
  <2>5. t.seen = stamp.seen + 1 /\ t.time = time /\ t.received = received /\ t.assigned = a - Adjustment(d, inc)
    BY <2>1
  <2> QED
    BY <1>0, <1>2, <2>3, <2>4, <2>5
<1>4. CASE stamp.seen = 0
  <2> DEFINE f == FirstStamp(time, camera.tsBase)
  <2>1. f.assigned \in Int /\ f.debt \in Int
    BY <1>0, <1>1, FirstStampType
  <2>2. s = Adjusted(New(f.assigned, f.debt), inc)
    BY <1>0, <1>4 DEF Stamped
  <2> QED
    BY <1>3, <1>4, <2>1, <2>2
<1>9. CASE TooFarBack(received, time)
  <2>1. s = Adjusted(New(Invalid, stamp.debt), inc)
    BY <1>0, <1>2, <1>9 DEF Stamped, TooFarBack
  <2> QED
    BY <1>2, <1>3, <1>9, <2>1 DEF Invalid
<1>5. CASE stamp.seen > 0 /\ SameFrame(received)
  <2>1. s = New(stamp.assigned, stamp.debt)
    BY <1>0, <1>2, <1>5 DEF Stamped
  <2> QED
    BY <1>0, <1>2, <1>5, <2>1 DEF Clock, Timing
<1>6. CASE stamp.seen > 0 /\ ~SameFrame(received) /\ ~TooFarBack(received, time)
  <2> DEFINE delta == time - stamp.time
  <2>1. stamp.time \in Int /\ stamp.assigned \in Int /\ delta \in Int
    BY <1>0, <1>6 DEF Timing
  <2>2. CASE delta > ResetTimeJump
    <3>1. s = [New(Greater(time, stamp.assigned + DefaultIncrement), 0) EXCEPT !.seen = 1]
      BY <1>0, <1>2, <1>6, <2>2 DEF Stamped
    <3>2. s = [seen |-> 1, time |-> time, received |-> received,
               assigned |-> Greater(time, stamp.assigned + DefaultIncrement), debt |-> 0]
      BY <3>1
    <3>3. /\ Greater(time, stamp.assigned + DefaultIncrement) \in Int
          /\ Greater(time, stamp.assigned + DefaultIncrement) > stamp.assigned
      BY <1>0, <1>1, <2>1 DEF Greater
    <3> QED
      BY <1>0, <1>6, <3>2, <3>3 DEF Clock
  <2>3. CASE ~(delta > ResetTimeJump)
    <3> DEFINE d == stamp.debt + (IF delta < 0 THEN delta ELSE inc - delta)
    <3>1. s = Adjusted(New(stamp.assigned + inc, d), inc)
      BY <1>0, <1>2, <1>6, <2>3 DEF Stamped
    <3>2. d \in Int /\ stamp.assigned + inc \in Int
      BY <1>2, <2>1
    <3>3. s \in Clock /\ s.seen > 0 /\ s.time \in Int /\ s.assigned \in Int /\ s.received = received
             /\ s.assigned > (stamp.assigned + inc) - inc
      BY <1>3, <3>1, <3>2
    <3> QED
      BY <1>6, <2>1, <3>3
  <2> QED
    BY <2>2, <2>3
<1> QED
  BY <1>2, <1>4, <1>5, <1>6, <1>9

(***************************************************************************)
(* What is read has its type, whatever the camera sends.                   *)
(***************************************************************************)
LEMMA HeadIsSent ==
  ASSUME SourceType, sends # << >>
  PROVE  /\ Head(sends) \in SentBy(camera) /\ Tail(sends) \in Seq(SentBy(camera))
         /\ now + Head(sends).gap \in Int /\ Head(sends).pts \in Int \cup {None}
<1>1. Head(sends) \in SentBy(camera) /\ Tail(sends) \in Seq(SentBy(camera)) /\ now \in Int
  BY HeadTailProperties DEF SourceType
<1>2. Head(sends).gap \in Int /\ Head(sends).pts \in Int \cup {None}
  BY <1>1 DEF SentBy, Sent
<1> QED
  BY <1>1, <1>2

LEMMA ReceivedIsPacket ==
  ASSUME camera \in Cameras, NEW sent \in SentBy(camera), NEW pts \in Int
  PROVE  /\ Received(sent, pts) \in Packet /\ Received(sent, pts).pts = pts
         /\ Received(sent, pts).said = sent.pts
         /\ Received(sent, pts).media = camera.streams[sent.stream].media
<1>1. camera.streams[sent.stream] \in Stream
  BY CameraSourceAssumption DEF Camera, SentBy
<1> QED
  BY <1>1 DEF Received, Packet, SentBy, Sent, Stream

LEMMA PacketsAreToldApart ==
  ASSUME NEW p \in Packet PROVE IsPacket(p) /\ Known(p)
BY CameraSourceAssumption DEF IsPacket, Known

LEMMA NextIncrementIsPositive == NextIncrement \in SUBSET (Nat \ {0})
BY CameraSourceAssumption DEF NextIncrement

LEMMA SessionReadsStamp ==
  ASSUME SourceType, SessionReads
  PROVE  /\ stamp' \in Clock /\ stamp'.seen > 0 /\ stamp'.time \in Int /\ stamp'.assigned \in Int
         /\ stamp'.received = Head(sends).pts
         /\ (stamp.seen > 0 /\ ~TooFarBack(Head(sends).pts, now')) =>
              stamp'.assigned > stamp.assigned \/ (SameFrame(Head(sends).pts) /\ stamp'.assigned = stamp.assigned)
<1>1. sends # << >> /\ now' = now + Head(sends).gap
  BY DEF SessionReads
<1>2. now' \in Int /\ Head(sends).pts \in Int \cup {None}
  BY <1>1, HeadIsSent
<1>3. PICK inc \in NextIncrement : stamp' = Stamped(Head(sends).pts, now', inc)
  BY DEF SessionReads
<1>4. inc \in Nat \ {0}
  BY NextIncrementIsPositive
<1>5. camera \in Cameras /\ Timing
  BY DEF SourceType
<1> QED
  BY <1>2, <1>3, <1>4, <1>5, StampAdvances, ZenonT(30)

LEMMA UntimedGrows ==
  ASSUME SourceType, SessionReads
  PROVE  /\ untimed \subseteq untimed' /\ untimed' \in SUBSET Nat
         /\ TooFarBack(Head(sends).pts, now') => Len(given) + 1 \in untimed'
<1>1. untimed' = IF TooFarBack(Head(sends).pts, now') THEN untimed \cup {Len(given) + 1} ELSE untimed
  BY DEF SessionReads
<1>2. untimed \in SUBSET Nat /\ Len(given) + 1 \in Nat
  BY LenProperties DEF SourceType
<1> QED
  BY <1>1, <1>2

LEMMA FrameReadIsPacket ==
  ASSUME SourceType, SessionReads
  PROVE  FrameRead \in Packet /\ FrameRead.pts = stamp'.assigned /\ FrameRead.said = stamp'.received
<1>1. camera \in Cameras /\ Head(sends) \in SentBy(camera)
  BY HeadIsSent DEF SessionReads, SourceType
<1>2. stamp'.assigned \in Int /\ stamp'.received = Head(sends).pts
  BY SessionReadsStamp
<1> QED
  BY <1>1, <1>2, ReceivedIsPacket DEF FrameRead

LEMMA InitSourceType == Init => SourceType
<1> SUFFICES ASSUME Init PROVE SourceType
  OBVIOUS
<1>1. camera.sends \in Seq(SentBy(camera))
  <2>1. camera.sends \in Seq(Sent) /\ \A i \in DOMAIN camera.sends : camera.sends[i].stream \in DOMAIN camera.streams
    BY CameraSourceAssumption DEF Init, SourceInit, Camera
  <2>2. \A i \in 1..Len(camera.sends) : camera.sends[i] \in SentBy(camera)
    BY <2>1 DEF SentBy
  <2> QED
    BY <2>1, <2>2, IsASeq
<1>2. Timing
  BY DEF Init, SourceInit, NoStamp, Clock, Timing
<1>3. << >> \in Seq(Packet)
  OBVIOUS
<1> QED
  BY <1>1, <1>2, <1>3 DEF Init, SourceInit, SourceType

LEMMA KeptSourceType == SourceType /\ SourceKept => SourceType'
<1> SUFFICES ASSUME SourceType, SourceKept PROVE SourceType'
  OBVIOUS
<1>1. ChosenStreams' = ChosenStreams
  BY DEF SourceKept, ChosenStreams, InStreams, AnyVideo
<1> QED
  BY <1>1 DEF SourceType, SourceKept, times, Timing

LEMMA ReturnsPacket ==
  ASSUME SourceType, NEW x \in Packet, Return(x)
  PROVE  given' = Append(given, x) /\ given' \in Seq(Packet) /\ pictures' \in Seq(Packet)
<1>1. IsPacket(x)
  BY PacketsAreToldApart
<1>2. given \in Seq(Packet) /\ pictures \in Seq(Packet)
  BY DEF SourceType
<1> QED
  BY <1>1, <1>2 DEF Return

LEMMA ReturnsError ==
  ASSUME Return(Error) PROVE UNCHANGED <<given, pictures>>
BY DEF Return, IsPacket

\* What the FFmpeg demux reads is of a stream that was chosen, so of a medium with a clock.
LEMMA ReadFfmpegReturns ==
  ASSUME SourceType, ReadFfmpeg
  PROVE  /\ Head(sends) \in SentBy(camera) /\ sends' \in Seq(SentBy(camera)) /\ now' \in Int /\ firstTime' \in Int
         /\ UNCHANGED <<camera, stamp, firstFrame, chosen, untimed>>
         /\ camera.streams[Head(sends).stream].media \in {"video", "audio"}
         /\ lastWall' \in [{"video", "audio"} -> Int \cup {None}]
         /\ \E pts \in Int : Return(Received(Head(sends), pts))
<1> DEFINE sent == Head(sends)
           medium == camera.streams[sent.stream].media
           trusted == (chosen.timed \/ ~camera.live) /\ Known(sent.pts)
<1>1. /\ sent \in SentBy(camera) /\ sends' \in Seq(SentBy(camera)) /\ now' \in Int /\ sent.pts \in Int \cup {None}
      /\ UNCHANGED <<camera, stamp, firstFrame, chosen, untimed>>
  <2>1. /\ sends # << >> /\ sends' = Tail(sends) /\ now' = now + Head(sends).gap
        /\ UNCHANGED <<camera, stamp, firstFrame, chosen, untimed>>
    BY DEF ReadFfmpeg
  <2> QED
    BY <2>1, HeadIsSent
<1>2. medium \in {"video", "audio"}
  <2>1. sent.stream \in Nat /\ sent.stream \in {chosen.video, chosen.audio}
    BY <1>1 DEF ReadFfmpeg, Skipped, SentBy, Sent
  <2>2. chosen = ChosenStreams
    BY <2>1, CameraSourceAssumption DEF SourceType, NoStreams
  <2> QED
    BY <2>1, <2>2, ChosenAreOfTheirMedium DEF SourceType
<1>3. now' \in Int /\ firstTime \in Int /\ lastWall \in [{"video", "audio"} -> Int \cup {None}]
  BY <1>1 DEF SourceType
<1>4. CASE trusted
  <2>1. /\ firstTime' = IF counted THEN firstTime ELSE IF camera.live THEN now' ELSE 0
        /\ Return(Received(sent, sent.pts + firstTime')) /\ UNCHANGED lastWall
    BY <1>4 DEF ReadFfmpeg
  <2>2. firstTime' \in Int /\ sent.pts \in Int
    BY <1>1, <1>3, <1>4, <2>1 DEF Known
  <2>3. sent.pts + firstTime' \in Int
    BY <2>2
  <2> QED
    BY <1>1, <1>2, <1>3, <2>1, <2>2, <2>3
<1>5. CASE ~trusted
  <2>1. /\ lastWall' = [lastWall EXCEPT ![medium] = WallTime(now', lastWall[medium])]
        /\ Return(Received(sent, lastWall'[medium])) /\ UNCHANGED firstTime
    BY <1>5 DEF ReadFfmpeg
  <2>2. WallTime(now', lastWall[medium]) \in Int
    BY <1>2, <1>3 DEF WallTime, Known
  <2>3. lastWall'[medium] \in Int /\ lastWall' \in [{"video", "audio"} -> Int \cup {None}]
    BY <1>2, <1>3, <2>1, <2>2
  <2> QED
    BY <1>1, <1>2, <1>3, <2>1, <2>3
<1> QED
  BY <1>4, <1>5

LEMMA SourceStepType == SourceType /\ SourceNext => SourceType'
<1> SUFFICES ASSUME SourceType, SourceNext PROVE SourceType'
  OBVIOUS
<1>0. camera' = camera => ChosenStreams' = ChosenStreams /\ SentBy(camera') = SentBy(camera)
  BY DEF ChosenStreams, InStreams, AnyVideo
<1>1. CASE AttemptSucceeds
  <2>1. SessionReads /\ sends' = Tail(sends) /\ sends # << >> /\ now' = now + Head(sends).gap
    BY <1>1 DEF AttemptSucceeds, SessionReads
  <2>2. Timing' /\ sends' \in Seq(SentBy(camera)) /\ now' \in Int /\ FrameRead \in Packet
    BY <2>1, HeadIsSent, SessionReadsStamp, FrameReadIsPacket DEF Timing
  <2>4. untimed' \in SUBSET Nat
    BY <2>1, UntimedGrows
  <2>3. firstFrame' = FrameRead /\ UNCHANGED <<camera, chosen, firstTime, lastWall, given, pictures>>
    BY <1>1, <2>1 DEF AttemptSucceeds, SessionReads, gave
  <2> QED
    BY <1>0, <2>2, <2>3, <2>4 DEF SourceType
<1>2. CASE AttemptFails
  BY <1>0, <1>2 DEF AttemptFails, SourceType, times, gave, Timing
<1>3. CASE ReadLive555
  <2>1. CASE Known(firstFrame) /\ Return(firstFrame) /\ firstFrame' = None /\ UNCHANGED <<sends, times>>
    <3>1. firstFrame \in Packet
      BY <2>1 DEF Known, SourceType
    <3>2. given' \in Seq(Packet) /\ pictures' \in Seq(Packet)
      BY <2>1, <3>1, ReturnsPacket
    <3> QED
      BY <1>0, <1>3, <2>1, <3>2 DEF ReadLive555, SourceType, times, Timing
  <2>2. CASE SessionReads /\ Return(FrameRead) /\ UNCHANGED firstFrame
    <3>1. sends' = Tail(sends) /\ sends # << >> /\ now' = now + Head(sends).gap
      BY <2>2 DEF SessionReads
    <3>2. Timing' /\ sends' \in Seq(SentBy(camera)) /\ now' \in Int /\ FrameRead \in Packet
      BY <2>2, <3>1, HeadIsSent, SessionReadsStamp, FrameReadIsPacket DEF Timing
    <3>3. given' \in Seq(Packet) /\ pictures' \in Seq(Packet)
      BY <2>2, <3>2, ReturnsPacket
    <3>4. untimed' \in SUBSET Nat
      BY <2>2, UntimedGrows
    <3> QED
      BY <1>0, <1>3, <2>2, <3>2, <3>3, <3>4 DEF ReadLive555, SessionReads, SourceType
  <2>3. CASE SessionEnds /\ Return(Error) /\ UNCHANGED firstFrame
    <3>1. sends' \in Seq(SentBy(camera)) /\ now' \in Int /\ Timing'
      <4>1. CASE sends = << >> /\ UNCHANGED <<sends, now, stamp>>
        BY <4>1 DEF SourceType, Timing
      <4>2. CASE sends # << >> /\ sends' = << >> /\ now' = now + Head(sends).gap /\ stamp' = NoStamp
        BY <4>2, HeadIsSent DEF SourceType, Timing, NoStamp, Clock
      <4> QED
        BY <2>3, <4>1, <4>2 DEF SessionEnds
    <3> QED
      BY <1>0, <1>3, <2>3, <3>1, ReturnsError DEF ReadLive555, SessionEnds, SourceType
  <2> QED
    BY <1>3, <2>1, <2>2, <2>3 DEF ReadLive555
<1>4. CASE OpenFfmpeg \/ OpenFfmpegFails
  BY <1>0, <1>4 DEF OpenFfmpeg, OpenFfmpegFails, SourceType, times, gave, Timing
<1>5. CASE SkipPacket
  <2>1. sends' \in Seq(SentBy(camera)) /\ now' \in Int
    BY <1>5, HeadIsSent DEF SkipPacket
  <2> QED
    BY <1>0, <1>5, <2>1 DEF SkipPacket, SourceType, gave, Timing
<1>6. CASE ReadFfmpeg
  <2>1. PICK pts \in Int : Return(Received(Head(sends), pts))
    BY <1>6, ReadFfmpegReturns
  <2>2. given' \in Seq(Packet) /\ pictures' \in Seq(Packet)
    BY <1>6, <2>1, ReadFfmpegReturns, ReceivedIsPacket, ReturnsPacket DEF SourceType
  <2> QED
    BY <1>0, <1>6, <2>2, ReadFfmpegReturns DEF SourceType, Timing
<1>7. CASE ReadFfmpegEnds
  BY <1>0, <1>7, ReturnsError DEF ReadFfmpegEnds, SourceType, times, Timing
<1> QED
  BY <1>1, <1>2, <1>3, <1>4, <1>5, <1>6, <1>7 DEF SourceNext

LEMMA SourceTypeHolds == Spec => []SourceType
<1>1. SourceType /\ [Next]_vars => SourceType'
  BY SourceOrKept, SourceStepType, KeptSourceType
<1> QED
  BY <1>1, InitSourceType, PTL DEF Spec

(***************************************************************************)
(* TimesIncrease.  Of the live555 session: what was given, and the frame   *)
(* kept from the opening, is not after the time assigned last; at that     *)
(* time it is a fragment of the frame that was assigned it.  Where frames  *)
(* can still come and the clock has not started, nothing was given.  All   *)
(* this goes back to the last frame that was given no time.                *)
(***************************************************************************)
Before(p, q) == p.pts < q.pts \/ (p.pts = q.pts /\ p.said = q.said)
UpTo(p, s) == s.seen > 0 /\ (p.pts < s.assigned \/ (p.pts = s.assigned /\ p.said = s.received))
Spared(i, j, places) == \A k \in places : ~(i < k /\ k <= j)
Ordered == \A i, j \in DOMAIN given : (i < j /\ Spared(i, j, untimed)) => Before(given[i], given[j])
Recent(i) == Spared(i, Len(given) + 1, untimed)
ClockInv ==
  camera.demux = "live555" =>
    /\ Ordered
    /\ Known(firstFrame) => \A i \in DOMAIN given : Recent(i) => Before(given[i], firstFrame)
    /\ sends # << >> => /\ \A i \in DOMAIN given : Recent(i) => UpTo(given[i], stamp)
                        /\ Known(firstFrame) => UpTo(firstFrame, stamp)

\* Of the FFmpeg demux: what was given of a medium is not after the wall time it has last had.
WallInv ==
  (camera.demux = "ffmpeg" /\ camera.live /\ ~ChosenStreams.timed) =>
    /\ \A i \in DOMAIN given :
         /\ given[i].media \in {"video", "audio"}
         /\ lastWall[given[i].media] \in Int /\ given[i].pts <= lastWall[given[i].media]
    /\ \A i, j \in DOMAIN given : (i < j /\ given[i].media = given[j].media) => given[i].pts < given[j].pts

LEMMA LaterThanBefore ==
  ASSUME SourceType, SessionReads, NEW p \in Packet, UpTo(p, stamp), ~TooFarBack(Head(sends).pts, now')
  PROVE  Before(p, FrameRead) /\ UpTo(p, stamp')
<1>1. p.pts \in Int
  BY DEF Packet
<1>2. stamp.seen > 0 /\ stamp.assigned \in Int
  BY DEF UpTo, SourceType, Timing
<1>3. /\ stamp'.seen > 0 /\ stamp'.assigned \in Int /\ stamp'.received = Head(sends).pts
      /\ stamp'.assigned > stamp.assigned
           \/ (stamp'.received = stamp.received /\ stamp'.assigned = stamp.assigned)
  BY <1>2, SessionReadsStamp DEF SameFrame
<1>4. FrameRead.pts = stamp'.assigned /\ FrameRead.said = stamp'.received
  BY FrameReadIsPacket
<1> QED
  BY <1>1, <1>2, <1>3, <1>4 DEF Before, UpTo

\* One more that is after all that there were.
LEMMA AppendedInOrder ==
  ASSUME NEW s \in Seq(Packet), NEW x \in Packet, NEW t, t = Append(s, x)
  PROVE  /\ DOMAIN t = DOMAIN s \cup {Len(s) + 1}
         /\ \A i \in DOMAIN s : i < Len(s) + 1 /\ t[i] = s[i] /\ s[i] \in Packet
         /\ t[Len(s) + 1] = x /\ Len(s) + 1 \notin DOMAIN s
OBVIOUS

LEMMA SparedBefore ==
  ASSUME NEW P \in SUBSET Nat, NEW Q \in SUBSET Nat, P \subseteq Q,
         NEW i \in Nat, NEW m \in Nat, NEW n \in Nat, m <= n, Spared(i, n, Q)
  PROVE  Spared(i, m, P)
BY DEF Spared

LEMMA OrderExtends ==
  ASSUME SourceType, NEW x \in Packet, given' = Append(given, x),
         untimed \subseteq untimed', untimed' \in SUBSET Nat, Ordered,
         \A i \in DOMAIN given : Spared(i, Len(given) + 1, untimed') => Before(given[i], x)
  PROVE  Ordered'
<1> DEFINE n == Len(given) + 1
<1>1. given \in Seq(Packet)
  BY DEF SourceType
<1>2. /\ DOMAIN given' = DOMAIN given \cup {n}
      /\ \A i \in DOMAIN given : i < n /\ given'[i] = given[i]
      /\ given'[n] = x /\ n \notin DOMAIN given
  BY <1>1, AppendedInOrder
<1>3. \A i \in DOMAIN given : ~(n < i) /\ i \in Nat
  BY <1>1
<1>4. ~(n < n)
  BY <1>1
<1>5. \A i, j \in DOMAIN given : Spared(i, j, untimed') => Spared(i, j, untimed)
  BY DEF Spared
<1> HIDE DEF n
<1> SUFFICES ASSUME NEW i \in DOMAIN given', NEW j \in DOMAIN given', i < j, Spared(i, j, untimed')
             PROVE  Before(given'[i], given'[j])
  BY DEF Ordered
<1>6. i \in DOMAIN given
  BY <1>2, <1>3, <1>4
<1>7. CASE j \in DOMAIN given
  BY <1>2, <1>5, <1>6, <1>7 DEF Ordered
<1>8. CASE j = n
  BY <1>2, <1>6, <1>8 DEF n
<1> QED
  BY <1>2, <1>7, <1>8

\* What is recent after one more is given was recent before.
LEMMA LaterIsRecent ==
  ASSUME SourceType, NEW x \in Packet, given' = Append(given, x), untimed' \in SUBSET Nat,
         NEW i \in DOMAIN given, Recent(i)'
  PROVE  Spared(i, Len(given) + 1, untimed') /\ (untimed' = untimed => Recent(i))
<1>1. i \in Nat /\ Len(given) \in Nat /\ Len(given') = Len(given) + 1
  BY LenProperties, AppendProperties DEF SourceType
<1>2. Len(given) + 1 \in Nat /\ Len(given') + 1 \in Nat /\ Len(given) + 1 <= Len(given') + 1
  BY <1>1
<1> QED
  BY <1>1, <1>2, SparedBefore DEF Recent

\* What is read by the session comes after all that was given since the last frame without a time.
LEMMA ReadInOrder ==
  ASSUME SourceType, SessionReads, NEW i \in DOMAIN given, Spared(i, Len(given) + 1, untimed'),
         Recent(i) => UpTo(given[i], stamp)
  PROVE  Before(given[i], FrameRead) /\ UpTo(given[i], stamp')
<1>1. /\ i \in Nat /\ Len(given) + 1 \in Nat /\ i < Len(given) + 1 /\ Len(given) + 1 <= Len(given) + 1
      /\ given[i] \in Packet /\ untimed \in SUBSET Nat
  BY LenProperties DEF SourceType
<1>2. ~TooFarBack(Head(sends).pts, now')
  BY <1>1, UntimedGrows DEF Spared
<1>3. Recent(i)
  BY UntimedGrows DEF Spared, Recent
<1> QED
  BY <1>1, <1>2, <1>3, LaterThanBefore

LEMMA ClockStep == SourceType /\ ClockInv /\ SourceNext => ClockInv'
<1> SUFFICES ASSUME SourceType, ClockInv, SourceNext, camera'.demux = "live555" PROVE ClockInv'
  BY DEF ClockInv
<1>0. given \in Seq(Packet) /\ (\A i \in DOMAIN given : given[i] \in Packet) /\ untimed \in SUBSET Nat
  BY DEF SourceType
<1>1. CASE AttemptSucceeds
  <2>1. /\ SessionReads /\ sends # << >> /\ firstFrame' = FrameRead /\ UNCHANGED <<camera, given>>
    BY <1>1 DEF AttemptSucceeds, SessionReads, gave
  <2>2. Ordered /\ \A i \in DOMAIN given : Recent(i) => UpTo(given[i], stamp)
    BY <2>1 DEF ClockInv
  <2>3. \A i \in DOMAIN given : Recent(i)' => Before(given[i], FrameRead) /\ UpTo(given[i], stamp')
    BY <2>1, <2>2, ReadInOrder DEF Recent
  <2>4. UpTo(FrameRead, stamp')
    BY <2>1, SessionReadsStamp, FrameReadIsPacket DEF UpTo
  <2>5. Ordered'
    BY <2>1, <2>2, UntimedGrows DEF Ordered, Spared
  <2> QED
    BY <2>1, <2>3, <2>4, <2>5 DEF ClockInv
<1>2. CASE ReadLive555
  <2>1. CASE Known(firstFrame) /\ Return(firstFrame) /\ firstFrame' = None /\ UNCHANGED <<sends, times>>
    <3>1. firstFrame \in Packet
      BY <2>1 DEF Known, SourceType
    <3>2. given' = Append(given, firstFrame)
      BY <2>1, <3>1, ReturnsPacket
    <3>3. /\ Ordered
          /\ \A i \in DOMAIN given : Recent(i) => Before(given[i], firstFrame)
          /\ sends # << >> => UpTo(firstFrame, stamp) /\ \A i \in DOMAIN given : Recent(i) => UpTo(given[i], stamp)
          /\ UNCHANGED <<camera, sends, stamp, untimed>>
      BY <1>2, <2>1 DEF ClockInv, ReadLive555, times
    <3>4. Ordered'
      BY <1>0, <3>1, <3>2, <3>3, OrderExtends DEF Recent
    <3>5. \A i \in DOMAIN given : Recent(i)' => Recent(i)
      BY <1>0, <3>1, <3>2, <3>3, LaterIsRecent
    <3>6. sends # << >> => \A i \in DOMAIN given' : Recent(i)' => UpTo(given'[i], stamp)
      BY <1>0, <3>1, <3>2, <3>3, <3>5, AppendedInOrder
    <3> QED
      BY <2>1, <3>3, <3>4, <3>6 DEF ClockInv, Known
  <2>2. CASE ~Known(firstFrame) /\ SessionReads /\ Return(FrameRead) /\ UNCHANGED firstFrame
    <3>1. FrameRead \in Packet /\ sends # << >> /\ camera' = camera
      BY <1>2, <2>2, FrameReadIsPacket DEF SessionReads, ReadLive555
    <3>2. given' = Append(given, FrameRead)
      BY <2>2, <3>1, ReturnsPacket
    <3>3. Ordered /\ \A i \in DOMAIN given : Recent(i) => UpTo(given[i], stamp)
      BY <3>1 DEF ClockInv
    <3>4. \A i \in DOMAIN given :
            Spared(i, Len(given) + 1, untimed') => Before(given[i], FrameRead) /\ UpTo(given[i], stamp')
      BY <2>2, <3>3, ReadInOrder
    <3>5. untimed \subseteq untimed' /\ untimed' \in SUBSET Nat
      BY <2>2, UntimedGrows
    <3>6. Ordered'
      BY <3>1, <3>2, <3>3, <3>4, <3>5, OrderExtends
    <3>7. UpTo(FrameRead, stamp')
      BY <2>2, SessionReadsStamp, FrameReadIsPacket DEF UpTo
    <3>8. \A i \in DOMAIN given : Recent(i)' => Spared(i, Len(given) + 1, untimed')
      BY <1>0, <3>1, <3>2, <3>5, LaterIsRecent
    <3>9. \A i \in DOMAIN given' : Recent(i)' => UpTo(given'[i], stamp')
      BY <1>0, <3>1, <3>2, <3>4, <3>7, <3>8, AppendedInOrder
    <3> QED
      BY <2>2, <3>6, <3>9 DEF ClockInv, Known
  <2>3. CASE SessionEnds /\ Return(Error) /\ UNCHANGED firstFrame
    <3>1. (sends' # << >> => UNCHANGED <<sends, stamp>>) /\ UNCHANGED untimed
      BY <2>3 DEF SessionEnds
    <3>2. UNCHANGED <<camera, given, firstFrame>>
      BY <1>2, <2>3, ReturnsError DEF ReadLive555
    <3> QED
      BY <3>1, <3>2 DEF ClockInv, Ordered, Recent
  <2> QED
    BY <1>2, <2>1, <2>2, <2>3 DEF ReadLive555
<1>3. CASE AttemptFails
  BY <1>3 DEF AttemptFails, ClockInv, Ordered, Recent, times, gave
<1>4. CASE OpenFfmpeg \/ OpenFfmpegFails \/ SkipPacket \/ ReadFfmpeg \/ ReadFfmpegEnds
  BY <1>4 DEF OpenFfmpeg, OpenFfmpegFails, SkipPacket, ReadFfmpeg, ReadFfmpegEnds
<1> QED
  BY <1>1, <1>2, <1>3, <1>4 DEF SourceNext

LEMMA ClockKept == ClockInv /\ SourceKept => ClockInv'
BY DEF SourceKept, ClockInv, Ordered, Recent, Known, times

\* What a wall-clock medium's next packet is given is later than all it was given before.
LEMMA WallReads ==
  ASSUME SourceType, WallInv, ReadFfmpeg, camera.live, ~ChosenStreams.timed
  PROVE  WallInv'
<1> DEFINE sent == Head(sends)
           medium == camera.streams[sent.stream].media
           n == Len(given) + 1
           x == Received(sent, lastWall'[medium])
<1>1. sends # << >> /\ now' = now + sent.gap /\ camera.demux = "ffmpeg" /\ camera' = camera
  BY DEF ReadFfmpeg
<1>2. medium \in {"video", "audio"} /\ now' \in Int /\ sent \in SentBy(camera)
  BY ReadFfmpegReturns
<1>3. ~((chosen.timed \/ ~camera.live) /\ Known(sent.pts))
  BY DEF SourceType, NoStreams
<1>4. lastWall' = [lastWall EXCEPT ![medium] = WallTime(now', lastWall[medium])] /\ Return(x)
  BY <1>3 DEF ReadFfmpeg
<1>5. lastWall \in [{"video", "audio"} -> Int \cup {None}] /\ given \in Seq(Packet) /\ None \notin Int
  BY CameraSourceAssumption DEF SourceType
<1>6. /\ lastWall'[medium] \in Int
      /\ lastWall[medium] \in Int => lastWall[medium] < lastWall'[medium]
      /\ \A m \in {"video", "audio"} : m # medium => lastWall'[m] = lastWall[m]
  <2>1. lastWall'[medium] = WallTime(now', lastWall[medium])
    BY <1>2, <1>4, <1>5
  <2> HIDE DEF medium
  <2>2. lastWall[medium] \in Int \cup {None}
    BY <1>2, <1>5
  <2>3. WallTime(now', lastWall[medium]) \in Int
    BY <1>2, <2>2 DEF WallTime, Known
  <2>4. lastWall[medium] \in Int => lastWall[medium] < WallTime(now', lastWall[medium])
    BY <1>2, <1>5 DEF WallTime, Known
  <2> QED
    BY <1>2, <1>4, <1>5, <2>1, <2>3, <2>4
<1>7. x \in Packet /\ x.pts = lastWall'[medium] /\ x.media = medium
  BY <1>2, <1>6, ReceivedIsPacket DEF SourceType
<1>8. given' = Append(given, x)
  BY <1>4, <1>7, ReturnsPacket
<1>9. /\ DOMAIN given' = DOMAIN given \cup {n}
      /\ \A i \in DOMAIN given : i < n /\ given'[i] = given[i] /\ given[i] \in Packet
      /\ given'[n] = x /\ n \notin DOMAIN given
      /\ \A i \in DOMAIN given : ~(n < i)
      /\ ~(n < n)
  <2>1. x \in Packet /\ given \in Seq(Packet)
    BY <1>5, <1>7, Zenon
  <2> DEFINE g == given'
  <2>2. g = Append(given, x)
    BY <1>8
  <2> HIDE DEF x, medium, sent, g
  <2>3. /\ DOMAIN g = DOMAIN given \cup {n}
        /\ \A i \in DOMAIN given : i < n /\ g[i] = given[i] /\ given[i] \in Packet
        /\ g[n] = x /\ n \notin DOMAIN given
    BY <2>1, <2>2
  <2>4. DOMAIN given = 1..Len(given) /\ Len(given) \in Nat
    BY <2>1, LenProperties
  <2>5. (\A i \in DOMAIN given : ~(n < i)) /\ ~(n < n)
    BY <2>4
  <2> QED
    BY <2>3, <2>5, Zenon DEF g
<1> HIDE DEF x, n, medium, sent
<1>10. ASSUME NEW i \in DOMAIN given
       PROVE  /\ given[i].media \in {"video", "audio"}
              /\ lastWall'[given[i].media] \in Int /\ given[i].pts <= lastWall'[given[i].media]
              /\ given[i].media = medium => given[i].pts < lastWall'[medium]
  <2>1. /\ given[i].media \in {"video", "audio"} /\ lastWall[given[i].media] \in Int
        /\ given[i].pts <= lastWall[given[i].media] /\ given[i].pts \in Int
    BY <1>1, <1>9 DEF WallInv, Packet
  <2> QED
    BY <1>6, <2>1
<1>11. \A i \in DOMAIN given' :
         /\ given'[i].media \in {"video", "audio"}
         /\ lastWall'[given'[i].media] \in Int /\ given'[i].pts <= lastWall'[given'[i].media]
  <2>1. lastWall'[medium] <= lastWall'[medium]
    BY <1>6
  <2> QED
    BY <1>2, <1>6, <1>7, <1>9, <1>10, <2>1
<1>12. \A i, j \in DOMAIN given' :
         (i < j /\ given'[i].media = given'[j].media) => given'[i].pts < given'[j].pts
  <2> SUFFICES ASSUME NEW i \in DOMAIN given', NEW j \in DOMAIN given', i < j, given'[i].media = given'[j].media
               PROVE  given'[i].pts < given'[j].pts
    OBVIOUS
  <2>1. i \in DOMAIN given
    BY <1>9
  <2>2. CASE j \in DOMAIN given
    BY <1>1, <1>9, <2>1, <2>2 DEF WallInv
  <2>3. CASE j = n
    BY <1>7, <1>9, <1>10, <2>1, <2>3
  <2> QED
    BY <1>9, <2>2, <2>3
<1> QED
  BY <1>11, <1>12 DEF WallInv

LEMMA WallStep == SourceType /\ WallInv /\ SourceNext => WallInv'
<1> SUFFICES ASSUME SourceType, WallInv, SourceNext,
                    camera'.demux = "ffmpeg", camera'.live, ~ChosenStreams'.timed
             PROVE  WallInv'
  BY DEF WallInv
<1>0. camera' = camera => ChosenStreams' = ChosenStreams
  BY DEF ChosenStreams, InStreams, AnyVideo
<1>1. CASE ReadFfmpeg
  <2>1. camera' = camera
    BY <1>1 DEF ReadFfmpeg
  <2> QED
    BY <1>0, <1>1, <2>1, WallReads
<1>2. CASE ReadFfmpegEnds
  BY <1>0, <1>2, ReturnsError DEF ReadFfmpegEnds, WallInv, times
<1>3. CASE OpenFfmpeg \/ OpenFfmpegFails \/ SkipPacket
  BY <1>0, <1>3 DEF OpenFfmpeg, OpenFfmpegFails, SkipPacket, WallInv, times, gave
<1>4. CASE AttemptSucceeds \/ AttemptFails \/ ReadLive555
  BY <1>4 DEF AttemptSucceeds, AttemptFails, ReadLive555
<1> QED
  BY <1>1, <1>2, <1>3, <1>4 DEF SourceNext

LEMMA WallKept == WallInv /\ SourceKept => WallInv'
<1>1. SourceKept => ChosenStreams' = ChosenStreams
  BY DEF SourceKept, ChosenStreams, InStreams, AnyVideo
<1> QED
  BY <1>1 DEF SourceKept, WallInv, times

\* The times of a medium increase, for every camera whose times are made up here, however its own
\* times and the clock go (timestamp_creator.cpp and the wall clock of stream_ffmpeg_demux.cpp),
\* from one frame that was given no time to the next.
THEOREM TimesIncreaseHolds == Spec => []TimesIncrease
<1> DEFINE Inv == SourceType /\ ClockInv /\ WallInv
<1>1. Init => Inv
  <2>1. Init => given = << >> /\ firstFrame = None
    BY DEF Init, SourceInit
  <2> QED
    BY <2>1, InitSourceType DEF ClockInv, Ordered, WallInv, Known
<1>2. Inv /\ [Next]_vars => Inv'
  BY SourceOrKept, SourceStepType, KeptSourceType, ClockStep, ClockKept, WallStep, WallKept
<1>3. Inv => TimesIncrease
  <2> SUFFICES ASSUME Inv, MadeUp, NEW i \in DOMAIN given, NEW j \in DOMAIN given,
                      i < j, given[i].media = given[j].media, InTime(i, j)
               PROVE  given[i].pts < given[j].pts
                        \/ (Fragments(given[i], given[j]) /\ given[i].pts = given[j].pts)
    BY DEF TimesIncrease
  <2>1. CASE camera.demux = "live555"
    BY <2>1 DEF ClockInv, Ordered, Spared, InTime, Before, Fragments
  <2>2. CASE camera.demux # "live555"
    <3>1. camera.demux = "ffmpeg" /\ camera.live /\ ~ChosenStreams.timed
      BY <2>2, CameraSourceAssumption DEF MadeUp, SourceType, Camera
    <3> QED
      BY <3>1 DEF WallInv
  <2> QED
    BY <2>1, <2>2
<1> QED
  BY <1>1, <1>2, <1>3, PTL DEF Spec

(***************************************************************************)
(* The viewer's decoder                                                    *)
(***************************************************************************)
ArePictures(s) == s \in Seq(Packet) /\ \A i \in DOMAIN s : IsPicture(s[i])
ViewType ==
  /\ client \in {"new", "opening", "reading", "ended", "closed"}
  /\ pc \in {"client", "source", "opened", "decode"}
  /\ got \in Packet \cup {Nothing, Error, Later}
  /\ ArePictures(codec)
  /\ heldFrame \in Packet \cup {None} /\ (Known(heldFrame) => IsPicture(heldFrame))
  /\ shown \in Seq(Packet) /\ lastOutput \in Int
  /\ {framesProcessed, framesSkipped, packetsProcessed, noFrameCount, sinceKeyframe, keyInterval, unanswered} \subseteq Nat
  /\ prevSubmitted \in BOOLEAN

\* Where the graph is: what is open when which element runs, and for whom.
Place ==
  /\ client = "new" => pc = "client" /\ ~isOpen
  /\ client = "opening" /\ pc = "client" => got = Error \/ (got = Later /\ decoder \in {"open", "passthrough"})
  /\ client = "opening" /\ pc # "client" => decoder \in {"closed", "opening"}
  /\ client = "reading" => decoder \in {"open", "passthrough"}
  /\ pc # "client" => client \in {"opening", "reading"}
  /\ pc = "decode" => decoder # "closed"
  /\ pc = "opened" => decoder = "closed" /\ (got = Later => isOpen)
  /\ pc = "source" /\ decoder = "closed" => ~isOpen
  /\ decoder # "closed" => isOpen
  /\ decoder = "opening" => pc \in {"source", "decode"} /\ client = "opening"
  /\ decoder = "open" /\ pc = "client" /\ IsPacket(got) /\ IsVideo(got) => IsPicture(got)

Started == client = "new" \/ (client = "opening" /\ decoder = "closed" /\ pc \in {"source", "opened"})
Fresh ==
  /\ decoder = "closed" /\ codec = << >> /\ ~draining /\ pictures = << >> /\ shown = << >>
  /\ noFrameCount = 0 /\ unanswered = 0
NoFrameYet == heldFrame = None /\ framesProcessed = 0 /\ framesSkipped = 0 /\ shape = None /\ ~errorOccurred
Beginning == (Started => Fresh /\ NoFrameYet) /\ (decoder = "opening" => NoFrameYet)

\* A packet is asked of the source, or has come from it.
Asked == pc \in {"source", "opened"} \/ (pc = "decode" /\ got # Nothing)
Unanswered ==
  /\ noFrameCount + (IF prevSubmitted THEN 1 ELSE 0) >= unanswered
  /\ Asked => ~draining /\ noFrameCount >= unanswered
  /\ packetsProcessed = 0 => framesProcessed = 0 /\ codec = << >>
  /\ shape # None => framesProcessed > 0
  /\ StallIsNoticed

Lives ==
  /\ decoder \in {"opening", "open"} /\ ~errorOccurred /\ client \in {"opening", "reading"}
  /\ ~(pc = "client" /\ got = Error)
Accounts ==
  /\ Len(KnownPictures) + framesSkipped = Len(pictures)
  /\ framesSkipped = 0 => KnownPictures = pictures
InOrder ==
  /\ framesProcessed = 0 => FromCodec = << >>
  /\ \A i \in DOMAIN FromCodec : FromCodec[i].pts <= lastOutput
  /\ \A i, j \in DOMAIN FromCodec : i < j => FromCodec[i].pts <= FromCodec[j].pts

ViewInv == Viewing => ViewType /\ Place /\ Beginning /\ Unanswered
RecordInv == ~Viewing => pc # "decode" /\ framesProcessed = 0
PicturesKnown == Accounts /\ InOrder
PictureInv == Viewing /\ Lives => PicturesKnown

(***************************************************************************)
(* What a step of the source is to the element that has called it.         *)
(***************************************************************************)
Answers ==
  /\ pc = "source" /\ got = Nothing /\ camera' = camera
  /\ \/ /\ ~isOpen /\ UNCHANGED <<given, pictures>>
        /\ \/ pc' = pc /\ got' = Nothing /\ isOpen' = isOpen
           \/ pc' = "opened" /\ got' = Later /\ isOpen'
           \/ pc' = "opened" /\ got' = Error
     \/ /\ isOpen /\ isOpen' = isOpen
        /\ \/ pc' = pc /\ got' = Nothing /\ UNCHANGED <<given, pictures>>
           \/ \E x \in Packet \cup {Error} : Return(x)

LEMMA SourceAnswers == SourceType /\ SourceNext => Answers
<1> SUFFICES ASSUME SourceType, SourceNext PROVE Answers
  OBVIOUS
<1>1. CASE AttemptSucceeds
  BY <1>1 DEF AttemptSucceeds, Opening, Opened, Runs, Answers, gave
<1>2. CASE AttemptFails
  <2>1. /\ pc = "source" /\ got = Nothing /\ camera' = camera /\ ~isOpen /\ isOpen' = isOpen
        /\ UNCHANGED <<given, pictures>>
    BY <1>2 DEF AttemptFails, Opening, Runs, gave
  <2>2. (pc' = pc /\ got' = Nothing) \/ (pc' = "opened" /\ got' = Error)
    BY <1>2 DEF AttemptFails, Opened, Stay
  <2> QED
    BY <2>1, <2>2 DEF Answers
<1>3. CASE ReadLive555
  <2>1. pc = "source" /\ got = Nothing /\ camera' = camera /\ isOpen /\ isOpen' = isOpen
    BY <1>3 DEF ReadLive555, Runs
  <2>2. \E x \in Packet \cup {Error} : Return(x)
    <3>1. CASE Known(firstFrame) /\ Return(firstFrame)
      BY <3>1 DEF SourceType, Known
    <3>2. CASE SessionReads /\ Return(FrameRead)
      BY <3>2, FrameReadIsPacket
    <3>3. CASE Return(Error)
      BY <3>3
    <3> QED
      BY <1>3, <3>1, <3>2, <3>3 DEF ReadLive555
  <2> QED
    BY <2>1, <2>2 DEF Answers
<1>4. CASE OpenFfmpeg
  BY <1>4 DEF OpenFfmpeg, Opening, Opened, Runs, Answers, gave
<1>5. CASE OpenFfmpegFails
  <2>1. /\ pc = "source" /\ got = Nothing /\ camera' = camera /\ ~isOpen /\ isOpen' = isOpen
        /\ UNCHANGED <<given, pictures>>
    BY <1>5 DEF OpenFfmpegFails, Opening, Runs, gave
  <2>2. (pc' = pc /\ got' = Nothing) \/ (pc' = "opened" /\ got' = Error)
    BY <1>5 DEF OpenFfmpegFails, Opened, Stay
  <2> QED
    BY <2>1, <2>2 DEF Answers
<1>6. CASE SkipPacket
  BY <1>6 DEF SkipPacket, Runs, Stay, Answers, gave
<1>7. CASE ReadFfmpeg
  <2>1. pc = "source" /\ got = Nothing /\ camera' = camera /\ isOpen /\ isOpen' = isOpen
    BY <1>7 DEF ReadFfmpeg, Runs
  <2>2. PICK pts \in Int : Return(Received(Head(sends), pts))
    BY <1>7, ReadFfmpegReturns
  <2>3. Received(Head(sends), pts) \in Packet
    BY <1>7, ReadFfmpegReturns, ReceivedIsPacket DEF SourceType
  <2> QED
    BY <2>1, <2>2, <2>3 DEF Answers
<1>8. CASE ReadFfmpegEnds
  BY <1>8 DEF ReadFfmpegEnds, Runs, Answers
<1> QED
  BY <1>1, <1>2, <1>3, <1>4, <1>5, <1>6, <1>7, <1>8 DEF SourceNext

(***************************************************************************)
(* A recording has no decoder of pictures.                                 *)
(***************************************************************************)
LEMMA ElementsAreNotDecode ==
  ASSUME NEW e \in {"encode", "resample", "expand", "queue"}
  PROVE  Caller(e) # "decode" /\ (e # "queue" => Below(e) # "decode")
<1> DEFINE above == {i \in 1..4 : i < Places[e] /\ On(Elements[i])}
           below == {i \in 1..4 : i > Places[e] /\ On(Elements[i])}
<1>1. \A i \in 1..4 : Elements[i] # "decode"
  BY DEF Elements
<1>2. above # {} => Max(above) \in 1..4
  BY MinMaxIn
<1>3. e # "queue" => 4 \in below
  BY DEF Places, Elements, On
<1>4. e # "queue" => Min(below) \in 1..4
  BY <1>3, MinMaxIn
<1> QED
  BY <1>1, <1>2, <1>4 DEF Caller, Below

LEMMA RecordStep == SourceType /\ RecordInv /\ [Next]_vars => RecordInv'
<1> SUFFICES ASSUME SourceType, RecordInv, [Next]_vars, ~Viewing' PROVE pc' # "decode" /\ framesProcessed' = 0
  BY DEF RecordInv
<1>0. camera' = camera
  BY SourceOrKept, SourceAnswers DEF SourceKept, Answers
<1>1. ~Viewing /\ pc # "decode" /\ framesProcessed = 0 /\ camera.chain = "record"
  BY <1>0, CameraSourceAssumption DEF RecordInv, Viewing, SourceType, Camera
<1>2. CASE ClientNext
  <2>1. CASE OpenFeed \/ FeedOpened \/ Read \/ Flush \/ RecordedAll
    BY <1>1, <2>1 DEF OpenFeed, FeedOpened, Read, Flush, RecordedAll, AsksFor, Stay, elements,
       decoderVars, output
  <2>2. CASE View \/ Split \/ Record \/ CloseFeed
    BY <1>1, <2>2 DEF View, Split, Record, CloseFeed, AsksFor, Stay, elements, decoderVars, output
  <2> QED
    BY <1>2, <2>1, <2>2 DEF ClientNext
<1>3. CASE SourceNext /\ UNCHANGED <<elements, client, made>>
  <2>1. framesProcessed' = framesProcessed
    BY <1>3 DEF elements, decoderVars, output
  <2>2. pc' # "decode"
    BY <1>1, <1>3, SourceAnswers DEF Answers, Return, Above
  <2> QED
    BY <1>1, <2>1, <2>2
<1>4. CASE DecoderNext
  <2>1. ~DecoderNext
    BY <1>1 DEF DecoderNext, DecoderOpens, DecoderSourceFails, DecoderRefuses, ServeHeldFrame,
       ReceiveFrame,
       SkipStaleFrame, ReceiveNothing, ReadThrough, PassPacket, SubmitPacket, ChangeDevice,
       SubmitFails,
       SourceReadFails, Receives, Runs, Gets, GetsNone
  <2> QED
    BY <1>4, <2>1
<1>5. CASE TranscoderNext /\ UNCHANGED <<decoderVars, client, made>>
  <2>1. framesProcessed' = framesProcessed
    BY <1>5 DEF decoderVars, output
  <2>2. CASE OpenTranscoder \/ TranscoderSourceFails
    <3>1. pc' = "client"
      BY <2>2, Zenon DEF OpenTranscoder, TranscoderSourceFails
    <3> QED
      BY <1>1, <2>1, <3>1
  <2>3. CASE Resample \/ ReadQueue
    <3>1. Caller("resample") # "decode" /\ Caller("queue") # "decode"
      BY ElementsAreNotDecode
    <3>2. pc' = Caller("resample") \/ pc' = Caller("queue")
      BY <2>3, Zenon DEF Resample, ReadQueue, Give
    <3> QED
      BY <1>1, <2>1, <3>1, <3>2
  <2>4. ASSUME NEW e \in {"encode", "resample", "expand"},
               \/ CallBelow(e) \/ TransformPending(e) \/ TransformPacket(e) \/ TransformLosesPacket(e)
               \/ TransformFails(e) \/ PassOther(e) \/ PassNone(e)
        PROVE  pc' # "decode"
    <3>1. Caller(e) # "decode" /\ Below(e) # "decode"
      BY ElementsAreNotDecode
    <3>2. CASE TransformPacket(e)
      BY <1>1, <3>1, <3>2 DEF TransformPacket, Output, Give, Stay
    <3> QED
      BY <2>4, <3>1, <3>2 DEF CallBelow, TransformPending, TransformLosesPacket, TransformFails,
         PassOther, PassNone,
         Output, Give
  <2> QED
    BY <1>1, <1>5, <2>1, <2>2, <2>3, <2>4 DEF TranscoderNext
<1>6. CASE UNCHANGED vars
  BY <1>1, <1>6 DEF vars, sourceVars, decoderVars, output
<1> QED
  BY <1>2, <1>3, <1>4, <1>5, <1>6 DEF Next, Closed

(***************************************************************************)
(* The steps of a viewer's graph, and what each leaves of the types.       *)
(***************************************************************************)
ViewStep ==
  \/ OpenFeed \/ FeedOpened \/ Read \/ View \/ (CloseFeed /\ CloseDecoder)
  \/ Answers /\ UNCHANGED <<elements, client, made>>
  \/ DecoderNext /\ UNCHANGED <<client, made>>
  \/ UNCHANGED vars

LEMMA ViewSteps ==
  ASSUME SourceType, Viewing, ViewType, [Next]_vars
  PROVE  Viewing' /\ ViewStep
<1>0. camera' = camera
  BY SourceOrKept, SourceAnswers DEF SourceKept, Answers
<1>1. camera.chain = "view" /\ client # "recording" /\ pc \in {"client", "source", "opened", "decode"}
  BY DEF Viewing, ViewType
<1>7. Viewing'
  BY <1>0, <1>1 DEF Viewing
<1> SUFFICES ViewStep
  BY <1>7
<1>2. CASE ClientNext
  BY <1>1, <1>2 DEF ClientNext, ViewStep, Split, Record, RecordedAll, Flush, CloseFeed, Viewing
<1>3. CASE SourceNext /\ UNCHANGED <<elements, client, made>>
  BY <1>3, SourceAnswers DEF ViewStep
<1>4. CASE DecoderNext /\ UNCHANGED <<transcoderVars, client, made>>
  BY <1>4 DEF ViewStep
<1>5. CASE TranscoderNext
  <2>1. ~(OpenTranscoder \/ TranscoderSourceFails)
    BY <1>1, Zenon DEF OpenTranscoder, TranscoderSourceFails
  <2>2. ~(Resample \/ ReadQueue)
    BY <1>1 DEF Resample, ReadQueue, Runs, Gets
  <2>3. ASSUME NEW e \in {"encode", "resample", "expand"}
        PROVE  ~(\/ CallBelow(e) \/ TransformPending(e) \/ TransformPacket(e) \/ TransformLosesPacket(e)
                 \/ TransformFails(e) \/ PassOther(e) \/ PassNone(e))
    BY <1>1 DEF CallBelow, TransformPending, TransformPacket, TransformLosesPacket,
       TransformFails, PassOther,
       PassNone, Runs, Gets, GetsNone
  <2> QED
    BY <1>5, <2>1, <2>2, <2>3 DEF TranscoderNext
<1>6. CASE UNCHANGED vars
  BY <1>6 DEF ViewStep
<1> QED
  BY <1>2, <1>3, <1>4, <1>5, <1>6 DEF Next, Closed

LEMMA ReturnToDecoder ==
  ASSUME Viewing, NEW x \in Packet \cup {Error}, Return(x), pc = "source"
  PROVE  pc' = "decode" /\ got' = x /\ x # Nothing
BY CameraSourceAssumption DEF Return, Above, Viewing

LEMMA PacketsHeld ==
  ASSUME NEW s, ArePictures(s)
  PROVE  /\ \A p \in Packet : IsPicture(p) => ArePictures(Append(s, p))
         /\ s # << >> => Head(s) \in Packet /\ IsPicture(Head(s)) /\ ArePictures(Tail(s))
         /\ ArePictures(<< >>)
<1> USE DEF ArePictures
<1>1. ASSUME NEW p \in Packet, IsPicture(p)
      PROVE  ArePictures(Append(s, p))
  <2>1. DOMAIN s = 1..Len(s) /\ Len(s) \in Nat
    OBVIOUS
  <2>2. \A i \in DOMAIN Append(s, p) : i = Len(s) + 1 \/ (i \in DOMAIN s /\ Append(s, p)[i] = s[i])
    BY <2>1
  <2>3. Append(s, p)[Len(s) + 1] = p
    OBVIOUS
  <2> QED
    BY <1>1, <2>2, <2>3
<1>2. ASSUME s # << >>
      PROVE  Head(s) \in Packet /\ IsPicture(Head(s)) /\ ArePictures(Tail(s))
  <2>1. Head(s) = s[1] /\ 1 \in DOMAIN s
    BY <1>2
  <2>2. /\ Tail(s) \in Seq(Packet) /\ Len(Tail(s)) = Len(s) - 1
        /\ \A i \in 1..Len(Tail(s)) : Tail(s)[i] = s[i + 1]
    BY <1>2, HeadTailProperties
  <2>3. \A i \in DOMAIN Tail(s) : i + 1 \in DOMAIN s /\ Tail(s)[i] = s[i + 1]
    BY <2>2
  <2> QED
    BY <1>2, <2>1, <2>2, <2>3
<1>3. << >> \in Seq(Packet)
  OBVIOUS
<1> QED
  BY <1>1, <1>2, <1>3

LEMMA ClientViewType ==
  ASSUME SourceType, Viewing, ViewType, Place,
         OpenFeed \/ FeedOpened \/ Read \/ View \/ (CloseFeed /\ CloseDecoder) \/ UNCHANGED vars
  PROVE  ViewType'
<1> USE DEF AsksFor, Stay, elements, decoderVars, output, counts, made
<1>1. CASE OpenFeed \/ FeedOpened \/ Read
  BY <1>1 DEF OpenFeed, FeedOpened, Read, ViewType, Viewing
<1>2. CASE View
  <2>1. shown' \in Seq(Packet)
    BY <1>2 DEF View, ViewType, IsPacket
  <2> QED
    BY <1>2, <2>1 DEF View, ViewType
<1>3. CASE CloseFeed /\ CloseDecoder
  <2>1. ArePictures(codec') /\ heldFrame' = None
    BY <1>3, PacketsHeld DEF CloseDecoder, ViewType
  <2> QED
    BY <1>3, <2>1 DEF CloseFeed, ViewType, Known, Viewing
<1>4. CASE UNCHANGED vars
  BY <1>4 DEF vars, sourceVars, ViewType
<1> QED
  BY <1>1, <1>2, <1>3, <1>4

LEMMA SourceViewType ==
  ASSUME Viewing, ViewType, Answers, UNCHANGED <<elements, client, made>>
  PROVE  ViewType'
<1>1. pc' \in {"client", "source", "opened", "decode"} /\ got' \in Packet \cup {Nothing, Error, Later}
  BY ReturnToDecoder DEF Answers, ViewType
<1> QED
  BY <1>1 DEF elements, decoderVars, output, counts, made, ViewType

LEMMA DecoderViewType ==
  ASSUME Viewing, ViewType, DecoderNext, UNCHANGED <<client, made>>
  PROVE  ViewType'
<1> USE DEF Answer, Stay, decoderVars, output, counts, made
<1>0. ArePictures(<< >>) /\ (codec # << >> => Head(codec) \in Packet /\ IsPicture(Head(codec)))
  BY PacketsHeld DEF ViewType
<1>1. CASE DecoderOpens
  BY <1>0, <1>1 DEF DecoderOpens, CloseDecoder, ViewType, Known
<1>2. CASE DecoderSourceFails
  BY <1>0, <1>2 DEF DecoderSourceFails, CloseDecoder, ViewType, Known
<1>3. CASE DecoderRefuses
  BY <1>3 DEF DecoderRefuses, ViewType
<1>4. CASE ServeHeldFrame
  BY <1>4 DEF ServeHeldFrame, ViewType, Known
<1>5. CASE ReceiveFrame
  <2>1. codec # << >>
    BY <1>5 DEF ReceiveFrame, Ready
  <2>2. Head(codec) \in Packet /\ IsPicture(Head(codec)) /\ Head(codec).pts \in Int
    BY <1>0, <2>1 DEF Packet
  <2>3. codec' \in {Tail(codec), << >>}
    BY <1>5 DEF ReceiveFrame, CodecHolds
  <2>4. ArePictures(codec')
    BY <1>0, <2>1, <2>3, PacketsHeld DEF ViewType
  <2>5. /\ pc' \in {"client", "decode"} /\ got' \in Packet \cup {Nothing, Error, Later}
        /\ heldFrame' \in {heldFrame, None, Head(codec)}
    BY <1>5, <2>2 DEF ReceiveFrame, DecoderGives, DecoderEnds, Receives, Runs
  <2>6. framesProcessed' \in Nat /\ noFrameCount' \in Nat /\ unanswered' \in Nat /\ lastOutput' \in Int
    BY <1>5, <2>2 DEF ReceiveFrame, ViewType
  <2> QED
    BY <1>5, <2>2, <2>4, <2>5, <2>6 DEF ReceiveFrame, ViewType, Known
<1>6. CASE SkipStaleFrame
  <2>1. codec # << >>
    BY <1>6 DEF SkipStaleFrame, Ready
  <2>3. codec' \in {Tail(codec), << >>}
    BY <1>6 DEF SkipStaleFrame, CodecHolds
  <2>4. ArePictures(codec')
    BY <1>0, <2>1, <2>3, PacketsHeld DEF ViewType
  <2>5. /\ pc' \in {"client", "decode", "source"} /\ got' \in {Nothing, Error}
        /\ heldFrame' \in {heldFrame, None} /\ noFrameCount' \in Nat /\ framesSkipped' \in Nat
    BY <1>6 DEF SkipStaleFrame, DecoderEnds, AskSource, Receives, Runs, ViewType
  <2>6. UNCHANGED <<lastOutput, framesProcessed, packetsProcessed, prevSubmitted, sinceKeyframe, keyInterval, unanswered>>
    BY <1>6 DEF SkipStaleFrame, AskSource
  <2> QED
    BY <1>6, <2>4, <2>5, <2>6 DEF ViewType, Known
<1>7. CASE ReceiveNothing \/ ReadThrough
  <2>1. codec' \in {codec, << >>}
    BY <1>7 DEF ReceiveNothing, ReadThrough, CodecHolds
  <2>2. /\ pc' \in {"client", "source"} /\ got' \in {Nothing, Error}
        /\ heldFrame' \in {heldFrame, None} /\ noFrameCount' \in Nat
    BY <1>7 DEF ReceiveNothing, ReadThrough, DecoderEnds, AskSource, ViewType
  <2>3. UNCHANGED <<framesSkipped, lastOutput, framesProcessed, packetsProcessed, prevSubmitted, sinceKeyframe, keyInterval,
                    unanswered>>
    BY <1>7 DEF ReceiveNothing, ReadThrough, AskSource
  <2> QED
    BY <1>0, <1>7, <2>1, <2>2, <2>3 DEF ViewType, Known
<1>8. CASE PassPacket \/ SubmitPacket \/ ChangeDevice \/ SubmitFails
  <2>1. got \in Packet /\ pc = "decode"
    BY <1>8 DEF PassPacket, SubmitPacket, ChangeDevice, SubmitFails, Gets, IsPacket, ViewType
  <2>2. ArePictures(codec')
    <3>1. CASE SubmitPacket
      <4>1. codec' \in {<< >>, codec, Append(codec, got)} /\ (codec' = Append(codec, got) => got.good /\ IsVideo(got)) 
        BY <3>1, <2>1 DEF SubmitPacket, CodecHolds, Decoded, IsVideo
      <4> QED
        BY <1>0, <2>1, <4>1, PacketsHeld DEF ViewType, IsPicture
    <3>2. CASE PassPacket \/ ChangeDevice \/ SubmitFails
      <4>1. codec' \in {<< >>, codec}
        BY <3>2 DEF PassPacket, ChangeDevice, SubmitFails, CodecHolds
      <4> QED
        BY <1>0, <4>1 DEF ViewType
    <3> QED
      BY <1>8, <3>1, <3>2
  <2>3. pc' \in {"client", "decode"} /\ got' \in Packet \cup {Nothing, Error, Later}
    BY <1>8, <2>1 DEF PassPacket, SubmitPacket, ChangeDevice, SubmitFails, DecoderGives,
       DecoderEnds, SubmitAgain
  <2>4. heldFrame' \in {heldFrame, None}
    BY <1>8 DEF PassPacket, SubmitPacket, ChangeDevice, SubmitFails, DecoderGives, DecoderEnds,
       Decoded
  <2>5. prevSubmitted' \in {TRUE, FALSE}
    BY <1>8 DEF PassPacket, SubmitPacket, ChangeDevice, SubmitFails, Counted
  <2>6. {packetsProcessed', sinceKeyframe', keyInterval', unanswered'} \subseteq Nat
    <3>1. packetsProcessed \in Nat /\ sinceKeyframe \in Nat /\ keyInterval \in Nat /\ unanswered \in Nat
      BY DEF ViewType
    <3>2. CASE PassPacket
      BY <3>1, <3>2 DEF PassPacket
    <3>3. CASE SubmitPacket
      <4>1. packetsProcessed' = packetsProcessed + 1 /\ unanswered' = unanswered + 1 /\ Counted(got)
        BY <3>3 DEF SubmitPacket
      <4> QED
        BY <3>1, <4>1 DEF Counted
    <3>4. CASE ChangeDevice \/ SubmitFails
      <4>1. UNCHANGED <<packetsProcessed, unanswered>> /\ Counted(got)
        BY <3>4 DEF ChangeDevice, SubmitFails
      <4> QED
        BY <3>1, <4>1 DEF Counted
    <3> QED
      BY <1>8, <3>2, <3>3, <3>4
  <2>7. UNCHANGED <<framesProcessed, framesSkipped, noFrameCount, lastOutput>>
    BY <1>8 DEF PassPacket, SubmitPacket, ChangeDevice, SubmitFails
  <2> QED
    BY <1>8, <2>2, <2>3, <2>4, <2>5, <2>6, <2>7 DEF ViewType, Known
<1>9. CASE SourceReadFails
  <2>1. codec' \in {codec, << >>} /\ heldFrame' \in {heldFrame, None}
    BY <1>9 DEF SourceReadFails, CodecHolds, DecoderEnds
  <2>2. pc' \in {"client", "decode"} /\ got' \in {Nothing, Error}
    BY <1>9 DEF SourceReadFails, DecoderEnds, GetsNone
  <2> QED
    BY <1>0, <1>9, <2>1, <2>2 DEF SourceReadFails, ViewType, Known
<1> QED
  BY <1>1, <1>2, <1>3, <1>4, <1>5, <1>6, <1>7, <1>8, <1>9 DEF DecoderNext

(***************************************************************************)
(* Where the viewer's graph is.                                            *)
(***************************************************************************)
LEMMA ClientPlace ==
  ASSUME Viewing, ViewType, Place,
         OpenFeed \/ FeedOpened \/ Read \/ View \/ (CloseFeed /\ CloseDecoder) \/ UNCHANGED vars
  PROVE  Place'
<1> USE DEF AsksFor, Stay, elements, decoderVars, source, Place
<1>0. ~IsPacket(Nothing) /\ Nothing # Error /\ Nothing # Later
  BY CameraSourceAssumption DEF IsPacket
<1>1. CASE OpenFeed
  BY <1>0, <1>1 DEF OpenFeed
<1>2. CASE FeedOpened
  BY <1>0, <1>2 DEF FeedOpened
<1>3. CASE Read
  BY <1>0, <1>3 DEF Read, Runs
<1>4. CASE View
  BY <1>0, <1>4 DEF View
<1>5. CASE CloseFeed /\ CloseDecoder
  BY <1>0, <1>5 DEF CloseFeed, CloseDecoder, CloseSource
<1>6. CASE UNCHANGED vars
  BY <1>6 DEF vars, sourceVars
<1> QED
  BY <1>1, <1>2, <1>3, <1>4, <1>5, <1>6

LEMMA SourcePlace ==
  ASSUME Viewing, ViewType, Place, Answers, UNCHANGED <<elements, client, made>>
  PROVE  Place'
<1>0. Nothing # Error /\ Nothing # Later /\ UNCHANGED <<decoder, client>>
  BY CameraSourceAssumption DEF elements, decoderVars
<1>1. CASE ~isOpen
  BY <1>0, <1>1, CameraSourceAssumption DEF Answers, Place
<1>2. CASE isOpen
  BY <1>0, <1>2, ReturnToDecoder DEF Answers, Place
<1> QED
  BY <1>1, <1>2

\* What DecoderGives and DecoderEnds leave of the place of a graph that decodes.
LEMMA GivesPlace ==
  ASSUME Place, pc = "decode", client' = client, NEW f \in Packet, DecoderGives(f),
         decoder = "open" /\ IsVideo(f) => IsPicture(f)
  PROVE  Place'
<1>0. ~IsPacket(Later) /\ ~IsPacket(Nothing) /\ Nothing # Error /\ Nothing # Later /\ IsPacket(f) /\ f # Error
  BY CameraSourceAssumption DEF IsPacket
<1>1. client \in {"opening", "reading"} /\ isOpen
  BY DEF Place
<1>2. CASE decoder = "opening"
  BY <1>0, <1>1, <1>2 DEF DecoderGives, Answer, Stay, Place, source
<1>3. CASE decoder # "opening"
  BY <1>0, <1>1, <1>3 DEF DecoderGives, Answer, Place, source
<1> QED
  BY <1>2, <1>3

LEMMA EndsPlace ==
  ASSUME Place, pc = "decode", client' = client, DecoderEnds PROVE Place'
<1>0. ~IsPacket(Error)
  BY DEF IsPacket
<1>1. CASE decoder = "opening"
  BY <1>0, <1>1 DEF DecoderEnds, CloseSource, Answer, Place
<1>2. CASE decoder # "opening"
  BY <1>0, <1>2 DEF DecoderEnds, Answer, Place, source
<1> QED
  BY <1>1, <1>2

LEMMA GoesOnPlace ==
  ASSUME Place, pc = "decode", UNCHANGED <<client, source, decoder>>,
         pc' = "source" \/ pc' = "decode"
  PROVE  Place'
BY DEF Place, source

LEMMA DecoderPlace ==
  ASSUME Viewing, ViewType, Place, Beginning, DecoderNext, UNCHANGED <<client, made>>
  PROVE  Place'
<1>0. ~IsPacket(Error) /\ ~IsPacket(Later) /\ ~IsPacket(Nothing) /\ Nothing # Error /\ Nothing # Later
  BY CameraSourceAssumption DEF IsPacket
<1>1. CASE DecoderOpens
  <2>1. pc = "opened" /\ got = Later /\ isOpen /\ client = "opening"
    BY <1>1 DEF DecoderOpens, Place
  <2> QED
    BY <1>0, <1>1, <2>1 DEF DecoderOpens, CloseDecoder, CloseSource, Answer, Place, source
<1>2. CASE DecoderSourceFails
  BY <1>0, <1>2 DEF DecoderSourceFails, CloseDecoder, CloseSource, Answer, Place
<1>3. CASE DecoderRefuses
  <2>1. decoder # "opening" /\ pc = "decode"
    BY <1>3 DEF DecoderRefuses, Beginning, NoFrameYet, Runs
  <2> QED
    BY <1>0, <1>3, <2>1 DEF DecoderRefuses, Answer, Place, source, decoderVars
<1>4. CASE ServeHeldFrame
  <2>1. decoder # "opening" /\ pc = "decode" /\ heldFrame \in Packet /\ IsPicture(heldFrame)
    BY <1>4 DEF ServeHeldFrame, Beginning, NoFrameYet, Runs, Known, ViewType
  <2>2. IsPacket(heldFrame)
    BY <2>1, PacketsAreToldApart
  <2> QED
    BY <1>0, <1>4, <2>1, <2>2 DEF ServeHeldFrame, Answer, Place, source
<1>5. CASE ReceiveFrame
  <2>1. pc = "decode" /\ Head(codec) \in Packet /\ IsPicture(Head(codec))
    BY <1>5, PacketsHeld DEF ReceiveFrame, Receives, Runs, Ready, ViewType
  <2>2. DecoderGives(Head(codec)) \/ DecoderEnds
    BY <1>5 DEF ReceiveFrame
  <2> QED
    BY <2>1, <2>2, GivesPlace, EndsPlace
<1>6. CASE SkipStaleFrame \/ ReceiveNothing \/ ReadThrough
  <2>1. pc = "decode"
    BY <1>6 DEF SkipStaleFrame, ReceiveNothing, ReadThrough, Receives, Runs
  <2>2. DecoderEnds \/ (UNCHANGED <<source, decoder>> /\ (pc' = "source" \/ pc' = "decode"))
    BY <1>6, <2>1 DEF SkipStaleFrame, ReceiveNothing, ReadThrough, AskSource, Stay
  <2> QED
    BY <2>1, <2>2, EndsPlace, GoesOnPlace
<1>7. CASE PassPacket
  <2>1. pc = "decode" /\ got \in Packet /\ DecoderGives(got)
    BY <1>7 DEF PassPacket, Gets, IsPacket, ViewType
  <2>2. decoder = "open" => ~IsVideo(got)
    BY <1>7 DEF PassPacket, Decoded, IsVideo
  <2> QED
    BY <2>1, <2>2, GivesPlace
<1>8. CASE SubmitPacket \/ ChangeDevice \/ SubmitFails \/ SourceReadFails
  <2>1. pc = "decode"
    BY <1>8 DEF SubmitPacket, ChangeDevice, SubmitFails, SourceReadFails, Gets, GetsNone
  <2>2. DecoderEnds \/ (UNCHANGED <<source, decoder>> /\ pc' = "decode")
    BY <1>8, <2>1 DEF SubmitPacket, ChangeDevice, SubmitFails, SourceReadFails, SubmitAgain, Stay
  <2> QED
    BY <2>1, <2>2, EndsPlace, GoesOnPlace
<1> QED
  BY <1>1, <1>2, <1>3, <1>4, <1>5, <1>6, <1>7, <1>8 DEF DecoderNext

(***************************************************************************)
(* How it begins.                                                          *)
(***************************************************************************)
LEMMA ClientBeginning ==
  ASSUME Viewing, ViewType, Place, Beginning,
         OpenFeed \/ FeedOpened \/ Read \/ View \/ (CloseFeed /\ CloseDecoder) \/ UNCHANGED vars
  PROVE  Beginning'
<1> USE DEF Beginning, Started, Fresh, NoFrameYet, elements, decoderVars, source, output, counts, made, gave
<1>1. CASE OpenFeed
  BY <1>1 DEF OpenFeed, Place
<1>2. CASE FeedOpened \/ Read \/ View
  <2>1. pc = "client" /\ client' # "new" /\ (client' = "opening" => client = "opening" /\ pc' = "client")
    BY <1>2 DEF FeedOpened, Read, View, Runs, Stay
  <2>2. ~Started' /\ decoder' # "opening"
    BY <1>2, <2>1 DEF FeedOpened, Read, View, Place
  <2> QED
    BY <2>2
<1>3. CASE CloseFeed /\ CloseDecoder
  <2>1. ~Started' /\ decoder' # "opening"
    BY <1>3 DEF CloseFeed, CloseDecoder
  <2> QED
    BY <2>1
<1>4. CASE UNCHANGED vars
  BY <1>4 DEF vars, sourceVars
<1> QED
  BY <1>1, <1>2, <1>3, <1>4

LEMMA SourceBeginning ==
  ASSUME Viewing, ViewType, Place, Beginning, Answers, UNCHANGED <<elements, client, made>>
  PROVE  Beginning'
<1> USE DEF Beginning, Started, Fresh, NoFrameYet, elements, decoderVars, output, counts, made
<1>1. CASE ~isOpen
  BY <1>1 DEF Answers
<1>2. CASE isOpen
  <2>1. ~Started /\ ~Started'
    BY <1>2, ReturnToDecoder DEF Answers, Place
  <2> QED
    BY <2>1
<1> QED
  BY <1>1, <1>2

LEMMA DecoderBeginning ==
  ASSUME Viewing, ViewType, Place, Beginning, DecoderNext, UNCHANGED <<client, made>>
  PROVE  Beginning'
<1> USE DEF Beginning, Started, Fresh, NoFrameYet
<1>1. CASE DecoderOpens \/ DecoderSourceFails
  <2>1. pc = "opened" /\ client = "opening" /\ decoder = "closed"
    BY <1>1 DEF DecoderOpens, DecoderSourceFails, Place
  <2>2. ~Started'
    BY <1>1, <2>1 DEF DecoderOpens, DecoderSourceFails, CloseDecoder, Answer
  <2>3. decoder' = "opening" => UNCHANGED <<heldFrame, framesProcessed, framesSkipped, shape, errorOccurred>>
    BY <1>1 DEF DecoderOpens, DecoderSourceFails, CloseDecoder, output
  <2> QED
    BY <2>1, <2>2, <2>3
<1>2. CASE DecoderRefuses \/ ServeHeldFrame
  <2>1. pc = "decode" /\ decoder # "closed" /\ decoder # "opening"
    BY <1>2 DEF DecoderRefuses, ServeHeldFrame, Runs, Known, Place
  <2>2. decoder' = decoder
    BY <1>2 DEF DecoderRefuses, ServeHeldFrame, decoderVars
  <2> QED
    BY <2>1, <2>2 DEF Place
<1>3. CASE ~(DecoderOpens \/ DecoderSourceFails \/ DecoderRefuses \/ ServeHeldFrame)
  <2>1. pc = "decode" /\ client \in {"opening", "reading"} /\ decoder # "closed"
    BY <1>3 DEF DecoderNext, ReceiveFrame, SkipStaleFrame, ReceiveNothing, ReadThrough,
       PassPacket, SubmitPacket, ChangeDevice,
       SubmitFails, SourceReadFails, Receives, Runs, Gets, GetsNone, Place
  <2>2. \/ DecoderEnds
        \/ \E f \in Packet : DecoderGives(f) /\ (f = Head(codec) \/ UNCHANGED <<output, errorOccurred>>)
        \/ UNCHANGED <<decoder, heldFrame, errorOccurred>>
    <3>1. CASE ReceiveFrame
      BY <3>1, PacketsHeld DEF ReceiveFrame, Ready, ViewType
    <3>2. CASE PassPacket
      BY <3>2 DEF PassPacket, Gets, IsPacket, ViewType
    <3> QED
      BY <1>3, <3>1, <3>2 DEF DecoderNext, SkipStaleFrame, ReceiveNothing, ReadThrough,
         SubmitPacket, ChangeDevice,
         SubmitFails, SourceReadFails
  <2>3. ~Started'
    <3>1. client' # "new" /\ (client' = "opening" /\ decoder' = "closed" => pc' = "client")
      BY <2>1, <2>2 DEF DecoderEnds, DecoderGives, Answer
    <3> QED
      BY <3>1
  <2>4. decoder' = "opening" => NoFrameYet'
    <3>1. SUFFICES ASSUME decoder' = "opening" PROVE NoFrameYet'
      OBVIOUS
    <3>2. decoder = "opening" /\ ~DecoderEnds
      BY <2>2, <3>1 DEF DecoderEnds, DecoderGives
    <3>3. NoFrameYet
      BY <3>2
    <3>4. CASE ReceiveFrame
      <4>1. IsPicture(Head(codec))
        BY <3>4, PacketsHeld DEF ReceiveFrame, Ready, ViewType
      <4> QED
        BY <3>1, <3>2, <3>3, <3>4, <4>1 DEF ReceiveFrame, DecoderGives, IsPicture, IsVideo
    <3>5. CASE SkipStaleFrame
      BY <3>3, <3>5 DEF SkipStaleFrame, Stale
    <3>6. CASE PassPacket
      BY <3>1, <3>2, <3>3, <3>6 DEF PassPacket, DecoderGives, output
    <3>7. CASE ReceiveNothing \/ ReadThrough \/ SubmitPacket \/ ChangeDevice \/ SubmitFails \/ SourceReadFails
      BY <3>2, <3>3, <3>7 DEF ReceiveNothing, ReadThrough, SubmitPacket, ChangeDevice,
         SubmitFails, SourceReadFails,
         output
    <3> QED
      BY <1>3, <3>4, <3>5, <3>6, <3>7 DEF DecoderNext
  <2> QED
    BY <2>3, <2>4
<1> QED
  BY <1>1, <1>2, <1>3

(***************************************************************************)
(* StallIsNoticed                                                          *)
(***************************************************************************)
LEMMA ClientUnanswered ==
  ASSUME Viewing, ViewType, Place, Beginning, Unanswered,
         OpenFeed \/ FeedOpened \/ Read \/ View \/ (CloseFeed /\ CloseDecoder) \/ UNCHANGED vars
  PROVE  Unanswered'
<1> USE DEF Unanswered, StallIsNoticed, elements, decoderVars, output, counts
<1>1. CASE OpenFeed
  <2>1. ~draining /\ noFrameCount = 0 /\ unanswered = 0
    BY <1>1 DEF OpenFeed, Beginning, Started, Fresh
  <2> QED
    BY <1>1, <2>1 DEF OpenFeed, Asked
<1>2. CASE FeedOpened \/ Read \/ View
  <2>1. ~Asked'
    BY <1>2 DEF FeedOpened, Read, View, AsksFor, Stay, Asked, Viewing
  <2> QED
    BY <1>2, <2>1 DEF FeedOpened, Read, View
<1>3. CASE CloseFeed /\ CloseDecoder
  <2>1. ~Asked' /\ codec' = << >>
    BY <1>3 DEF CloseFeed, CloseDecoder, Stay, Asked
  <2> QED
    BY <1>3, <2>1 DEF CloseFeed, Viewing
<1>4. CASE UNCHANGED vars
  BY <1>4 DEF vars, sourceVars, Asked
<1> QED
  BY <1>1, <1>2, <1>3, <1>4

LEMMA SourceUnanswered ==
  ASSUME Unanswered, Answers, UNCHANGED <<elements, client, made>>
  PROVE  Unanswered'
<1>1. Asked
  BY DEF Answers, Asked
<1> QED
  BY <1>1 DEF Unanswered, StallIsNoticed, elements, decoderVars, output, counts

\* What a step that counts nothing keeps.
LEMMA NothingCounted ==
  ASSUME Unanswered, UNCHANGED <<counts, framesProcessed, shape>>, ~Asked',
         errorOccurred => errorOccurred', packetsProcessed = 0 => codec' = << >>
  PROVE  Unanswered'
BY DEF Unanswered, StallIsNoticed, counts

LEMMA AskedUnanswered ==
  ASSUME ViewType, Unanswered, AskSource, ~draining', errorOccurred' = errorOccurred,
         UNCHANGED <<framesProcessed, shape>>, packetsProcessed = 0 => codec' = << >>
  PROVE  Unanswered'
<1>1. noFrameCount \in Nat /\ unanswered \in Nat
  BY DEF ViewType
<1>2. /\ noFrameCount' = noFrameCount + (IF prevSubmitted THEN 1 ELSE 0)
      /\ UNCHANGED <<packetsProcessed, prevSubmitted, sinceKeyframe, keyInterval, unanswered>>
  BY DEF AskSource
<1> QED
  BY <1>1, <1>2 DEF Unanswered, StallIsNoticed

LEMMA SubmittedUnanswered ==
  ASSUME ViewType, Unanswered, SubmitPacket PROVE Unanswered'
<1>1. /\ {framesProcessed, packetsProcessed, noFrameCount, sinceKeyframe, keyInterval, unanswered} \subseteq Nat
      /\ MaxPacketsWithNoFrames \in Nat
  BY VideoDecoderAssumption DEF ViewType
<1>2. Asked /\ pc = "decode" /\ got \in Packet
  BY DEF SubmitPacket, Gets, IsPacket, Asked, ViewType
<1>3. ~draining /\ noFrameCount >= unanswered
  BY <1>2 DEF Unanswered
<1>4. /\ prevSubmitted' = TRUE /\ packetsProcessed' = packetsProcessed + 1 /\ unanswered' = unanswered + 1
      /\ draining' = draining /\ UNCHANGED <<noFrameCount, framesProcessed, shape>>
      /\ sinceKeyframe' = IF got.key THEN 0 ELSE sinceKeyframe + 1
      /\ keyInterval' = IF got.key THEN sinceKeyframe ELSE keyInterval
  BY DEF SubmitPacket, Counted, output
<1>5. ~Asked'
  BY <1>2 DEF SubmitPacket, DecoderEnds, Answer, Stay, Asked
<1>6. StallIsNoticed'
  <2>1. CASE Stalled(got, keyInterval')
    <3>1. DecoderEnds
      BY <2>1 DEF SubmitPacket
    <3>2. errorOccurred'
      BY <1>3, <1>4, <3>1 DEF DecoderEnds
    <3> QED
      BY <3>2 DEF StallIsNoticed
  <2>2. CASE ~Stalled(got, keyInterval')
    <3> DEFINE limit == Greater(MaxPacketsWithNoFrames, 2 * keyInterval)
    <3>1. errorOccurred' = errorOccurred
      BY <2>2 DEF SubmitPacket
    <3>2. CASE got.key
      <4>1. framesProcessed > 0 => noFrameCount <= limit'
        BY <1>1, <1>4, <2>2, <3>2 DEF Stalled, Greater
      <4> QED
        BY <1>1, <1>3, <1>4, <3>2, <4>1 DEF StallIsNoticed, Greater
    <3>3. CASE ~got.key
      <4>1. StallIsNoticed /\ keyInterval' = keyInterval /\ sinceKeyframe' = sinceKeyframe + 1
        BY <1>4, <3>3 DEF Unanswered
      <4> QED
        BY <1>1, <1>4, <3>1, <4>1 DEF StallIsNoticed, Greater
    <3> QED
      BY <3>2, <3>3
  <2> QED
    BY <2>1, <2>2
<1> QED
  BY <1>1, <1>3, <1>4, <1>5, <1>6 DEF Unanswered

LEMMA DecoderUnanswered ==
  ASSUME Viewing, ViewType, Place, Unanswered, DecoderNext, UNCHANGED <<client, made>>
  PROVE  Unanswered'
<1>0. errorOccurred /\ DecoderEnds => errorOccurred'
  BY DEF DecoderEnds
<1>1. CASE DecoderOpens \/ DecoderSourceFails \/ DecoderRefuses \/ ServeHeldFrame
  <2>1. ~Asked'
    BY <1>1 DEF DecoderOpens, DecoderSourceFails, DecoderRefuses, ServeHeldFrame, CloseDecoder,
       Answer, Asked
  <2>2. codec' \in {codec, << >>} /\ UNCHANGED <<counts, framesProcessed, shape, errorOccurred>>
    BY <1>1 DEF DecoderOpens, DecoderSourceFails, DecoderRefuses, ServeHeldFrame, CloseDecoder,
       output, decoderVars
  <2> QED
    BY <2>1, <2>2, NothingCounted DEF Unanswered
<1>2. CASE ReceiveFrame
  <2>1. codec # << >> /\ packetsProcessed' = packetsProcessed /\ prevSubmitted' = prevSubmitted
    BY <1>2 DEF ReceiveFrame, Ready
  <2>2. framesProcessed' = framesProcessed + 1 /\ framesProcessed \in Nat /\ packetsProcessed # 0
    BY <1>2, <2>1 DEF ReceiveFrame, ViewType, Unanswered
  <2>3. ~Asked'
    BY <1>2 DEF ReceiveFrame, DecoderGives, DecoderEnds, Answer, Stay, Receives, Runs, Asked
  <2>4. CASE noFrameCount' = 0 /\ unanswered' = 0
    <3>1. Greater(MaxPacketsWithNoFrames, 2 * keyInterval') + sinceKeyframe' + 1 >= 0
      <4>1. keyInterval' \in Nat /\ sinceKeyframe' \in Nat /\ MaxPacketsWithNoFrames \in Nat
        <5>1. UNCHANGED <<keyInterval, sinceKeyframe>>
          BY <1>2 DEF ReceiveFrame
        <5> QED
          BY <5>1, VideoDecoderAssumption DEF ViewType
      <4>2. \A a, b \in Nat : Greater(a, 2 * b) \in Nat
        BY DEF Greater
      <4> QED
        BY <4>1, <4>2
    <3> QED
      BY <2>1, <2>2, <2>3, <2>4, <3>1 DEF Unanswered, StallIsNoticed
  <2>5. CASE shape # None /\ UNCHANGED <<noFrameCount, unanswered>> /\ DecoderEnds
    <3>1. framesProcessed > 0 /\ UNCHANGED <<sinceKeyframe, keyInterval>>
      BY <1>2, <2>5 DEF ReceiveFrame, Unanswered
    <3> QED
      BY <1>0, <2>1, <2>2, <2>3, <2>5, <3>1 DEF Unanswered, StallIsNoticed, DecoderEnds
  <2> QED
    BY <1>2, <2>4, <2>5 DEF ReceiveFrame
<1>3. CASE SkipStaleFrame \/ ReceiveNothing \/ ReadThrough
  <2>1. packetsProcessed = 0 => codec' = << >>
    <3>1. SkipStaleFrame => codec # << >>
      BY DEF SkipStaleFrame, Ready
    <3> QED
      BY <1>3, <3>1 DEF ReceiveNothing, ReadThrough, CodecHolds, Unanswered
  <2>2. UNCHANGED <<draining, framesProcessed, shape>>
    BY <1>3 DEF SkipStaleFrame, ReceiveNothing, ReadThrough, output
  <2>3. \/ DecoderEnds /\ UNCHANGED counts
        \/ Stay /\ UNCHANGED <<counts, errorOccurred>>
        \/ ~draining /\ AskSource /\ UNCHANGED errorOccurred
    BY <1>3 DEF SkipStaleFrame, ReceiveNothing, ReadThrough
  <2>4. pc = "decode"
    BY <1>3 DEF SkipStaleFrame, ReceiveNothing, ReadThrough, Receives, Runs
  <2>5. CASE DecoderEnds /\ UNCHANGED counts
    BY <1>0, <2>1, <2>2, <2>5, NothingCounted DEF DecoderEnds, Answer, Asked
  <2>6. CASE Stay /\ UNCHANGED <<counts, errorOccurred>>
    BY <2>1, <2>2, <2>4, <2>6, NothingCounted DEF Stay, Asked
  <2>7. CASE ~draining /\ AskSource /\ UNCHANGED errorOccurred
    BY <2>1, <2>2, <2>7, AskedUnanswered
  <2> QED
    BY <2>3, <2>5, <2>6, <2>7
<1>4. CASE PassPacket
  <2>1. Asked
    BY <1>4, CameraSourceAssumption DEF PassPacket, Gets, IsPacket, Asked
  <2>2. ~Asked'
    BY <1>4 DEF PassPacket, Gets, DecoderGives, Answer, Stay, Asked
  <2>3. /\ prevSubmitted' = FALSE
        /\ UNCHANGED <<codec, packetsProcessed, noFrameCount, sinceKeyframe, keyInterval, unanswered, framesProcessed, shape,
                       errorOccurred>>
    BY <1>4 DEF PassPacket, output
  <2> QED
    BY <2>1, <2>2, <2>3 DEF Unanswered, StallIsNoticed, ViewType
<1>5. CASE SubmitPacket
  BY <1>5, SubmittedUnanswered
<1>6. CASE ChangeDevice
  <2>1. Asked /\ pc' = pc /\ got' = got /\ packetsProcessed = 0
    BY <1>6 DEF ChangeDevice, Gets, IsPacket, Asked, SubmitAgain
  <2>2. /\ UNCHANGED <<codec, draining, packetsProcessed, noFrameCount, unanswered, framesProcessed, shape>>
        /\ prevSubmitted' = TRUE
    BY <1>6 DEF ChangeDevice, output, Counted
  <2>3. framesProcessed = 0 /\ ~draining /\ noFrameCount >= unanswered /\ noFrameCount \in Nat /\ unanswered \in Nat
    BY <2>1 DEF Unanswered, ViewType
  <2> QED
    BY <2>1, <2>2, <2>3 DEF Unanswered, StallIsNoticed
<1>7. CASE SubmitFails
  <2>1. Asked
    BY <1>7 DEF SubmitFails, Gets, IsPacket, Asked
  <2>2. ~draining /\ draining' = draining /\ errorOccurred' /\ ~Asked'
    BY <1>7, <2>1 DEF SubmitFails, DecoderEnds, Answer, Asked, Unanswered
  <2>3. /\ UNCHANGED <<packetsProcessed, noFrameCount, unanswered, framesProcessed, shape>>
        /\ prevSubmitted' = TRUE /\ codec' \in {codec, << >>}
    BY <1>7 DEF SubmitFails, output, Counted, CodecHolds
  <2>4. noFrameCount >= unanswered /\ noFrameCount \in Nat /\ unanswered \in Nat
    BY <2>1 DEF Unanswered, ViewType
  <2> QED
    BY <2>2, <2>3, <2>4 DEF Unanswered, StallIsNoticed
<1>8. CASE SourceReadFails
  <2>1. UNCHANGED <<counts, framesProcessed, shape>> /\ codec' \in {codec, << >>} /\ (errorOccurred => errorOccurred')
    BY <1>0, <1>8 DEF SourceReadFails, output, CodecHolds
  <2>2. ~Asked'
    BY <1>8 DEF SourceReadFails, GetsNone, DecoderEnds, Answer, Stay, Asked
  <2> QED
    BY <2>1, <2>2, NothingCounted DEF Unanswered
<1> QED
  BY <1>1, <1>2, <1>3, <1>4, <1>5, <1>6, <1>7, <1>8 DEF DecoderNext

LEMMA InitView == Init => ViewInv /\ RecordInv
<1> SUFFICES ASSUME Init PROVE ViewInv /\ RecordInv
  OBVIOUS
<1>1. << >> \in Seq(Packet)
  OBVIOUS
<1>2. ViewType
  <2>1. /\ client = "new" /\ pc = "client" /\ got = Nothing /\ codec = << >> /\ heldFrame = None /\ shown = << >>
        /\ lastOutput = 0 /\ prevSubmitted = TRUE
    BY DEF Init, SourceInit, DecoderInit
  <2>2. /\ framesProcessed = 0 /\ framesSkipped = 0 /\ packetsProcessed = 0 /\ noFrameCount = 0
        /\ sinceKeyframe = 0 /\ keyInterval = 0 /\ unanswered = 0
    BY DEF Init, DecoderInit
  <2>3. ArePictures(codec)
    BY <1>1, <2>1 DEF ArePictures
  <2> QED
    <3>1. {framesProcessed, framesSkipped, packetsProcessed, noFrameCount, sinceKeyframe, keyInterval, unanswered} \subseteq Nat
      BY <2>2
    <3>2. heldFrame \in Packet \cup {None} /\ (Known(heldFrame) => IsPicture(heldFrame))
      BY <2>1 DEF Known
    <3>3. prevSubmitted \in BOOLEAN /\ shown \in Seq(Packet)
      BY <1>1, <2>1, Zenon
    <3> QED
      BY <2>1, <2>3, <3>1, <3>2, <3>3 DEF ViewType
<1>3. Place
  BY CameraSourceAssumption DEF Init, SourceInit, DecoderInit, Place
<1>4. Beginning
  BY DEF Init, SourceInit, DecoderInit, Beginning, Fresh, NoFrameYet
<1>5. Unanswered
  BY DEF Init, SourceInit, DecoderInit, Unanswered, StallIsNoticed, Asked
<1> QED
  BY <1>2, <1>3, <1>4, <1>5 DEF ViewInv, RecordInv, Init, SourceInit, DecoderInit

LEMMA ViewInvStep == SourceType /\ ViewInv /\ [Next]_vars => ViewInv'
<1> SUFFICES ASSUME SourceType, ViewInv, [Next]_vars, Viewing' PROVE (ViewType /\ Place /\ Beginning /\ Unanswered)'
  BY DEF ViewInv
<1>0. Viewing
  BY SourceOrKept, SourceAnswers DEF SourceKept, Answers, Viewing
<1>1. ViewType /\ Place /\ Beginning /\ Unanswered
  BY <1>0 DEF ViewInv
<1>2. ViewStep
  BY <1>0, <1>1, ViewSteps
<1>3. CASE OpenFeed \/ FeedOpened \/ Read \/ View \/ (CloseFeed /\ CloseDecoder) \/ UNCHANGED vars
  BY <1>0, <1>1, <1>3, ClientViewType, ClientPlace, ClientBeginning, ClientUnanswered
<1>4. CASE Answers /\ UNCHANGED <<elements, client, made>>
  BY <1>0, <1>1, <1>4, SourceViewType, SourcePlace, SourceBeginning, SourceUnanswered
<1>5. CASE DecoderNext /\ UNCHANGED <<client, made>>
  BY <1>0, <1>1, <1>5, DecoderViewType, DecoderPlace, DecoderBeginning, DecoderUnanswered
<1> QED
  BY <1>2, <1>3, <1>4, <1>5 DEF ViewStep

\* A decoder that takes packets and gives no pictures has failed by the key frame after the limit
\* (_ffdec_submit_packet of stream_ffmpeg_decoder.cpp), whatever comes between the packets.
THEOREM StallIsNoticedHolds == Spec => []StallIsNoticed
<1> DEFINE Inv == SourceType /\ ViewInv /\ RecordInv
<1>1. Init => Inv
  BY InitSourceType, InitView
<1>2. Inv /\ [Next]_vars => Inv'
  BY SourceOrKept, SourceStepType, KeptSourceType, ViewInvStep, RecordStep
<1>3. Inv => StallIsNoticed
  BY DEF ViewInv, RecordInv, Unanswered, StallIsNoticed
<1> QED
  BY <1>1, <1>2, <1>3, PTL DEF Spec

(***************************************************************************)
(* PicturesAreKept                                                         *)
(***************************************************************************)
LEMMA PictureSequences ==
  ASSUME NEW f \in Seq(Packet), NEW c \in Seq(Packet)
  PROVE  /\ \A x \in Packet : (f \o c) \o <<x>> = Append((f \o c) \o << >>, x)
         /\ \A x \in Packet : (f \o Append(c, x)) \o << >> = (f \o c) \o <<x>>
         /\ c # << >> => (Append(f, Head(c)) \o Tail(c)) \o << >> = (f \o c) \o << >>
         /\ Len((f \o c) \o << >>) = Len(f) + Len(c)
<1>1. ASSUME NEW x \in Packet PROVE (f \o c) \o <<x>> = Append((f \o c) \o << >>, x)
  <2>1. f \o c \in Seq(Packet)
    OBVIOUS
  <2> HIDE DEF Packet
  <2>2. (f \o c) \o << >> = f \o c
    BY <2>1, ConcatEmptySeq
  <2> QED
    BY <2>1, <2>2, AppendIsConcat
<1>2. ASSUME NEW x \in Packet PROVE (f \o Append(c, x)) \o << >> = (f \o c) \o <<x>>
  <2>1. <<x>> \in Seq(Packet) /\ Append(c, x) \in Seq(Packet) /\ f \o Append(c, x) \in Seq(Packet)
    OBVIOUS
  <2>2. Append(c, x) = c \o <<x>>
    BY AppendIsConcat
  <2>3. f \o (c \o <<x>>) = (f \o c) \o <<x>>
    BY <2>1, ConcatAssociative
  <2>4. (f \o Append(c, x)) \o << >> = f \o Append(c, x)
    BY <2>1, ConcatEmptySeq
  <2> QED
    BY <2>2, <2>3, <2>4
<1>3. ASSUME c # << >> PROVE (Append(f, Head(c)) \o Tail(c)) \o << >> = (f \o c) \o << >>
  <2>1. Head(c) \in Packet /\ Tail(c) \in Seq(Packet)
    BY <1>3, HeadTailProperties
  <2>2. c = <<Head(c)>> \o Tail(c)
    <3> DEFINE t == <<Head(c)>> \o Tail(c)
    <3>1. t \in Seq(Packet) /\ Len(t) = Len(c) /\ Len(c) \in Nat
      BY <1>3, <2>1
    <3>2. \A i \in 1..Len(c) : c[i] = t[i]
      BY <1>3, <2>1
    <3> HIDE DEF t
    <3>3. c = t
      BY <3>1, <3>2, SeqEqual
    <3> QED
      BY <3>3 DEF t
  <2>3. Append(f, Head(c)) = f \o <<Head(c)>>
    BY <2>1, AppendIsConcat
  <2>4. <<Head(c)>> \in Seq(Packet)
    BY <2>1
  <2>5. f \o (<<Head(c)>> \o Tail(c)) = (f \o <<Head(c)>>) \o Tail(c)
    BY <2>1, <2>4, ConcatAssociative
  <2> QED
    BY <2>2, <2>3, <2>5
<1>4. Len((f \o c) \o << >>) = Len(f) + Len(c)
  OBVIOUS
<1> QED
  BY <1>1, <1>2, <1>3, <1>4

CodecShape ==
  /\ FromCodec \in Seq(Packet) /\ InHand("decode") \in Seq(Packet)
  /\ pc # "client" \/ ~IsPacket(got) \/ ~IsPicture(got) =>
       FromCodec = IF Known(heldFrame) THEN Append(shown, heldFrame) ELSE shown
  /\ pc = "client" /\ IsPacket(got) /\ IsPicture(got) =>
       FromCodec = IF Known(heldFrame) THEN Append(Append(shown, got), heldFrame) ELSE Append(shown, got)

LEMMA FromCodecIs == ViewType => CodecShape
<1> SUFFICES ASSUME ViewType PROVE CodecShape
  OBVIOUS
<1> DEFINE hand == InHand("client")
           held == IF Known(heldFrame) THEN <<heldFrame>> ELSE << >>
<1>1. shown \in Seq(Packet) /\ hand \in Seq(Packet) /\ held \in Seq(Packet) /\ InHand("decode") \in Seq(Packet)
  BY DEF ViewType, InHand, IsPacket, Known
<1>2. shown \o hand \in Seq(Packet)
  BY <1>1, ConcatProperties
<1>3. FromCodec = IF Known(heldFrame) THEN Append(shown \o hand, heldFrame) ELSE shown \o hand
  <2>1. CASE Known(heldFrame)
    <3>1. heldFrame \in Packet /\ held = <<heldFrame>>
      BY <2>1 DEF ViewType, Known
    <3> QED
      BY <1>2, <2>1, <3>1, AppendIsConcat DEF FromCodec
  <2>2. CASE ~Known(heldFrame)
    <3>1. held = << >>
      BY <2>2
    <3> QED
      BY <1>2, <2>2, <3>1, ConcatEmptySeq DEF FromCodec
  <2> QED
    BY <2>1, <2>2
<1>4. FromCodec \in Seq(Packet)
  BY <1>1, <1>2, ConcatProperties DEF FromCodec
<1>5. CASE pc # "client" \/ ~IsPacket(got) \/ ~IsPicture(got)
  <2>1. shown \o hand = shown
    BY <1>1, <1>5, ConcatEmptySeq DEF InHand
  <2> QED
    BY <1>1, <1>3, <1>4, <1>5, <2>1 DEF CodecShape
<1>6. CASE pc = "client" /\ IsPacket(got) /\ IsPicture(got)
  <2>1. shown \o hand = Append(shown, got)
    BY <1>1, <1>6, AppendIsConcat DEF InHand, ViewType, IsPacket
  <2> QED
    BY <1>1, <1>3, <1>4, <1>6, <2>1 DEF CodecShape
<1> QED
  BY <1>5, <1>6

LEMMA FromCodecWillBe == ViewType' => CodecShape'
BY FromCodecIs, PTL

LEMMA SameKnown ==
  ASSUME PicturesKnown, FromCodec' = FromCodec, InHand("decode")' = InHand("decode"),
         UNCHANGED <<codec, pictures, framesSkipped, framesProcessed, lastOutput>>
  PROVE  PicturesKnown'
BY DEF PicturesKnown, Accounts, InOrder, KnownPictures

LEMMA ClientPictures ==
  ASSUME Viewing, ViewType, ViewType', Place, Lives => PicturesKnown, Lives',
         OpenFeed \/ FeedOpened \/ Read \/ View \/ (CloseFeed /\ CloseDecoder) \/ UNCHANGED vars
  PROVE  PicturesKnown'
<1> USE DEF elements, decoderVars, output, source, gave
<1>0. ~IsPacket(Nothing) /\ ~IsPacket(Later) /\ ~IsPacket(Error)
  BY DEF IsPacket
<1>1. CASE OpenFeed
  BY <1>1 DEF OpenFeed, Place, Lives
<1>2. CASE FeedOpened \/ Read
  <2>1. Lives /\ ~IsPacket(got) /\ ~IsPacket(got') /\ heldFrame' = heldFrame /\ shown' = shown
    BY <1>0, <1>2, CameraSourceAssumption DEF FeedOpened, Read, Lives, Place, Runs, AsksFor, made
  <2>2. FromCodec' = FromCodec /\ InHand("decode")' = InHand("decode")
    BY <2>1, FromCodecIs, FromCodecWillBe DEF CodecShape, InHand
  <2>3. UNCHANGED <<codec, pictures, framesSkipped, framesProcessed, lastOutput>>
    BY <1>2 DEF FeedOpened, Read
  <2> QED
    BY <2>1, <2>2, <2>3, SameKnown
<1>3. CASE View
  <2>1. IsPacket(got) /\ pc = "client" /\ client = "reading" /\ decoder = "open" /\ Lives
    BY <1>0, <1>3, CameraSourceAssumption DEF View, Lives, Place
  <2>2. IsVideo(got) => IsPicture(got)
    BY <2>1 DEF Place
  <2>3. /\ pc' = "client" /\ got' = Nothing /\ shown' = (IF IsVideo(got) THEN Append(shown, got) ELSE shown)
        /\ heldFrame' = heldFrame
    BY <1>3, <2>1 DEF View, Stay
  <2>4. FromCodec' = FromCodec
    <3>1. CASE IsPicture(got)
      BY <1>0, <2>1, <2>3, <3>1, FromCodecIs, FromCodecWillBe DEF CodecShape, IsPicture
    <3>2. CASE ~IsPicture(got)
      BY <1>0, <2>1, <2>2, <2>3, <3>2, FromCodecIs, FromCodecWillBe DEF CodecShape
    <3> QED
      BY <3>1, <3>2
  <2>5. InHand("decode")' = InHand("decode")
    BY <2>1, <2>3 DEF InHand
  <2>6. UNCHANGED <<codec, pictures, framesSkipped, framesProcessed, lastOutput>>
    BY <1>3 DEF View
  <2> QED
    BY <2>1, <2>4, <2>5, <2>6, SameKnown
<1>4. CASE CloseFeed /\ CloseDecoder
  BY <1>4 DEF CloseFeed, Lives
<1>5. CASE UNCHANGED vars
  <2>1. UNCHANGED <<pc, got, decoder, codec, heldFrame, shown, pictures, framesSkipped, framesProcessed, lastOutput, client,
                    errorOccurred>>
    BY <1>5 DEF vars, sourceVars, made
  <2>2. Lives /\ FromCodec' = FromCodec /\ InHand("decode")' = InHand("decode")
    BY <2>1 DEF Lives, FromCodec, InHand
  <2> QED
    BY <2>1, <2>2, SameKnown
<1> QED
  BY <1>1, <1>2, <1>3, <1>4, <1>5

LEMMA SourcePictures ==
  ASSUME SourceType, Viewing, ViewType, ViewType', Place, Lives => PicturesKnown, Lives',
         Answers, UNCHANGED <<elements, client, made>>
  PROVE  PicturesKnown'
<1>1. pc = "source" /\ pc' # "client" /\ isOpen /\ Lives
  <2>1. pc = "source" /\ pc' # "client"
    BY ReturnToDecoder DEF Answers
  <2>2. UNCHANGED <<decoder, errorOccurred, client>>
    BY DEF elements, decoderVars
  <2>3. Lives
    BY <2>1, <2>2 DEF Lives
  <2> QED
    BY <2>1, <2>3 DEF Lives, Place
<1>2. UNCHANGED <<codec, heldFrame, shown, framesSkipped, framesProcessed, lastOutput>>
  BY DEF elements, decoderVars, output, made
<1>3. FromCodec' = FromCodec /\ FromCodec \in Seq(Packet) /\ codec \in Seq(Packet)
  <2>1. codec \in Seq(Packet)
    BY DEF ViewType, ArePictures
  <2>2. CodecShape /\ CodecShape'
    BY FromCodecIs, FromCodecWillBe
  <2> QED
    <3>1. FromCodec = IF Known(heldFrame) THEN Append(shown, heldFrame) ELSE shown
      BY <1>1, <2>2 DEF CodecShape
    <3>2. FromCodec' = IF Known(heldFrame') THEN Append(shown', heldFrame') ELSE shown'
      BY <1>1, <2>2 DEF CodecShape
    <3>3. FromCodec \in Seq(Packet)
      BY <2>2 DEF CodecShape
    <3> QED
      BY <1>2, <2>1, <3>1, <3>2, <3>3
<1>4. InHand("decode") = << >>
  BY <1>1 DEF InHand
<1>5. CASE UNCHANGED pictures /\ (IsPacket(got') => ~IsPicture(got'))
  <2>1. InHand("decode")' = << >>
    BY <1>5 DEF InHand
  <2> QED
    BY <1>1, <1>2, <1>3, <1>4, <1>5, <2>1, SameKnown
<1>6. ASSUME NEW x \in Packet, IsPicture(x), pictures' = Append(pictures, x), pc' = "decode", got' = x
      PROVE  PicturesKnown'
  <2>1. IsPacket(x)
    BY PacketsAreToldApart
  <2>2. InHand("decode")' = <<x>>
    BY <1>6, <2>1 DEF InHand
  <2>3. KnownPictures' = (FromCodec \o codec) \o <<x>> /\ KnownPictures = (FromCodec \o codec) \o << >>
    BY <1>2, <1>3, <1>4, <2>2 DEF KnownPictures
  <2>4. KnownPictures' = Append(KnownPictures, x)
    BY <1>3, <2>3, PictureSequences
  <2>5. KnownPictures \in Seq(Packet) /\ pictures \in Seq(Packet)
    <3>1. FromCodec \o codec \in Seq(Packet) /\ << >> \in Seq(Packet)
      BY <1>3, ConcatProperties
    <3> QED
      BY <2>3, <3>1, ConcatProperties DEF SourceType
  <2>6. Accounts'
    <3>1. /\ Len(KnownPictures') = Len(KnownPictures) + 1 /\ Len(pictures') = Len(pictures) + 1
          /\ Len(KnownPictures) \in Nat /\ Len(pictures) \in Nat
      BY <1>6, <2>4, <2>5, AppendProperties
    <3>2. framesSkipped \in Nat /\ framesSkipped' = framesSkipped /\ Accounts
      BY <1>1, <1>2 DEF PicturesKnown, ViewType
    <3>3. Len(KnownPictures') + framesSkipped' = Len(pictures')
      BY <3>1, <3>2 DEF Accounts
    <3>4. framesSkipped' = 0 => KnownPictures' = pictures'
      BY <1>6, <2>4, <3>2 DEF Accounts
    <3> QED
      BY <3>3, <3>4 DEF Accounts
  <2>7. InOrder'
    BY <1>1, <1>2, <1>3 DEF PicturesKnown, InOrder
  <2> QED
    BY <2>6, <2>7 DEF PicturesKnown
<1>7. CASE pc' = pc /\ got' = Nothing /\ UNCHANGED <<given, pictures>>
  BY <1>5, <1>7 DEF IsPacket
<1>8. ASSUME NEW x \in Packet \cup {Error}, Return(x) PROVE PicturesKnown'
  <2>1. pc' = "decode" /\ got' = x
    BY <1>1, <1>8, ReturnToDecoder
  <2>2. CASE IsPacket(x) /\ IsPicture(x)
    <3>1. x \in Packet /\ pictures' = Append(pictures, x)
      BY <1>8, <2>2 DEF Return, IsPacket
    <3> QED
      BY <1>6, <2>1, <2>2, <3>1
  <2>3. CASE ~(IsPacket(x) /\ IsPicture(x))
    <3>1. pictures' = pictures
      BY <1>8, <2>3 DEF Return
    <3> QED
      BY <1>5, <2>1, <2>3, <3>1
  <2> QED
    BY <2>2, <2>3
<1> QED
  BY <1>1, <1>7, <1>8 DEF Answers

\* The picture that has come from the codec is not before those that came earlier.
LEMMA InOrderExtends ==
  ASSUME InOrder, FromCodec \in Seq(Packet), NEW h \in Packet, FromCodec' = Append(FromCodec, h),
         lastOutput' = h.pts, framesProcessed' # 0, lastOutput \in Int,
         framesProcessed # 0 => lastOutput <= h.pts
  PROVE  InOrder'
<1> DEFINE n == Len(FromCodec) + 1
<1>1. \A i \in DOMAIN FromCodec : FromCodec[i].pts <= h.pts
  <2>1. CASE framesProcessed = 0
    <3>1. FromCodec = << >>
      BY <2>1 DEF InOrder
    <3> QED
      BY <3>1
  <2>2. CASE framesProcessed # 0
    <3> SUFFICES ASSUME NEW i \in DOMAIN FromCodec PROVE FromCodec[i].pts <= h.pts
      OBVIOUS
    <3>1. FromCodec[i] \in Packet
      OBVIOUS
    <3>2. FromCodec[i].pts <= lastOutput
      BY DEF InOrder
    <3>3. FromCodec[i].pts \in Int /\ h.pts \in Int
      BY <3>1 DEF Packet
    <3> QED
      BY <2>2, <3>2, <3>3
  <2> QED
    BY <2>1, <2>2
<1>2. /\ DOMAIN FromCodec' = DOMAIN FromCodec \cup {n}
      /\ \A i \in DOMAIN FromCodec : i < n /\ FromCodec'[i] = FromCodec[i]
      /\ FromCodec'[n] = h /\ n \notin DOMAIN FromCodec
  BY AppendedInOrder
<1>3. (\A i \in DOMAIN FromCodec : ~(n < i)) /\ ~(n < n) /\ h.pts <= h.pts
  BY DEF Packet
<1> HIDE DEF n
<1>4. \A i \in DOMAIN FromCodec' : FromCodec'[i].pts <= lastOutput'
  BY <1>1, <1>2, <1>3
<1>5. \A i, j \in DOMAIN FromCodec' : i < j => FromCodec'[i].pts <= FromCodec'[j].pts
  <2> SUFFICES ASSUME NEW i \in DOMAIN FromCodec', NEW j \in DOMAIN FromCodec', i < j
               PROVE  FromCodec'[i].pts <= FromCodec'[j].pts
    OBVIOUS
  <2>1. i \in DOMAIN FromCodec
    BY <1>2, <1>3
  <2>2. CASE j \in DOMAIN FromCodec
    BY <1>2, <2>1, <2>2 DEF InOrder
  <2>3. CASE j = n
    BY <1>1, <1>2, <2>1, <2>3
  <2> QED
    BY <1>2, <2>2, <2>3
<1> QED
  BY <1>4, <1>5 DEF InOrder

LEMMA ReceivePictures ==
  ASSUME ViewType, ViewType', Place, Beginning, Lives => PicturesKnown, Lives', ReceiveFrame, UNCHANGED <<client, made>>
  PROVE  PicturesKnown'
<1> DEFINE h == Head(codec)
<1>1. /\ pc = "decode" /\ ~Known(heldFrame) /\ codec # << >> /\ ~errorOccurred /\ got = Nothing
      /\ ~Stale(h) /\ h \in Packet /\ IsPicture(h) /\ codec \in Seq(Packet)
  BY PacketsHeld DEF ReceiveFrame, Receives, Runs, Ready, ViewType, ArePictures
<1>2. ~DecoderEnds
  BY DEF DecoderEnds, Answer, Lives
<1>3. DecoderGives(h) /\ errorOccurred' = errorOccurred
  BY <1>2 DEF ReceiveFrame
<1>4. decoder \in {"opening", "open"} /\ Lives /\ PicturesKnown
  <2>1. decoder \in {"opening", "open"}
    BY <1>3 DEF DecoderGives, Lives
  <2> QED
    BY <1>1, <2>1 DEF Lives
<1>5. /\ lastOutput' = h.pts /\ framesProcessed' = framesProcessed + 1 /\ codec' = Tail(codec)
      /\ UNCHANGED <<framesSkipped, pictures, shown>> /\ pc' = "client"
  <2>1. decoder' # "closed" /\ pc' = "client" /\ UNCHANGED <<source, pictures>>
    BY <1>1, <1>3 DEF DecoderGives, Lives, Answer, source, gave, IsPicture, IsVideo
  <2> QED
    BY <2>1 DEF ReceiveFrame, CodecHolds, made
<1>6. FromCodec = shown
  BY <1>1, FromCodecIs DEF CodecShape
<1>7. FromCodec' = Append(FromCodec, h)
  <2>1. CASE decoder = "opening"
    <3>1. heldFrame' = h /\ got' = Later
      BY <1>1, <1>3, <2>1 DEF DecoderGives, Answer, IsPicture, IsVideo
    <3>2. Known(heldFrame') /\ ~IsPacket(got')
      BY <1>1, <3>1, PacketsAreToldApart DEF IsPacket
    <3>3. FromCodec' = IF Known(heldFrame') THEN Append(shown', heldFrame') ELSE shown'
      BY <3>2, FromCodecWillBe DEF CodecShape
    <3> QED
      BY <1>5, <1>6, <3>1, <3>2, <3>3
  <2>2. CASE decoder = "open"
    <3>1. heldFrame' = heldFrame /\ got' = h
      BY <1>3, <2>2 DEF DecoderGives, Answer
    <3>2. ~Known(heldFrame') /\ IsPacket(got') /\ IsPicture(got')
      BY <1>1, <3>1, PacketsAreToldApart
    <3>3. FromCodec' = IF Known(heldFrame') THEN Append(Append(shown', got'), heldFrame') ELSE Append(shown', got')
      BY <1>5, <3>2, FromCodecWillBe DEF CodecShape
    <3> QED
      BY <1>5, <1>6, <3>1, <3>2, <3>3
  <2> QED
    BY <1>4, <2>1, <2>2
<1>8. FromCodec \in Seq(Packet) /\ lastOutput \in Int /\ framesProcessed \in Nat
  BY FromCodecIs DEF CodecShape, ViewType
<1>9. InOrder'
  <2>1. framesProcessed # 0 => lastOutput <= h.pts
    BY <1>1, <1>8 DEF Stale, Packet
  <2>2. framesProcessed' # 0
    BY <1>5, <1>8
  <2>3. InOrder
    BY <1>4 DEF PicturesKnown
  <2> QED
    BY <1>1, <1>5, <1>7, <1>8, <2>1, <2>2, <2>3, InOrderExtends
<1>10. KnownPictures' = KnownPictures
  <2>1. InHand("decode") = << >> /\ InHand("decode")' = << >>
    BY <1>1, <1>5 DEF InHand, IsPacket
  <2>2. KnownPictures' = (Append(FromCodec, h) \o Tail(codec)) \o << >>
    BY <1>5, <1>7, <2>1 DEF KnownPictures
  <2>3. KnownPictures = (FromCodec \o codec) \o << >>
    BY <2>1 DEF KnownPictures
  <2>4. (Append(FromCodec, Head(codec)) \o Tail(codec)) \o << >> = (FromCodec \o codec) \o << >>
    BY <1>1, <1>8, PictureSequences
  <2> QED
    BY <2>2, <2>3, <2>4
<1>11. Accounts'
  BY <1>4, <1>5, <1>10 DEF PicturesKnown, Accounts
<1> QED
  BY <1>9, <1>11 DEF PicturesKnown

LEMMA SkipPictures ==
  ASSUME ViewType, ViewType', Lives => PicturesKnown, Lives', SkipStaleFrame, UNCHANGED <<client, made>>
  PROVE  PicturesKnown'
<1>1. pc = "decode" /\ codec # << >> /\ codec \in Seq(Packet) /\ got = Nothing /\ ~errorOccurred
  BY DEF SkipStaleFrame, Receives, Runs, Ready, ViewType, ArePictures
<1>2. ~DecoderEnds
  BY DEF DecoderEnds, Answer, Lives
<1>3. /\ UNCHANGED <<source, heldFrame, decoder, errorOccurred>> /\ got' = Nothing /\ pc' \in {"decode", "source"}
      /\ framesSkipped' = framesSkipped + 1 /\ UNCHANGED <<lastOutput, framesProcessed>>
  BY <1>1, <1>2 DEF SkipStaleFrame, Stay, AskSource
<1>4. Lives /\ codec' = Tail(codec) /\ UNCHANGED <<pictures, shown>> /\ PicturesKnown
  BY <1>1, <1>3 DEF SkipStaleFrame, CodecHolds, Lives, source, gave, made
<1>5. FromCodec' = FromCodec /\ FromCodec \in Seq(Packet)
  <2>1. FromCodec = IF Known(heldFrame) THEN Append(shown, heldFrame) ELSE shown
    BY <1>1, FromCodecIs DEF CodecShape
  <2>2. FromCodec' = IF Known(heldFrame') THEN Append(shown', heldFrame') ELSE shown'
    BY <1>3, FromCodecWillBe DEF CodecShape
  <2>3. FromCodec \in Seq(Packet)
    BY FromCodecIs DEF CodecShape
  <2> QED
    BY <1>3, <1>4, <2>1, <2>2, <2>3
<1>6. KnownPictures = (FromCodec \o codec) \o << >> /\ KnownPictures' = (FromCodec \o Tail(codec)) \o << >>
  <2>1. InHand("decode") = << >> /\ InHand("decode")' = << >>
    BY <1>1, <1>3 DEF InHand, IsPacket
  <2> QED
    BY <1>4, <1>5, <2>1 DEF KnownPictures
<1>7. Tail(codec) \in Seq(Packet) /\ Len(Tail(codec)) = Len(codec) - 1
  BY <1>1, HeadTailProperties
<1>8. Len(KnownPictures) = Len(FromCodec) + Len(codec) /\ Len(KnownPictures') = Len(FromCodec) + Len(Tail(codec))
  BY <1>1, <1>5, <1>6, <1>7, PictureSequences
<1>9. Accounts'
  <2>1. /\ framesSkipped \in Nat /\ Len(FromCodec) \in Nat /\ Len(codec) \in Nat
        /\ Len(KnownPictures) + framesSkipped = Len(pictures)
    <3>1. framesSkipped \in Nat
      BY DEF ViewType
    <3>2. Len(FromCodec) \in Nat /\ Len(codec) \in Nat
      BY <1>1, <1>5
    <3> QED
      BY <1>4, <3>1, <3>2 DEF PicturesKnown, Accounts
  <2>2. Len(KnownPictures') + framesSkipped' = Len(pictures')
    BY <1>3, <1>4, <1>7, <1>8, <2>1
  <2>3. framesSkipped' # 0
    BY <1>3, <2>1
  <2> QED
    BY <2>2, <2>3 DEF Accounts
<1>10. InOrder'
  BY <1>3, <1>4, <1>5 DEF PicturesKnown, InOrder
<1> QED
  BY <1>9, <1>10 DEF PicturesKnown

LEMMA SubmitPictures ==
  ASSUME ViewType, ViewType', Lives => PicturesKnown, Lives', SubmitPacket, UNCHANGED <<client, made>>
  PROVE  PicturesKnown'
<1>1. pc = "decode" /\ got \in Packet /\ IsPacket(got) /\ IsVideo(got) /\ codec \in Seq(Packet)
  BY DEF SubmitPacket, Gets, IsPacket, Decoded, IsVideo, ViewType, ArePictures
<1>2. ~DecoderEnds
  BY DEF DecoderEnds, Answer, Lives
<1>3. /\ UNCHANGED <<source, heldFrame, decoder, errorOccurred, output>> /\ got' = Nothing /\ pc' = "decode"
      /\ codec' = IF got.good THEN Append(codec, got) ELSE codec
  BY <1>1, <1>2 DEF SubmitPacket, Stay, CodecHolds, Lives
<1>4. Lives /\ UNCHANGED <<pictures, shown>> /\ PicturesKnown
  BY <1>1, <1>3, CameraSourceAssumption DEF Lives, source, gave, made
<1>5. FromCodec' = FromCodec /\ FromCodec \in Seq(Packet)
  <2>1. FromCodec = IF Known(heldFrame) THEN Append(shown, heldFrame) ELSE shown
    BY <1>1, FromCodecIs DEF CodecShape
  <2>2. FromCodec' = IF Known(heldFrame') THEN Append(shown', heldFrame') ELSE shown'
    BY <1>3, FromCodecWillBe DEF CodecShape
  <2>3. FromCodec \in Seq(Packet)
    BY FromCodecIs DEF CodecShape
  <2> QED
    BY <1>3, <1>4, <2>1, <2>2, <2>3
<1>6. InHand("decode")' = << >> /\ InHand("decode") = IF got.good THEN <<got>> ELSE << >>
  BY <1>1, <1>3 DEF InHand, IsPacket, IsPicture
<1>7. KnownPictures' = KnownPictures
  <2>1. CASE got.good
    <3>1. KnownPictures = (FromCodec \o codec) \o <<got>> /\ KnownPictures' = (FromCodec \o Append(codec, got)) \o << >>
      BY <1>3, <1>5, <1>6, <2>1 DEF KnownPictures
    <3> QED
      BY <1>1, <1>5, <3>1, PictureSequences
  <2>2. CASE ~got.good
    BY <1>3, <1>5, <1>6, <2>2 DEF KnownPictures
  <2> QED
    BY <2>1, <2>2
<1> QED
  BY <1>3, <1>4, <1>5, <1>7 DEF PicturesKnown, Accounts, InOrder, output

LEMMA DecoderPictures ==
  ASSUME Viewing, ViewType, ViewType', Place, Beginning, Lives => PicturesKnown, Lives',
         DecoderNext, UNCHANGED <<client, made>>
  PROVE  PicturesKnown'
<1>0. ~DecoderEnds
  BY DEF DecoderEnds, Answer, Lives
<1>1. CASE DecoderOpens \/ DecoderSourceFails
  <2>1. Fresh /\ NoFrameYet
    BY <1>1 DEF DecoderOpens, DecoderSourceFails, Place, Beginning, Started
  <2>2. /\ DecoderOpens /\ decoder' = "opening" /\ pc' = "decode" /\ got' = Nothing
        /\ UNCHANGED <<source, codec, heldFrame, output>>
    BY <1>1 DEF DecoderOpens, DecoderSourceFails, CloseDecoder, Lives
  <2>3. codec' = << >> /\ heldFrame' = None /\ shown' = << >> /\ pictures' = << >> /\ framesSkipped' = 0
    BY <2>1, <2>2 DEF Fresh, NoFrameYet, made, source, gave, output
  <2>4. FromCodec' = << >> /\ InHand("decode")' = << >>
    BY <2>2, <2>3, FromCodecWillBe DEF CodecShape, InHand, IsPacket, Known
  <2>5. KnownPictures' = << >>
    BY <2>3, <2>4 DEF KnownPictures
  <2> QED
    BY <2>3, <2>4, <2>5 DEF PicturesKnown, Accounts, InOrder
<1>2. CASE DecoderRefuses \/ ReadThrough
  BY <1>2 DEF DecoderRefuses, ReadThrough, Lives, decoderVars
<1>3. CASE ServeHeldFrame
  <2>1. /\ pc = "decode" /\ got = Nothing /\ heldFrame \in Packet /\ IsPicture(heldFrame)
        /\ pc' = "client" /\ got' = heldFrame /\ heldFrame' = None
        /\ UNCHANGED <<source, decoder, codec, output, errorOccurred, shown>>
    BY <1>3 DEF ServeHeldFrame, Runs, Known, ViewType, Answer, made
  <2>2. IsPacket(heldFrame) /\ Known(heldFrame)
    BY <2>1, PacketsAreToldApart
  <2>3. Lives /\ UNCHANGED <<pictures, framesSkipped, framesProcessed, lastOutput>>
    BY <2>1 DEF Lives, source, gave, output
  <2>4. FromCodec = Append(shown, heldFrame)
    BY <2>1, <2>2, FromCodecIs DEF CodecShape
  <2>5. FromCodec' = Append(shown', got')
    BY <2>1, <2>2, FromCodecWillBe DEF CodecShape, Known
  <2>6. FromCodec' = FromCodec /\ InHand("decode")' = InHand("decode")
    BY <2>1, <2>4, <2>5 DEF InHand, IsPacket
  <2> QED
    BY <2>1, <2>3, <2>6, SameKnown
<1>4. CASE ReceiveFrame
  BY <1>4, ReceivePictures
<1>5. CASE SkipStaleFrame
  BY <1>5, SkipPictures
<1>6. CASE SubmitPacket
  BY <1>6, SubmitPictures
<1>7. CASE ReceiveNothing \/ ChangeDevice \/ SourceReadFails
  <2>1. /\ pc = "decode" /\ pc' # "client" /\ UNCHANGED <<source, decoder, heldFrame, shown, output, errorOccurred>>
    BY <1>0, <1>7 DEF ReceiveNothing, ChangeDevice, SourceReadFails, Receives, Runs, Gets,
       GetsNone, AskSource, Stay,
       SubmitAgain, made
  <2>2. codec' = codec
    BY <1>7, <2>1 DEF ReceiveNothing, ChangeDevice, SourceReadFails, CodecHolds, Lives
  <2>3. Lives /\ UNCHANGED <<pictures, framesSkipped, framesProcessed, lastOutput>>
    BY <2>1 DEF Lives, source, gave, output
  <2>4. FromCodec' = FromCodec
    <3>1. FromCodec = IF Known(heldFrame) THEN Append(shown, heldFrame) ELSE shown
      BY <2>1, FromCodecIs DEF CodecShape
    <3>2. FromCodec' = IF Known(heldFrame') THEN Append(shown', heldFrame') ELSE shown'
      BY <2>1, FromCodecWillBe DEF CodecShape
    <3> QED
      BY <2>1, <3>1, <3>2
  <2>5. InHand("decode")' = InHand("decode")
    <3>1. CASE ReceiveNothing \/ SourceReadFails
      <4>1. ~IsPacket(got) /\ ~IsPacket(got')
        BY <1>0, <3>1 DEF ReceiveNothing, SourceReadFails, Receives, Runs, GetsNone, IsPacket,
           AskSource, Stay
      <4> QED
        BY <4>1 DEF InHand
    <3>2. CASE ChangeDevice
      BY <3>2 DEF ChangeDevice, SubmitAgain, InHand
    <3> QED
      BY <1>7, <3>1, <3>2
  <2> QED
    BY <2>2, <2>3, <2>4, <2>5, SameKnown
<1>8. CASE PassPacket
  <2>1. /\ pc = "decode" /\ got \in Packet /\ DecoderGives(got) /\ UNCHANGED <<codec, output, errorOccurred, shown>>
    BY <1>8 DEF PassPacket, Gets, IsPacket, ViewType, made
  <2>2. decoder # "passthrough" /\ ~IsVideo(got)
    BY <1>8, <2>1 DEF PassPacket, Decoded, IsVideo, DecoderGives, Lives
  <2>3. /\ UNCHANGED <<source, heldFrame, decoder>>
        /\ (pc' = pc /\ got' = Nothing) \/ (pc' = "client" /\ got' = got)
    BY <2>1, <2>2 DEF DecoderGives, IsVideo, Stay, Answer
  <2>4. Lives /\ UNCHANGED <<pictures, framesSkipped, framesProcessed, lastOutput>>
    BY <2>1, <2>3 DEF Lives, source, gave, output
  <2>5. (~IsPacket(got') \/ ~IsPicture(got')) /\ ~IsPicture(got)
    BY <2>2, <2>3 DEF IsPacket, IsPicture
  <2>6. FromCodec' = FromCodec /\ InHand("decode")' = InHand("decode")
    BY <2>1, <2>3, <2>5, FromCodecIs, FromCodecWillBe DEF CodecShape, InHand
  <2> QED
    BY <2>1, <2>4, <2>6, SameKnown
<1>9. CASE SubmitFails
  BY <1>0, <1>9 DEF SubmitFails
<1> QED
  BY <1>1, <1>2, <1>3, <1>4, <1>5, <1>6, <1>7, <1>8, <1>9 DEF DecoderNext

LEMMA PictureInvStep ==
  ASSUME SourceType, ViewInv, ViewInv', PictureInv, [Next]_vars PROVE PictureInv'
<1> SUFFICES ASSUME Viewing', Lives' PROVE PicturesKnown'
  BY DEF PictureInv
<1>0. Viewing
  BY SourceOrKept, SourceAnswers DEF SourceKept, Answers, Viewing
<1>1. ViewType /\ Place /\ Beginning /\ ViewType' /\ (Lives => PicturesKnown)
  BY <1>0 DEF ViewInv, PictureInv
<1>2. ViewStep
  BY <1>0, <1>1, ViewSteps
<1>3. CASE OpenFeed \/ FeedOpened \/ Read \/ View \/ (CloseFeed /\ CloseDecoder) \/ UNCHANGED vars
  BY <1>0, <1>1, <1>3, ClientPictures
<1>4. CASE Answers /\ UNCHANGED <<elements, client, made>>
  BY <1>0, <1>1, <1>4, SourcePictures
<1>5. CASE DecoderNext /\ UNCHANGED <<client, made>>
  BY <1>0, <1>1, <1>5, DecoderPictures
<1> QED
  BY <1>2, <1>3, <1>4, <1>5 DEF ViewStep

LEMMA KnownAreKept ==
  ASSUME ViewInv, PictureInv PROVE PicturesAreKept
<1> SUFFICES ASSUME Viewing, decoder = "open", ~errorOccurred, client \in {"opening", "reading"}, got # Error
             PROVE  /\ Len(KnownPictures) + framesSkipped = Len(pictures)
                    /\ framesSkipped = 0 => KnownPictures = pictures
                    /\ \A i, j \in DOMAIN shown : i < j => shown[i].pts <= shown[j].pts
  BY DEF PicturesAreKept
<1>1. PicturesKnown /\ ViewType
  BY DEF PictureInv, Lives, ViewInv
<1>2. ASSUME NEW i \in DOMAIN shown
      PROVE  i \in DOMAIN FromCodec /\ FromCodec[i] = shown[i]
  <2> DEFINE hand == InHand("client")
             held == IF Known(heldFrame) THEN <<heldFrame>> ELSE << >>
  <2>1. shown \in Seq(Packet) /\ hand \in Seq(Packet) /\ held \in Seq(Packet)
    BY <1>1 DEF ViewType, InHand, IsPacket, Known
  <2>2. FromCodec = (shown \o hand) \o held
    BY DEF FromCodec
  <2> HIDE DEF hand, held
  <2> QED
    BY <2>1, <2>2
<1>3. ASSUME NEW i \in DOMAIN shown, NEW j \in DOMAIN shown, i < j PROVE shown[i].pts <= shown[j].pts
  BY <1>1, <1>2, <1>3 DEF PicturesKnown, InOrder
<1> QED
  BY <1>1, <1>3 DEF PicturesKnown, Accounts

\* No picture is lost or given out of order on its way through the decoder, whatever the devices do
\* and however the times go: what a viewer was shown, what is held and what the codec still has is what
\* the camera gave (stream_ffmpeg_decoder.cpp).
THEOREM PicturesAreKeptHolds == Spec => []PicturesAreKept
<1> DEFINE Inv == SourceType /\ ViewInv /\ PictureInv
<1>1. Init => Inv
  <2>1. Init => ~Lives
    BY DEF Init, DecoderInit, Lives
  <2> QED
    BY <2>1, InitSourceType, InitView DEF PictureInv
<1>2. Inv /\ [Next]_vars => Inv'
  BY SourceOrKept, SourceStepType, KeptSourceType, ViewInvStep, PictureInvStep
<1>3. Inv => PicturesAreKept
  BY KnownAreKept
<1> QED
  BY <1>1, <1>2, <1>3, PTL DEF Spec

-----------------------------------------------------------------------------
(***************************************************************************)
(* The sound of a recording: what is announced is what is written.         *)
(***************************************************************************)
\* A camera of the live555 session that had sounds of several codecs would have them all recorded
\* as the first.
OneKindOfSound(c) ==
  c.demux = "live555" /\ c.chain = "record" =>
    \A i, j \in DOMAIN c.streams :
      c.streams[i].media = "audio" /\ c.streams[j].media = "audio" => c.streams[i].codec = c.streams[j].codec

Codecs == {"h264", "mp4", "mjpeg", "picture", "aac", "pcma", "pcmu", "adpcm", "text", "linear", "noise", "unknown"}
Sound == [media : {"audio"}, pts : Int, said : Int \cup {None}, key : BOOLEAN, good : BOOLEAN, shape : Nat, codec : Codecs]
Setup == [on : BOOLEAN, mode : {"pass", "work", "failed"}, src : Codecs, dst : Codecs, held : Seq(Sound), last : Int \cup {None}]
AudioElement == {"encode", "resample", "expand"}
Audible(x) == IsPacket(x) /\ x.media = "audio"
\* of the codec the source names, if it names one
OfSource(x) == Audible(x) => x \in Sound /\ CodecOf("audio") \in {x.codec, "unknown"}
OfCodec(x, c) == Audible(x) => x.codec = c

\* While it is open, the source has its streams; the frame read at the opening is of the codec it names.
Named ==
  /\ isOpen /\ camera.demux = "ffmpeg" => chosen = ChosenStreams
  /\ camera.demux = "live555" /\ Known(firstFrame) => OfSource(firstFrame)

StageType == stage \in [AudioElement -> Setup] /\ (Audible(got) => got \in Sound)

\* Nothing is put below the encoder, which passes everything on or could not be opened.
Alone ==
  /\ stage.encode.on /\ ~stage.resample.on /\ ~stage.expand.on /\ stage.expand.mode = "pass"
  /\ stage.encode.src = CodecOf("audio") /\ stage.encode.dst = "unknown"
  /\ stage.encode.mode = "pass" \/ stage.encode.mode = "failed"
\* The encoder has a decoder below it, and between them the resampler if the rate is another.
Had(e, c) == stage[e].dst = c /\ stage[e].mode \in {"work", "failed"}
NotHad(e) == stage[e].dst = "unknown"
Chained ==
  /\ stage.encode.on /\ stage.expand.on
  /\ stage.encode.src = "linear" /\ stage.expand.src = CodecOf("audio") /\ CodecOf("audio") # "unknown"
  /\ \/ /\ Had("encode", "aac") /\ Had("expand", "linear")
        /\ stage.resample.on => stage.resample.mode = "work" /\ stage.resample.src = "linear" /\ stage.resample.dst = "linear"
     \/ /\ NotHad("encode")
        /\ stage.encode.mode = "failed" \/ (stage.encode.mode = "pass" /\ stage.expand.mode = "failed" /\ NotHad("expand"))

Unstaged == stage = [e \in AudioElement |-> NoStage]
StageInv ==
  /\ client \in {"new", "opening", "reading", "recording", "ended", "closed"}
  /\ pc \in {"client", "source", "opened", "encode", "resample", "expand", "queue"}
  /\ pc \in {"encode", "resample", "expand", "queue"} => client \in {"recording", "ended"}
  /\ pc = "source" => client \in {"opening", "reading"}
  /\ pc = "opened" => client = "opening"
  /\ client = "new" \/ (client = "opening" /\ pc # "client") => Unstaged
  /\ client = "new" => pc = "client" /\ ~isOpen
  /\ client = "opening" /\ pc = "client" => got = Error \/ (got = Later /\ (Alone \/ Chained))
  /\ client \in {"reading", "recording", "ended"} => Alone \/ Chained
  /\ pc = "resample" => stage.resample.on
  /\ pc = "expand" => stage.expand.on
  /\ pc = "source" /\ client = "opening" => ~isOpen
  /\ pc = "source" /\ client = "reading" => isOpen
  /\ client = "opening" /\ pc # "source" /\ got = Later => isOpen
  /\ client \in {"reading", "recording", "ended"} => isOpen
  /\ Named

Reads == client \in {"reading", "recording", "ended"}
FromEncoder == pc = "client" /\ client \in {"recording", "ended"}
\* What comes from the source and waits in the splitter is of the codec the source names.
SourceSound ==
  Reads =>
    /\ pc = "client" /\ client = "reading" => OfSource(got) /\ got \in Packet \cup {Nothing, Error, Later}
    /\ queue \in Seq(Packet)
    /\ \A i \in DOMAIN queue : OfSource(queue[i])
    /\ pc = "expand" \/ Alone => OfSource(got)
\* While the elements that were had work, each makes the codec the next one takes.
CoderSound ==
  Reads /\ Working /\ stage.encode.dst = "aac" =>
    /\ \A i \in DOMAIN stage.expand.held : stage.expand.held[i].codec = "linear"
    /\ \A i \in DOMAIN stage.encode.held : stage.encode.held[i].codec = "aac"
    /\ pc \in {"resample", "encode"} => OfCodec(got, "linear")
    /\ FromEncoder => OfCodec(got, "aac")
\* The encoder's times: what was recorded is not after the last it gave.
EncoderTimes ==
  Reads /\ Works("encode") =>
    /\ \A i \in DOMAIN sounds : Known(stage.encode.last) /\ sounds[i].pts <= stage.encode.last
    /\ FromEncoder /\ Audible(got) =>
          /\ Known(stage.encode.last) /\ got.pts = stage.encode.last
          /\ \A i \in DOMAIN sounds : sounds[i].pts < stage.encode.last
SoundsMade == [pts : Int, codec : Codecs, announced : Codecs, works : BOOLEAN]
SoundsInv ==
  /\ sounds \in Seq(SoundsMade)
  /\ client \in {"new", "opening"} => sounds = << >> /\ queue = << >> /\ \A e \in Coders : stage[e].held = << >>
  /\ \A i \in DOMAIN sounds : sounds[i].works => sounds[i].announced \in {sounds[i].codec, "unknown"}
  /\ stage.encode.src = "linear" =>
      /\ \A i \in DOMAIN sounds : sounds[i].announced = "aac" => stage.encode.dst = "aac"
      /\ \A i, j \in DOMAIN sounds : i < j /\ sounds[j].works /\ sounds[i].announced = "aac" => sounds[i].pts < sounds[j].pts
AllSound == StageType /\ StageInv /\ SourceSound /\ CoderSound /\ EncoderTimes /\ SoundsInv
SoundInv == ~Viewing => AllSound

OneSound == camera.demux = "live555" /\ camera.chain = "record" =>
  \A i, j \in DOMAIN camera.streams :
      camera.streams[i].media = "audio" /\ camera.streams[j].media = "audio" => camera.streams[i].codec = camera.streams[j].codec

LEMMA MaxIs ==
  ASSUME NEW S \in SUBSET Int, NEW m \in S, \A x \in S : x <= m PROVE Max(S) = m
<1>1. \A y \in S : m >= y
  OBVIOUS
<1>2. Max(S) \in S /\ \A y \in S : Max(S) >= y
  BY <1>1 DEF Max
<1>3. Max(S) >= m /\ m >= Max(S)
  BY <1>1, <1>2
<1>4. m \in Int /\ Max(S) \in Int
  BY <1>2
<1> QED
  BY <1>3, <1>4

LEMMA MinIs ==
  ASSUME NEW S \in SUBSET Int, NEW m \in S, \A x \in S : m <= x PROVE Min(S) = m
<1>1. \A y \in S : m <= y
  OBVIOUS
<1>2. Min(S) \in S /\ \A y \in S : Min(S) <= y
  BY <1>1 DEF Min
<1>3. Min(S) <= m /\ m <= Min(S)
  BY <1>1, <1>2
<1>4. m \in Int /\ Min(S) \in Int
  BY <1>2
<1> QED
  BY <1>3, <1>4

\* The elements in their order: who is called by whom.
LEMMA Neighbours ==
  ASSUME stage.encode.on
  PROVE  /\ Caller("encode") = "client" /\ Caller("resample") = "encode"
         /\ Caller("expand") = IF stage.resample.on THEN "resample" ELSE "encode"
         /\ Caller("queue") = IF stage.expand.on THEN "expand" ELSE IF stage.resample.on THEN "resample" ELSE "encode"
         /\ Below("encode") = IF stage.resample.on THEN "resample" ELSE IF stage.expand.on THEN "expand" ELSE "queue"
         /\ Below("resample") = IF stage.expand.on THEN "expand" ELSE "queue"
         /\ Below("expand") = "queue"
<1> DEFINE above(e) == {i \in 1..4 : i < Places[e] /\ On(Elements[i])}
           below(e) == {i \in 1..4 : i > Places[e] /\ On(Elements[i])}
<1>1. /\ Places["encode"] = 1 /\ Places["resample"] = 2 /\ Places["expand"] = 3 /\ Places["queue"] = 4
      /\ Elements[1] = "encode" /\ Elements[2] = "resample" /\ Elements[3] = "expand" /\ Elements[4] = "queue"
  BY DEF Places, Elements
<1>2. On(Elements[1]) /\ (On(Elements[2]) <=> stage.resample.on) /\ (On(Elements[3]) <=> stage.expand.on) /\ On(Elements[4])
  BY <1>1 DEF On
<1>3. \A e : Caller(e) = IF above(e) = {} THEN "client" ELSE Elements[Max(above(e))]
  BY DEF Caller
<1>4. \A e : Below(e) = Elements[Min(below(e))]
  BY DEF Below
<1>5. above("encode") = {} /\ above("resample") = {1}
  BY <1>1, <1>2
<1>6. above("expand") = IF stage.resample.on THEN {1, 2} ELSE {1}
  BY <1>1, <1>2
<1>7. above("queue") = ({1} \cup IF stage.resample.on THEN {2} ELSE {}) \cup IF stage.expand.on THEN {3} ELSE {}
  BY <1>1, <1>2
<1>8. below("encode") = ({4} \cup IF stage.resample.on THEN {2} ELSE {}) \cup IF stage.expand.on THEN {3} ELSE {}
  BY <1>1, <1>2
<1>9. below("resample") = {4} \cup IF stage.expand.on THEN {3} ELSE {}
  BY <1>1, <1>2
<1>10. below("expand") = {4}
  BY <1>1, <1>2
<1> HIDE DEF above, below
<1>11. Caller("encode") = "client" /\ Caller("resample") = "encode"
  BY <1>1, <1>3, <1>5, MaxIs
<1>12. Caller("expand") = IF stage.resample.on THEN "resample" ELSE "encode"
  BY <1>1, <1>3, <1>6, MaxIs
<1>13. Caller("queue") = IF stage.expand.on THEN "expand" ELSE IF stage.resample.on THEN "resample" ELSE "encode"
  BY <1>1, <1>3, <1>7, MaxIs
<1>14. Below("encode") = IF stage.resample.on THEN "resample" ELSE IF stage.expand.on THEN "expand" ELSE "queue"
  BY <1>1, <1>4, <1>8, MinIs
<1>15. Below("resample") = IF stage.expand.on THEN "expand" ELSE "queue"
  BY <1>1, <1>4, <1>9, MinIs
<1>16. Below("expand") = "queue"
  BY <1>1, <1>4, <1>10, MinIs
<1> QED
  BY <1>11, <1>12, <1>13, <1>14, <1>15, <1>16

-----------------------------------------------------------------------------
\* The audio stream the FFmpeg demux has chosen.
LEMMA ChosenAudio ==
  ASSUME SourceType
  PROVE  /\ chosen.audio = None \/ (chosen.audio \in DOMAIN camera.streams /\ camera.streams[chosen.audio].media = "audio")
         /\ \A i \in DOMAIN camera.streams : i = chosen.video => camera.streams[i].media = "video"
         /\ DOMAIN camera.streams \subseteq Nat \ {0} /\ None \notin Nat
<1> DEFINE D == DOMAIN camera.streams
           tv == InStreams("video", Timed)
           au == InStreams("audio", {"aac", "pcma", "pcmu"})
<1>1. camera.streams \in Seq(Stream) /\ Len(camera.streams) \in Nat /\ D = 1..Len(camera.streams)
  BY CameraSourceAssumption DEF SourceType, Camera
<1>2. tv \in SUBSET D /\ au \in SUBSET D /\ AnyVideo \in SUBSET D
  BY DEF InStreams, AnyVideo
<1>3. tv # {} => Min(tv) \in tv
  BY <1>1, <1>2, MinMaxIn
<1>4. AnyVideo # {} => Max(AnyVideo) \in AnyVideo
  BY <1>1, <1>2, MinMaxIn
<1>5. au # {} => Max(au) \in au
  BY <1>1, <1>2, MinMaxIn
<1>6. None \notin Nat
  BY CameraSourceAssumption
<1>7. /\ ChosenStreams.video = IF tv # {} THEN Min(tv) ELSE IF AnyVideo # {} THEN Max(AnyVideo) ELSE None
      /\ ChosenStreams.audio = IF au # {} THEN Max(au) ELSE None
  BY DEF ChosenStreams
<1>8. ChosenStreams.audio = None \/ ChosenStreams.audio \in au
  BY <1>5, <1>7
<1>9. ChosenStreams.video = None \/ ChosenStreams.video \in tv \cup AnyVideo
  BY <1>3, <1>4, <1>7
<1>10. chosen.audio \in {None, ChosenStreams.audio} /\ chosen.video \in {None, ChosenStreams.video}
  BY DEF SourceType, NoStreams
<1>11. D \subseteq Nat \ {0}
  BY <1>1
<1>12. \A i \in D : i # None
  BY <1>6, <1>11
<1>13. \A i \in tv \cup AnyVideo : camera.streams[i].media = "video"
  BY DEF InStreams, AnyVideo
<1>14. \A i \in au : i \in D /\ camera.streams[i].media = "audio"
  BY DEF InStreams
<1> HIDE DEF D, tv, au
<1>15. chosen.audio = None \/ (chosen.audio \in D /\ camera.streams[chosen.audio].media = "audio")
  BY <1>8, <1>10, <1>14
<1>16. \A i \in D : i = chosen.video => camera.streams[i].media = "video"
  BY <1>9, <1>10, <1>12, <1>13
<1> QED
  BY <1>6, <1>11, <1>15, <1>16 DEF D

\* The codec the source names: that of one of its sounds.
SoundStreams ==
  IF camera.demux = "ffmpeg" THEN {chosen.audio} \ {None}
  ELSE {i \in DOMAIN camera.streams : camera.streams[i].media = "audio"}

LEMMA CodecIs ==
  ASSUME SourceType
  PROVE  /\ SoundStreams \subseteq DOMAIN camera.streams
         /\ SoundStreams = {} => CodecOf("audio") = "unknown"
         /\ SoundStreams # {} => \E i \in SoundStreams : CodecOf("audio") \in {camera.streams[i].codec, "unknown"}
         /\ CodecOf("audio") \in Codecs \ {"linear", "noise"}
<1>1. SoundStreams \subseteq DOMAIN camera.streams
  BY ChosenAudio DEF SoundStreams
<1>2. CodecOf("audio") = IF SoundStreams = {} \/ (camera.demux = "live555" /\ camera.streams[Min(SoundStreams)].codec \notin Translated)
                           THEN "unknown" ELSE camera.streams[Min(SoundStreams)].codec
  BY DEF CodecOf, SoundStreams
<1>3. camera.streams \in Seq(Stream) /\ Len(camera.streams) \in Nat /\ DOMAIN camera.streams = 1..Len(camera.streams)
  BY CameraSourceAssumption DEF SourceType, Camera
<1>4. SoundStreams # {} => Min(SoundStreams) \in SoundStreams
  BY <1>1, <1>3, MinMaxIn
<1>5. \A i \in DOMAIN camera.streams : camera.streams[i].codec \in Codecs \ {"linear", "noise", "unknown"}
  <2> SUFFICES ASSUME NEW i \in DOMAIN camera.streams PROVE camera.streams[i].codec \in Codecs \ {"linear", "noise", "unknown"}
    OBVIOUS
  <2>1. camera.streams[i] \in Stream
    BY <1>3
  <2> QED
    BY <2>1 DEF Stream, Codecs
<1>6. "unknown" \in Codecs \ {"linear", "noise"}
  BY DEF Codecs
<1> QED
  BY <1>1, <1>2, <1>4, <1>5, <1>6

LEMMA ReceivedSound ==
  ASSUME SourceType, NEW sent \in SentBy(camera), NEW pts \in Int,
         camera.streams[sent.stream].media = "audio"
  PROVE  Received(sent, pts) \in Sound /\ Received(sent, pts).codec = camera.streams[sent.stream].codec
<1>1. camera.streams[sent.stream] \in Stream
  BY CameraSourceAssumption DEF SourceType, Camera, SentBy
<1> QED
  BY <1>1 DEF Received, Sound, SentBy, Sent, Stream, Codecs

\* What is read of an audio stream is of the codec that is named.
LEMMA ReceivedIsNamed ==
  ASSUME SourceType, OneSound, camera.chain = "record",
         NEW sent \in SentBy(camera), NEW pts \in Int,
         camera.demux = "live555" \/ sent.stream \in {chosen.video, chosen.audio}
  PROVE  OfSource(Received(sent, pts))
<1> DEFINE p == Received(sent, pts)
<1>1. p.media = camera.streams[sent.stream].media
  BY ReceivedIsPacket DEF SourceType
<1> SUFFICES ASSUME camera.streams[sent.stream].media = "audio" PROVE p \in Sound /\ CodecOf("audio") \in {p.codec, "unknown"}
  BY <1>1 DEF OfSource, Audible
<1>2. p \in Sound /\ p.codec = camera.streams[sent.stream].codec
  BY ReceivedSound
<1>3. sent.stream \in DOMAIN camera.streams
  BY DEF SentBy
<1>4. camera.demux \in {"live555", "ffmpeg"}
  BY CameraSourceAssumption DEF SourceType, Camera
<1>5. sent.stream \in SoundStreams /\ \A i \in SoundStreams : camera.streams[i].codec = camera.streams[sent.stream].codec
  <2>1. CASE camera.demux = "live555"
    BY <1>3, <2>1 DEF SoundStreams, OneSound
  <2>2. CASE camera.demux = "ffmpeg"
    <3>1. sent.stream = chosen.audio
      BY <1>3, <2>2, ChosenAudio
    <3>2. sent.stream # None
      BY <1>3, ChosenAudio
    <3> QED
      BY <2>2, <3>1, <3>2 DEF SoundStreams
  <2> QED
    BY <1>4, <2>1, <2>2
<1> HIDE DEF p
<1> QED
  BY <1>2, <1>5, CodecIs

LEMMA NamesStay ==
  ASSUME SourceType, camera' = camera, chosen' = chosen \/ camera.demux = "live555"
  PROVE  CodecOf("audio")' = CodecOf("audio")
<1>1. camera.demux \in {"live555", "ffmpeg"}
  BY CameraSourceAssumption DEF SourceType, Camera
<1> QED
  BY <1>1 DEF CodecOf

LEMMA SilentIsNothing == \A x \in {Nothing, Error, Later} : ~Audible(x)
BY DEF Audible, IsPacket

LEMMA SourceNames ==
  ASSUME SourceType, OneSound, camera.chain = "record", Named, SourceNext
  PROVE  /\ camera' = camera /\ (CodecOf("audio")' = CodecOf("audio") \/ ~isOpen)
         /\ isOpen' /\ camera.demux = "ffmpeg" => chosen' = ChosenStreams
         /\ camera.demux = "live555" /\ Known(firstFrame') => OfSource(firstFrame')
         /\ pc' = "client" => OfSource(got')
<1>0. camera' = camera
  BY SourceAnswers DEF Answers
<1>1. CASE AttemptSucceeds
  <2>1. SessionReads /\ firstFrame' = FrameRead /\ camera.demux = "live555" /\ pc' = "opened" /\ ~isOpen
    BY <1>1 DEF AttemptSucceeds, Opened, Opening
  <2>2. Head(sends) \in SentBy(camera) /\ stamp'.assigned \in Int
    BY <2>1, HeadIsSent, SessionReadsStamp DEF SessionReads
  <2>3. OfSource(FrameRead)
    BY <2>1, <2>2, ReceivedIsNamed DEF FrameRead
  <2> QED
    BY <1>0, <2>1, <2>3
<1>2. CASE AttemptFails
  <2>1. camera.demux = "live555" /\ pc' # "client" /\ ~isOpen /\ firstFrame' = firstFrame
    BY <1>2 DEF AttemptFails, Opening, Opened, Runs, Stay
  <2> QED
    BY <1>0, <2>1 DEF Named
<1>3. CASE ReadLive555
  <2>1. camera.demux = "live555"
    BY <1>3 DEF ReadLive555
  <2>2. CodecOf("audio")' = CodecOf("audio")
    BY <1>0, <2>1, NamesStay
  <2>3. CASE Known(firstFrame) /\ Return(firstFrame) /\ firstFrame' = None
    <3>1. got' = firstFrame /\ ~Known(firstFrame')
      BY <2>3 DEF Return, Known
    <3> QED
      BY <1>0, <2>1, <2>2, <2>3, <3>1 DEF Named
  <2>4. CASE SessionReads /\ Return(FrameRead) /\ UNCHANGED firstFrame
    <3>1. Head(sends) \in SentBy(camera) /\ stamp'.assigned \in Int
      BY <2>4, HeadIsSent, SessionReadsStamp DEF SessionReads
    <3>2. OfSource(FrameRead)
      BY <2>1, <3>1, ReceivedIsNamed DEF FrameRead
    <3>3. got' = FrameRead
      BY <2>4 DEF Return
    <3> QED
      BY <1>0, <2>1, <2>2, <2>4, <3>2, <3>3 DEF Named
  <2>5. CASE Return(Error) /\ UNCHANGED firstFrame
    <3>1. got' = Error
      BY <2>5 DEF Return
    <3> QED
      BY <1>0, <2>1, <2>2, <2>5, <3>1, SilentIsNothing DEF Named, OfSource
  <2> QED
    BY <1>3, <2>3, <2>4, <2>5 DEF ReadLive555
<1>4. CASE OpenFfmpeg \/ OpenFfmpegFails
  <2>1. camera.demux = "ffmpeg" /\ ~isOpen /\ pc' # "client" /\ (isOpen' => chosen' = ChosenStreams)
    BY <1>4 DEF OpenFfmpeg, OpenFfmpegFails, Opening, Opened, Runs, Stay
  <2> QED
    BY <1>0, <2>1
<1>5. CASE SkipPacket \/ ReadFfmpeg \/ ReadFfmpegEnds
  <2>1. camera.demux = "ffmpeg" /\ isOpen /\ chosen' = chosen
    BY <1>5 DEF SkipPacket, ReadFfmpeg, ReadFfmpegEnds
  <2>2. CodecOf("audio")' = CodecOf("audio") /\ chosen' = ChosenStreams
    BY <1>0, <2>1, NamesStay DEF Named
  <2>3. pc' = "client" => OfSource(got')
    <3>1. CASE SkipPacket
      BY <3>1 DEF SkipPacket, Stay, Runs
    <3>2. CASE ReadFfmpeg
      <4>1. PICK pts \in Int : Return(Received(Head(sends), pts))
        BY <3>2, ReadFfmpegReturns
      <4>2. Head(sends) \in SentBy(camera) /\ Head(sends).stream \in {chosen.video, chosen.audio}
        BY <3>2, ReadFfmpegReturns DEF ReadFfmpeg, Skipped
      <4>3. OfSource(Received(Head(sends), pts))
        BY <4>2, ReceivedIsNamed
      <4> QED
        BY <4>1, <4>3 DEF Return
    <3>3. CASE ReadFfmpegEnds
      BY <3>3, SilentIsNothing DEF ReadFfmpegEnds, Return, OfSource
    <3> QED
      BY <1>5, <3>1, <3>2, <3>3
  <2> QED
    BY <1>0, <2>1, <2>2, <2>3
<1> QED
  BY <1>1, <1>2, <1>3, <1>4, <1>5 DEF SourceNext

-----------------------------------------------------------------------------
RecordingStep ==
  \/ OpenFeed \/ FeedOpened \/ Read \/ Split \/ Record \/ RecordedAll \/ Flush \/ CloseFeed
  \/ SourceNext /\ UNCHANGED <<elements, client, made>>
  \/ TranscoderNext /\ UNCHANGED <<decoderVars, client, made>>
  \/ UNCHANGED vars

LEMMA RecordingSteps ==
  ASSUME SourceType, ~Viewing, RecordInv, [Next]_vars
  PROVE  ~Viewing' /\ camera' = camera /\ camera.chain = "record" /\ RecordingStep
<1>0. camera' = camera
  BY SourceOrKept, SourceAnswers DEF SourceKept, Answers
<1>1. ~Viewing' /\ camera.chain = "record" /\ pc # "decode"
  BY <1>0, CameraSourceAssumption DEF RecordInv, Viewing, SourceType, Camera
<1>2. ~View
  BY DEF View
<1>3. ~DecoderNext
  BY <1>1 DEF DecoderNext, DecoderOpens, DecoderSourceFails, DecoderRefuses, ServeHeldFrame,
     ReceiveFrame, SkipStaleFrame, ReceiveNothing, ReadThrough, PassPacket, SubmitPacket,
     ChangeDevice, SubmitFails, SourceReadFails, Receives, Runs, Gets, GetsNone
<1>4. Closed => UNCHANGED vars
  BY DEF Closed
<1>5. RecordingStep
  BY <1>2, <1>3, <1>4 DEF Next, ClientNext, RecordingStep
<1> QED
  BY <1>0, <1>1, <1>5

\* What the splitter and the elements share with the source in every step of theirs.
LEMMA KeptNames ==
  ASSUME SourceType, SourceKept, Named, isOpen' = isOpen, chosen' = chosen, firstFrame' = firstFrame
  PROVE  Named' /\ CodecOf("audio")' = CodecOf("audio") /\ \A x : OfSource(x)' <=> OfSource(x)
<1>1. camera' = camera
  BY DEF SourceKept
<1>2. CodecOf("audio")' = CodecOf("audio")
  BY <1>1, NamesStay
<1>3. ASSUME NEW x PROVE OfSource(x)' <=> OfSource(x)
  BY <1>2 DEF OfSource, Audible
<1>4. ChosenStreams' = ChosenStreams
  BY <1>1 DEF ChosenStreams, InStreams, AnyVideo
<1>5. OfSource(firstFrame)' <=> OfSource(firstFrame)
  BY <1>2 DEF OfSource, Audible
<1> QED
  BY <1>1, <1>2, <1>3, <1>4, <1>5 DEF Named

\* The calls that leave the elements and what they hold as they are.
LEMMA CallsKeepSound ==
  ASSUME SourceType, ~Viewing, AllSound, OpenFeed \/ FeedOpened \/ Read \/ RecordedAll \/ Flush
  PROVE  AllSound'
<1>1. /\ UNCHANGED <<camera, isOpen, chosen, firstFrame, stage, queue, sounds>>
      /\ SourceKept
  BY UnchangedKeeps DEF OpenFeed, FeedOpened, Read, RecordedAll, Flush, elements, transcoderVars, source, made
<1>2. got' = Nothing /\ ~Audible(got')
  BY SilentIsNothing DEF OpenFeed, FeedOpened, Read, RecordedAll, Flush, AsksFor, Stay
<1>3. /\ client' # "new" /\ client' \in {"opening", "reading", "recording", "ended", "closed"}
      /\ pc' \in {"client", "source", "encode"}
      /\ pc' = "encode" => client = "ended" /\ client' = "ended"
      /\ pc' = "source" => (client = "new" /\ client' = "opening") \/ (client = "reading" /\ client' = "reading")
      /\ client' = "opening" => client = "new" /\ pc' = "source"
      /\ client' \in {"reading", "recording", "ended"} => client \in {"reading", "recording", "ended"} \/ (client = "opening" /\ pc = "client" /\ got # Error)
      /\ client' \in {"opening", "reading"} => client \in {"new", "opening", "reading", "recording"}
  BY DEF OpenFeed, FeedOpened, Read, RecordedAll, Flush, AsksFor, Stay, Viewing, Runs
<1>4. Named' /\ CodecOf("audio")' = CodecOf("audio") /\ \A x : OfSource(x)' <=> OfSource(x)
  BY <1>1, KeptNames DEF AllSound, StageInv
<1>5. (Alone' <=> Alone) /\ (Chained' <=> Chained) /\ (Unstaged' <=> Unstaged) /\ (Working' <=> Working) /\ (Works("encode")' <=> Works("encode"))
  BY <1>1, <1>4 DEF Alone, Chained, Had, NotHad, Unstaged, Working, Works
<1>6. StageType'
  BY <1>1, <1>2 DEF AllSound, StageType
<1>7. client' \in {"reading", "recording", "ended"} => isOpen /\ (Alone \/ Chained)
  BY <1>3 DEF AllSound, StageInv
<1>8. StageInv'
  BY <1>1, <1>2, <1>3, <1>4, <1>5, <1>7, CameraSourceAssumption DEF AllSound, StageInv
<1>9. client' \in {"reading", "recording", "ended"} /\ client \notin {"reading", "recording", "ended"}
        => sounds = << >> /\ queue = << >> /\ \A e \in Coders : stage[e].held = << >>
  BY <1>3 DEF AllSound, SoundsInv
<1>10. SourceSound'
  <2>1. OfSource(got)' /\ got' \in Packet \cup {Nothing, Error, Later}
    BY <1>2 DEF OfSource
  <2>2. Reads' => queue' \in Seq(Packet) /\ \A i \in DOMAIN queue' : OfSource(queue'[i])
    <3>1. CASE Reads
      BY <1>1, <3>1 DEF AllSound, SourceSound
    <3>2. CASE ~Reads /\ Reads'
      <4>1. queue' = << >>
        BY <1>1, <1>9, <3>2 DEF Reads
      <4> QED
        BY <4>1
    <3> QED
      BY <3>1, <3>2
  <2>3. Reads' => \A i \in DOMAIN queue' : OfSource(queue[i])'
    BY <1>1, <1>4, <2>2 DEF OfSource, Audible
  <2> QED
    BY <2>1, <2>2, <2>3 DEF SourceSound
<1>11. CoderSound'
  BY <1>1, <1>2, <1>5, <1>9 DEF AllSound, CoderSound, Reads, OfCodec, Coders
<1>12. EncoderTimes'
  BY <1>1, <1>2, <1>5, <1>9 DEF AllSound, EncoderTimes, Reads
<1>13. SoundsInv'
  BY <1>1, <1>3 DEF AllSound, SoundsInv
<1> QED
  BY <1>6, <1>8, <1>10, <1>11, <1>12, <1>13 DEF AllSound

LEMMA SplitKeepsSound ==
  ASSUME SourceType, ~Viewing, AllSound, Split PROVE AllSound'
<1>1. /\ UNCHANGED <<camera, isOpen, chosen, firstFrame, stage, sounds>> /\ SourceKept
      /\ client = "reading" /\ pc = "client" /\ client' \in {"recording", "ended"} /\ pc' = "encode"
      /\ queue' = IF IsPacket(got) THEN Append(queue, got) ELSE queue
  BY UnchangedKeeps DEF Split, AsksFor, source, made
<1>2. got' = Nothing /\ ~Audible(got')
  BY SilentIsNothing DEF Split, AsksFor
<1>3. Named' /\ CodecOf("audio")' = CodecOf("audio") /\ \A x : OfSource(x)' <=> OfSource(x)
  BY <1>1, KeptNames DEF AllSound, StageInv
<1>4. (Alone' <=> Alone) /\ (Chained' <=> Chained) /\ (Working' <=> Working) /\ (Works("encode")' <=> Works("encode"))
  BY <1>1, <1>3 DEF Alone, Chained, Had, NotHad, Working, Works
<1>5. StageType'
  BY <1>1, <1>2 DEF AllSound, StageType
<1>6. StageInv'
  BY <1>1, <1>2, <1>3, <1>4 DEF AllSound, StageInv
<1>7. SourceSound'
  <2>1. /\ OfSource(got) /\ (IsPacket(got) => got \in Packet)
        /\ queue \in Seq(Packet) /\ \A i \in DOMAIN queue : OfSource(queue[i])
    BY <1>1 DEF AllSound, SourceSound, Reads, IsPacket
  <2>2. queue' \in Seq(Packet) /\ \A i \in DOMAIN queue' : OfSource(queue'[i])
    <3>1. CASE IsPacket(got)
      <4>1. /\ queue' \in Seq(Packet) /\ Len(queue') = Len(queue) + 1 /\ Len(queue) \in Nat
            /\ \A i \in 1..Len(queue) : queue'[i] = queue[i]
            /\ queue'[Len(queue) + 1] = got
        BY <1>1, <2>1, <3>1, AppendProperties
      <4> QED
        BY <2>1, <4>1
    <3>2. CASE ~IsPacket(got)
      BY <1>1, <2>1, <3>2
    <3> QED
      BY <3>1, <3>2
  <2>3. \A i \in DOMAIN queue' : OfSource(queue[i])'
    BY <1>3, <2>2 DEF OfSource, Audible
  <2>4. OfSource(got)' /\ pc' # "client"
    BY <1>1, <1>2 DEF OfSource
  <2> QED
    BY <2>2, <2>3, <2>4 DEF SourceSound
<1>8. CoderSound'
  BY <1>1, <1>2, <1>4 DEF AllSound, CoderSound, Reads, OfCodec
<1>9. EncoderTimes'
  BY <1>1, <1>2, <1>4 DEF AllSound, EncoderTimes, Reads
<1>10. SoundsInv'
  BY <1>1 DEF AllSound, SoundsInv
<1> QED
  BY <1>5, <1>6, <1>7, <1>8, <1>9, <1>10 DEF AllSound

\* What is announced when a sound is written.
LEMMA AnnouncedIs ==
  ASSUME StageType, Alone \/ Chained
  PROVE  /\ Alone => AnnouncedBy("encode") \in {CodecOf("audio"), "unknown"} /\ stage.encode.dst = "unknown"
         /\ Chained => AnnouncedBy("encode") = stage.encode.dst /\ stage.encode.dst \in {"aac", "unknown"}
BY DEF StageType, Alone, Chained, Had, NotHad, AnnouncedBy

LEMMA RecordKeepsSound ==
  ASSUME SourceType, ~Viewing, AllSound, Record PROVE AllSound'
<1>1. /\ UNCHANGED <<camera, isOpen, chosen, firstFrame, stage, queue, client>> /\ SourceKept
      /\ client \in {"recording", "ended"} /\ pc = "client" /\ pc' = "encode" /\ IsPacket(got)
  BY UnchangedKeeps DEF Record, AsksFor, elements, transcoderVars, source
<1>2. got' = Nothing /\ ~Audible(got')
  BY SilentIsNothing DEF Record, AsksFor
<1>3. Named' /\ CodecOf("audio")' = CodecOf("audio") /\ \A x : OfSource(x)' <=> OfSource(x)
  BY <1>1, KeptNames DEF AllSound, StageInv
<1>4. (Alone' <=> Alone) /\ (Chained' <=> Chained) /\ (Working' <=> Working) /\ (Works("encode")' <=> Works("encode"))
  BY <1>1, <1>3 DEF Alone, Chained, Had, NotHad, Working, Works
<1>5. StageType'
  BY <1>1, <1>2 DEF AllSound, StageType
<1>6. StageInv'
  BY <1>1, <1>2, <1>3, <1>4 DEF AllSound, StageInv
<1>7. SourceSound'
  <2>1. Reads' /\ queue' \in Seq(Packet) /\ \A i \in DOMAIN queue' : OfSource(queue'[i])
    BY <1>1 DEF AllSound, SourceSound, Reads
  <2>2. \A i \in DOMAIN queue' : OfSource(queue[i])'
    BY <1>3, <2>1 DEF OfSource, Audible
  <2>3. OfSource(got)' /\ pc' # "client"
    BY <1>1, <1>2 DEF OfSource
  <2> QED
    BY <2>1, <2>2, <2>3 DEF SourceSound
<1>8. CoderSound'
  BY <1>1, <1>2, <1>4 DEF AllSound, CoderSound, Reads, OfCodec
<1> DEFINE s == [pts |-> got.pts, codec |-> got.codec, announced |-> AnnouncedBy("encode"), works |-> Working]
<1>9. sounds \in Seq(SoundsMade) /\ (Alone \/ Chained) /\ ~(Alone /\ Chained)
  BY <1>1 DEF AllSound, SoundsInv, StageInv, Alone, Chained
<1>10. CASE got.media # "audio"
  <2>1. sounds' = sounds
    BY <1>10 DEF Record
  <2>2. EncoderTimes'
    BY <1>1, <1>2, <1>4, <2>1 DEF AllSound, EncoderTimes, Reads
  <2>3. SoundsInv'
    BY <1>1, <2>1 DEF AllSound, SoundsInv
  <2> QED
    BY <1>5, <1>6, <1>7, <1>8, <2>2, <2>3 DEF AllSound
<1>11. CASE got.media = "audio"
  <2>1. sounds' = Append(sounds, s)
    BY <1>11 DEF Record
  <2>2. Audible(got) /\ got \in Sound /\ FromEncoder
    BY <1>1, <1>11 DEF Audible, AllSound, StageType, FromEncoder
  <2>3. s \in SoundsMade
    <3>1. AnnouncedBy("encode") \in Codecs
      BY <1>9, AnnouncedIs, CodecIs DEF AllSound, Codecs
    <3>2. Working \in BOOLEAN
      BY DEF Working
    <3> QED
      BY <2>2, <3>1, <3>2 DEF SoundsMade, Sound
  <2> HIDE DEF s
  <2>4. /\ sounds' \in Seq(SoundsMade) /\ Len(sounds') = Len(sounds) + 1 /\ Len(sounds) \in Nat
        /\ \A i \in 1..Len(sounds) : sounds'[i] = sounds[i]
        /\ sounds'[Len(sounds) + 1] = s
    BY <1>9, <2>1, <2>3, AppendProperties
  <2>5. \A i \in DOMAIN sounds' : (i \in DOMAIN sounds /\ sounds'[i] = sounds[i]) \/ (i = Len(sounds) + 1 /\ sounds'[i] = s)
    BY <1>9, <2>4
  <2>6. s.pts = got.pts /\ s.codec = got.codec /\ s.announced = AnnouncedBy("encode") /\ s.works = Working
    BY DEF s
  <2>7. EncoderTimes'
    <3> SUFFICES ASSUME Works("encode") PROVE \A i \in DOMAIN sounds' : Known(stage.encode.last) /\ sounds'[i].pts <= stage.encode.last
      BY <1>1, <1>2, <1>4 DEF EncoderTimes
    <3>1. /\ \A i \in DOMAIN sounds : Known(stage.encode.last) /\ sounds[i].pts <= stage.encode.last
          /\ Known(stage.encode.last) /\ got.pts = stage.encode.last
      BY <1>1, <2>2 DEF AllSound, EncoderTimes, Reads
    <3>2. got.pts \in Int
      BY <2>2 DEF Sound
    <3>3. s.pts <= stage.encode.last
      BY <2>6, <3>1, <3>2
    <3> QED
      BY <2>5, <3>1, <3>3
  <2>8. s.works => s.announced \in {s.codec, "unknown"}
    <3> SUFFICES ASSUME Working PROVE AnnouncedBy("encode") \in {got.codec, "unknown"}
      BY <2>6
    <3>1. CASE Alone
      <4>1. OfSource(got)
        BY <1>1, <3>1 DEF AllSound, SourceSound, Reads
      <4> QED
        BY <2>2, <3>1, <4>1, AnnouncedIs DEF OfSource, AllSound
    <3>2. CASE Chained
      <4>1. CASE stage.encode.dst = "aac"
        <5>1. OfCodec(got, "aac")
          BY <1>1, <2>2, <4>1 DEF AllSound, CoderSound, Reads
        <5> QED
          BY <2>2, <3>2, <4>1, <5>1, AnnouncedIs DEF OfCodec, AllSound
      <4>2. CASE stage.encode.dst # "aac"
        BY <3>2, <4>2, AnnouncedIs DEF AllSound
      <4> QED
        BY <4>1, <4>2
    <3> QED
      BY <1>9, <3>1, <3>2
  <2>9. stage.encode.src = "linear" => Chained
    BY <1>9, CodecIs DEF Alone
  <2>10. stage.encode.src = "linear" /\ s.announced = "aac" => stage.encode.dst = "aac"
    BY <2>6, <2>9, AnnouncedIs DEF AllSound
  <2>11. ASSUME stage.encode.src = "linear", s.works, NEW i \in DOMAIN sounds, sounds[i].announced = "aac"
         PROVE  sounds[i].pts < s.pts
    <3>1. stage.encode.dst = "aac" /\ Chained
      BY <2>9, <2>11 DEF AllSound, SoundsInv
    <3>2. Works("encode")
      BY <2>6, <2>11, <3>1 DEF Chained, Had, NotHad, Works, Working
    <3> QED
      BY <1>1, <2>2, <2>6, <3>2 DEF AllSound, EncoderTimes, Reads
  <2>12. SoundsInv'
    <3>1. sounds' \in Seq(SoundsMade) /\ client' \notin {"new", "opening"}
      BY <1>1, <2>4
    <3>2. \A i \in DOMAIN sounds' : sounds'[i].works => sounds'[i].announced \in {sounds'[i].codec, "unknown"}
      BY <2>5, <2>8 DEF AllSound, SoundsInv
    <3>3. stage.encode.src = "linear" => \A i \in DOMAIN sounds' : sounds'[i].announced = "aac" => stage.encode.dst = "aac"
      BY <2>5, <2>10 DEF AllSound, SoundsInv
    <3>4. ASSUME stage.encode.src = "linear", NEW i \in DOMAIN sounds', NEW j \in DOMAIN sounds',
                 i < j, sounds'[j].works, sounds'[i].announced = "aac"
          PROVE  sounds'[i].pts < sounds'[j].pts
      <4>1. i \in DOMAIN sounds /\ sounds'[i] = sounds[i]
        BY <2>4, <3>4
      <4>2. CASE j \in DOMAIN sounds /\ sounds'[j] = sounds[j]
        BY <3>4, <4>1, <4>2 DEF AllSound, SoundsInv
      <4>3. CASE sounds'[j] = s
        BY <2>11, <3>4, <4>1, <4>3
      <4> QED
        BY <2>5, <4>2, <4>3
    <3> QED
      BY <1>1, <3>1, <3>2, <3>3, <3>4 DEF SoundsInv
  <2> QED
    BY <1>5, <1>6, <1>7, <1>8, <2>7, <2>12 DEF AllSound
<1> QED
  BY <1>10, <1>11

\* When the source is closed nothing is read or written any more.
LEMMA ClosedKeepsSound ==
  ASSUME SourceType, ~Viewing, AllSound, CloseFeed \/ (TranscoderSourceFails /\ UNCHANGED <<decoderVars, client, made>>)
  PROVE  AllSound'
<1>1. /\ camera' = camera /\ isOpen' = FALSE /\ firstFrame' = None
      /\ UNCHANGED <<stage, sounds>> /\ pc' = "client"
      /\ client' = "closed" \/ (client' = client /\ got' = Error /\ queue' = queue /\ pc = "opened")
  BY DEF CloseFeed, TranscoderSourceFails, CloseSource, Stay, Viewing, made, transcoderVars
<1>2. pc = "opened" => client = "opening"
  BY DEF AllSound, StageInv
<1>3. client' = "closed" \/ (client = "opening" /\ client' = "opening" /\ got' = Error /\ queue' = queue)
  BY <1>1, <1>2
<1>4. got' \in {Nothing, Error, Later} /\ ~Audible(got')
  BY SilentIsNothing DEF CloseFeed, TranscoderSourceFails, Stay
<1>5. StageType'
  BY <1>1, <1>4 DEF AllSound, StageType
<1>6. Named'
  BY <1>1 DEF Named, Known
<1>7. StageInv'
  BY <1>1, <1>3, <1>6, CameraSourceAssumption DEF AllSound, StageInv
<1>8. SourceSound' /\ CoderSound' /\ EncoderTimes'
  BY <1>3 DEF SourceSound, CoderSound, EncoderTimes, Reads
<1>9. SoundsInv'
  BY <1>1, <1>3 DEF AllSound, SoundsInv
<1> QED
  BY <1>5, <1>7, <1>8, <1>9 DEF AllSound

LEMMA SourceKeepsSound ==
  ASSUME SourceType, OneSound, ~Viewing, camera.chain = "record", AllSound, SourceNext, UNCHANGED <<elements, client, made>>
  PROVE  AllSound'
<1>1. /\ pc = "source" /\ got = Nothing /\ client \in {"opening", "reading"}
      /\ UNCHANGED <<camera, stage, queue, sounds, client>>
      /\ (client = "opening" <=> ~isOpen)
  BY SourceAnswers DEF Answers, AllSound, StageInv, elements, transcoderVars, made
<1>2. /\ CodecOf("audio")' = CodecOf("audio") \/ ~isOpen
      /\ isOpen' /\ camera.demux = "ffmpeg" => chosen' = ChosenStreams
      /\ camera.demux = "live555" /\ Known(firstFrame') => OfSource(firstFrame')
      /\ pc' = "client" => OfSource(got')
  BY SourceNames DEF AllSound, StageInv
<1>3. \/ client = "opening" /\ pc' = "source" /\ got' = Nothing /\ ~isOpen'
      \/ client = "opening" /\ pc' = "opened" /\ got' = Later /\ isOpen'
      \/ client = "opening" /\ pc' = "opened" /\ got' = Error
      \/ client = "reading" /\ pc' = "source" /\ got' = Nothing /\ isOpen'
      \/ client = "reading" /\ pc' = "client" /\ isOpen' /\ got' \in Packet \cup {Error}
  <2>1. (pc' = "client" /\ got' \in Packet \cup {Error}) \/ ~(\E x \in Packet \cup {Error} : Return(x))
    BY DEF Return, Above, Viewing
  <2> QED
    BY <1>1, <2>1, SourceAnswers DEF Answers
<1>4. ChosenStreams' = ChosenStreams
  BY <1>1 DEF ChosenStreams, InStreams, AnyVideo
<1>5. camera.demux = "live555" => CodecOf("audio")' = CodecOf("audio")
  BY <1>1, NamesStay
<1>6. Named'
  <2>1. camera.demux = "live555" /\ Known(firstFrame') => OfSource(firstFrame)'
    BY <1>2, <1>5 DEF OfSource, Audible
  <2> QED
    BY <1>1, <1>2, <1>4, <2>1 DEF Named
<1>7. client = "opening" => Unstaged /\ Unstaged'
  BY <1>1 DEF AllSound, StageInv, Unstaged
<1>8. client = "reading" => CodecOf("audio")' = CodecOf("audio") /\ (Alone' <=> Alone) /\ (Chained' <=> Chained) /\ (Alone \/ Chained)
  BY <1>1, <1>2 DEF AllSound, StageInv, Alone, Chained, Had, NotHad
<1>9. StageInv'
  BY <1>1, <1>3, <1>6, <1>7, <1>8, CameraSourceAssumption DEF AllSound, StageInv
<1>10. pc' = "client" => OfSource(got)'
  BY <1>1, <1>2, <1>3, <1>8 DEF OfSource, Audible
<1>11. Audible(got') => pc' = "client" /\ OfSource(got')
  BY <1>2, <1>3, SilentIsNothing
<1>12. StageType'
  BY <1>1, <1>11 DEF AllSound, StageType, OfSource
<1>13. SourceSound'
  <2> SUFFICES ASSUME client = "reading" PROVE SourceSound'
    BY <1>1 DEF SourceSound, Reads
  <2>1. queue' \in Seq(Packet) /\ \A i \in DOMAIN queue' : OfSource(queue'[i])
    BY <1>1 DEF AllSound, SourceSound, Reads
  <2>2. \A i \in DOMAIN queue' : OfSource(queue[i])'
    BY <1>8, <2>1 DEF OfSource, Audible
  <2>3. OfSource(got)'
    <3>1. CASE pc' = "client"
      BY <1>10, <3>1
    <3>2. CASE pc' # "client"
      BY <1>11, <3>2 DEF OfSource, Audible
    <3> QED
      BY <3>1, <3>2
  <2>4. pc' = "client" => got' \in Packet \cup {Nothing, Error, Later}
    BY <1>3
  <2> QED
    BY <2>1, <2>2, <2>3, <2>4 DEF SourceSound
<1>14. Working' <=> Working
  BY <1>1 DEF Working
<1>15. CoderSound'
  BY <1>1, <1>3, <1>14 DEF AllSound, CoderSound, Reads, FromEncoder
<1>16. EncoderTimes'
  BY <1>1, <1>3 DEF AllSound, EncoderTimes, Reads, FromEncoder, Works
<1>17. SoundsInv'
  BY <1>1 DEF AllSound, SoundsInv
<1> QED
  BY <1>9, <1>12, <1>13, <1>15, <1>16, <1>17 DEF AllSound

\* What is put together when the encoder is opened.
LEMMA OpenedKeepsSound ==
  ASSUME SourceType, ~Viewing, AllSound, OpenTranscoder, UNCHANGED <<decoderVars, client, made>> PROVE AllSound'
<1>1. /\ pc = "opened" /\ client = "opening" /\ Unstaged /\ isOpen /\ Named
  BY DEF OpenTranscoder, AllSound, StageInv
<1>2. /\ UNCHANGED <<camera, source, queue, sounds, client>> /\ pc' = "client" /\ got' = Later
      /\ UNCHANGED <<isOpen, chosen, firstFrame>> /\ SourceKept
  BY UnchangedKeeps DEF OpenTranscoder, made, source
<1>3. Named' /\ CodecOf("audio")' = CodecOf("audio")
  BY <1>1, <1>2, KeptNames
<1>4. CodecOf("audio") \in Codecs \ {"linear", "noise"}
  BY CodecIs
<1>5. << >> \in Seq(Sound) /\ None \in Int \cup {None}
  OBVIOUS
<1>6. NoStage \in Setup /\ NoStage.mode = "pass" /\ NoStage.on = FALSE /\ NoStage.held = << >> /\ NoStage.dst = "unknown"
  BY <1>5 DEF NoStage, Setup, Codecs
<1>7. ASSUME NEW mode \in {"pass", "work", "failed"}, NEW src \in Codecs, NEW dst \in Codecs
      PROVE  /\ Stage(mode, src, dst) \in Setup /\ Stage(mode, src, dst).on /\ Stage(mode, src, dst).mode = mode
             /\ Stage(mode, src, dst).src = src /\ Stage(mode, src, dst).held = << >>
             /\ Stage(mode, src, dst).dst = IF mode = "work" THEN dst ELSE "unknown"
  BY <1>5 DEF Stage, Setup, Codecs
<1>8. {"linear", "aac"} \subseteq Codecs
  BY DEF Codecs
<1>9. /\ stage' \in [AudioElement -> Setup] /\ (Alone' \/ Chained') /\ \A e \in Coders : stage'[e].held = << >>
  <2>1. ASSUME NEW mode \in {"pass", "failed"}, stage' = [stage EXCEPT !.encode = Stage(mode, CodecOf("audio"), "aac")]
        PROVE  /\ stage' \in [AudioElement -> Setup] /\ Alone' /\ \A e \in Coders : stage'[e].held = << >>
    <3>1. stage'["encode"] = Stage(mode, CodecOf("audio"), "aac") /\ stage'["resample"] = NoStage /\ stage'["expand"] = NoStage
          /\ stage' \in [AudioElement -> Setup]
      BY <1>1, <1>4, <1>6, <1>7, <1>8, <2>1 DEF Unstaged, AudioElement
    <3> QED
      BY <1>3, <1>4, <1>6, <1>7, <1>8, <2>1, <3>1 DEF Alone, Coders
  <2>2. ASSUME NEW expanded \in Modes(HasTransform(CodecOf("audio"), "linear")),
               NEW resampled \in ResampleModes(expanded), NEW encoded \in EncodeModes(expanded, resampled),
               ~NeedsNoTranscoder,
               stage' = [encode   |-> Stage(encoded, "linear", "aac"),
                         resample |-> IF resampled = "off" THEN NoStage ELSE Stage(resampled, "linear", "linear"),
                         expand   |-> Stage(expanded, CodecOf("audio"), "linear")]
        PROVE  /\ stage' \in [AudioElement -> Setup] /\ Chained' /\ \A e \in Coders : stage'[e].held = << >>
    <3>1. expanded \in {"work", "failed"} /\ encoded \in {"pass", "work", "failed"} /\ resampled \in {"off", "pass", "work", "failed"}
          /\ (encoded = "work" => resampled # "failed" /\ expanded # "failed") /\ (encoded = "pass" => expanded = "failed")
          /\ (expanded = "work" => resampled \in {"off", "work", "failed"})
      BY <2>2 DEF Modes, ResampleModes, EncodeModes
    <3>2. /\ stage'["encode"] = Stage(encoded, "linear", "aac")
          /\ stage'["resample"] = IF resampled = "off" THEN NoStage ELSE Stage(resampled, "linear", "linear")
          /\ stage'["expand"] = Stage(expanded, CodecOf("audio"), "linear")
          /\ DOMAIN stage' = AudioElement
      BY <2>2 DEF AudioElement
    <3>3. stage'["encode"] \in Setup /\ stage'["resample"] \in Setup /\ stage'["expand"] \in Setup
      BY <1>4, <1>6, <1>7, <1>8, <3>1, <3>2
    <3>4. stage' \in [AudioElement -> Setup]
      BY <2>2, <3>3 DEF AudioElement
    <3>5. CodecOf("audio") # "unknown"
      BY <2>2 DEF NeedsNoTranscoder
    <3>6. /\ stage'["encode"].on /\ stage'["encode"].mode = encoded /\ stage'["encode"].src = "linear"
          /\ stage'["encode"].dst = (IF encoded = "work" THEN "aac" ELSE "unknown") /\ stage'["encode"].held = << >>
      BY <1>7, <1>8, <3>1, <3>2
    <3>7. /\ stage'["expand"].on /\ stage'["expand"].mode = expanded /\ stage'["expand"].src = CodecOf("audio")
          /\ stage'["expand"].dst = (IF expanded = "work" THEN "linear" ELSE "unknown") /\ stage'["expand"].held = << >>
      BY <1>4, <1>7, <1>8, <3>1, <3>2
    <3>8. stage'["resample"].on /\ encoded = "work" => /\ stage'["resample"].mode = "work"
                                   /\ stage'["resample"].src = "linear" /\ stage'["resample"].dst = "linear"
      BY <1>6, <1>7, <1>8, <3>1, <3>2
    <3> QED
      BY <1>3, <3>1, <3>4, <3>5, <3>6, <3>7, <3>8 DEF Chained, Had, NotHad, Coders
  <2> QED
    BY <2>1, <2>2 DEF OpenTranscoder
<1>10. ~Audible(got')
  BY <1>2, SilentIsNothing
<1>11. StageType'
  BY <1>9, <1>10 DEF StageType
<1>12. StageInv'
  BY <1>1, <1>2, <1>3, <1>9 DEF AllSound, StageInv
<1>13. SourceSound' /\ CoderSound' /\ EncoderTimes'
  BY <1>1, <1>2 DEF SourceSound, CoderSound, EncoderTimes, Reads
<1>14. SoundsInv'
  <2>1. sounds' = << >> /\ queue' = << >>
    BY <1>1, <1>2 DEF AllSound, SoundsInv
  <2> QED
    BY <1>9, <2>1 DEF SoundsInv
<1> QED
  BY <1>11, <1>12, <1>13, <1>14 DEF AllSound

-----------------------------------------------------------------------------
\* An element may fail; what it was opened as it stays.
Wears ==
  /\ stage' \in [AudioElement -> Setup]
  /\ \A e \in AudioElement :
       /\ stage'[e].on = stage[e].on /\ stage'[e].src = stage[e].src /\ stage'[e].dst = stage[e].dst
       /\ stage'[e].mode = stage[e].mode \/ (e \in Coders /\ stage[e].mode = "work" /\ stage'[e].mode = "failed")

LEMMA WearsKeeps ==
  ASSUME StageType, Wears, Alone \/ Chained, CodecOf("audio")' = CodecOf("audio")
  PROVE  /\ (Alone' <=> Alone) /\ (Chained => Chained') /\ (Working' => Working)
         /\ Works("encode")' => Works("encode")
<1>1. Alone' <=> Alone
  <2>1. Alone => Alone'
    BY DEF StageType, Wears, Alone, AudioElement, Coders
  <2>2. stage'["expand"].on = stage["expand"].on
    BY DEF Wears, AudioElement
  <2>3. Alone' => ~Chained
    BY <2>2 DEF Alone, Chained
  <2> QED
    BY <2>1, <2>3
<1>2. ASSUME Chained PROVE Chained'
  BY <1>2 DEF StageType, Wears, Chained, Had, NotHad, AudioElement, Coders
<1>3. Working' => Working
  BY DEF StageType, Wears, Working, AudioElement, Coders
<1>4. Works("encode")' => Works("encode")
  BY DEF StageType, Wears, Works, AudioElement
<1> QED
  BY <1>1, <1>2, <1>3, <1>4

\* What a step of an element, or of the splitter below it, hands to the next.
Kept == UNCHANGED <<camera, isOpen, chosen, firstFrame, sounds, client>> /\ SourceKept
Goes ==
  /\ pc' \in {"client", "encode", "resample", "expand", "queue"}
  /\ pc' = "resample" => stage.resample.on
  /\ pc' = "expand" => stage.expand.on
Queued == queue' = queue \/ (queue # << >> /\ queue' = Tail(queue))
Taken == (Audible(got') => got' \in Sound) /\ (pc' = "expand" \/ Alone => OfSource(got'))
Coded ==
  Chained /\ Working' /\ stage.encode.dst = "aac" =>
    /\ \A i \in DOMAIN stage'["expand"].held : stage'["expand"].held[i].codec = "linear"
    /\ \A i \in DOMAIN stage'["encode"].held : stage'["encode"].held[i].codec = "aac"
    /\ pc' \in {"resample", "encode"} => OfCodec(got', "linear")
    /\ pc' = "client" => OfCodec(got', "aac")
InEncoderTime ==
  Works("encode")' =>
    /\ \A i \in DOMAIN sounds : Known(stage'["encode"].last) /\ sounds[i].pts <= stage'["encode"].last
    /\ pc' = "client" /\ Audible(got') =>
          /\ Known(stage'["encode"].last) /\ got'.pts = stage'["encode"].last
          /\ \A i \in DOMAIN sounds : sounds[i].pts < stage'["encode"].last
Hands == Kept /\ Wears /\ Goes /\ Queued /\ Taken /\ Coded /\ InEncoderTime

LEMMA HandsKeepsSound ==
  ASSUME SourceType, AllSound, client \in {"recording", "ended"}, Hands PROVE AllSound'
<1>1. Kept /\ Wears /\ Goes /\ Queued /\ Taken /\ Coded /\ InEncoderTime
  BY DEF Hands
<1>2. Named' /\ CodecOf("audio")' = CodecOf("audio") /\ \A x : OfSource(x)' <=> OfSource(x)
  BY <1>1, KeptNames DEF Kept, AllSound, StageInv
<1>4. Alone \/ Chained
  BY DEF AllSound, StageInv
<1>3. (Alone' <=> Alone) /\ (Chained => Chained') /\ (Working' => Working) /\ (Works("encode")' => Works("encode"))
  BY <1>1, <1>2, <1>4, WearsKeeps DEF AllSound
<1>5. stage'["encode"].dst = stage["encode"].dst /\ stage'["encode"].src = stage["encode"].src
      /\ stage'["resample"].on = stage["resample"].on /\ stage'["expand"].on = stage["expand"].on
  BY <1>1 DEF Wears, AudioElement
<1>6. client' = client /\ isOpen' = isOpen /\ sounds' = sounds
  BY <1>1 DEF Kept
<1>7. StageType'
  BY <1>1 DEF Wears, Taken, StageType
<1>8. StageInv'
  BY <1>1, <1>2, <1>3, <1>4, <1>5, <1>6 DEF AllSound, StageInv, Goes
<1>9. SourceSound'
  <2>1. queue \in Seq(Packet) /\ \A i \in DOMAIN queue : OfSource(queue[i])
    BY DEF AllSound, SourceSound, Reads
  <2>2. queue' \in Seq(Packet) /\ \A i \in DOMAIN queue' : OfSource(queue'[i])
    <3>1. CASE queue' = queue
      BY <2>1, <3>1
    <3>2. CASE queue # << >> /\ queue' = Tail(queue)
      <4>1. queue' \in Seq(Packet) /\ Len(queue) \in Nat /\ Len(queue') = Len(queue) - 1
            /\ \A i \in 1..Len(queue') : queue'[i] = queue[i + 1]
        BY <2>1, <3>2, HeadTailProperties
      <4> QED
        BY <2>1, <4>1
    <3> QED
      BY <1>1, <3>1, <3>2 DEF Queued
  <2>3. \A i \in DOMAIN queue' : OfSource(queue[i])'
    BY <1>2, <2>2 DEF OfSource, Audible
  <2>4. pc' = "expand" \/ Alone' => OfSource(got)'
    BY <1>1, <1>2, <1>3 DEF Taken, OfSource, Audible
  <2> QED
    BY <1>6, <2>2, <2>3, <2>4 DEF SourceSound
<1>10. stage'["encode"].dst = "aac" => Chained
  BY <1>4, <1>5 DEF Alone
<1>11. CoderSound'
  BY <1>1, <1>5, <1>10 DEF Coded, CoderSound, FromEncoder, OfCodec, Audible
<1>12. EncoderTimes'
  BY <1>1, <1>6 DEF InEncoderTime, EncoderTimes, FromEncoder, Audible
<1>13. SoundsInv'
  BY <1>5, <1>6 DEF AllSound, SoundsInv
<1> QED
  BY <1>7, <1>8, <1>9, <1>11, <1>12, <1>13 DEF AllSound

Within(r, s, t) == r \in Seq(Sound) /\ \A i \in DOMAIN r : r[i] = t \/ \E j \in DOMAIN s : r[i] = s[j]

LEMMA HeldGrows ==
  ASSUME NEW s \in Seq(Sound), NEW t \in Sound
  PROVE  /\ Within(Append(s, t), s, t)
         /\ \A n \in Nat : Within(s \o [i \in 1..n |-> t], s, t)
         /\ s # << >> => Within(Tail(s), s, t) /\ Head(s) \in Sound /\ \E j \in DOMAIN s : Head(s) = s[j]
<1>1. Within(Append(s, t), s, t)
  <2>1. /\ Append(s, t) \in Seq(Sound) /\ Len(Append(s, t)) = Len(s) + 1 /\ Len(s) \in Nat
        /\ \A i \in 1..Len(s) : Append(s, t)[i] = s[i]
        /\ Append(s, t)[Len(s) + 1] = t
    BY AppendProperties
  <2> QED
    BY <2>1 DEF Within
<1>2. ASSUME NEW n \in Nat PROVE Within(s \o [i \in 1..n |-> t], s, t)
  <2> DEFINE q == [i \in 1..n |-> t]
             r == s \o q
  <2>1. q \in Seq(Sound) /\ Len(q) = n /\ \A i \in 1..n : q[i] = t
    BY IsASeq
  <2> HIDE DEF q
  <2>2. /\ r \in Seq(Sound) /\ Len(r) = Len(s) + n /\ Len(s) \in Nat
        /\ \A i \in 1..Len(s) : r[i] = s[i]
        /\ \A i \in (Len(s) + 1)..(Len(s) + n) : r[i] = q[i - Len(s)]
    <3>1. /\ r \in Seq(Sound) /\ Len(r) = Len(s) + Len(q) /\ Len(s) \in Nat /\ Len(q) \in Nat
          /\ \A i \in 1..(Len(s) + Len(q)) : r[i] = IF i <= Len(s) THEN s[i] ELSE q[i - Len(s)]
      BY <2>1, ConcatProperties, LenProperties
    <3> HIDE DEF r
    <3> QED
      BY <2>1, <3>1
  <2> HIDE DEF r
  <2>3. ASSUME NEW i \in 1..Len(r) PROVE r[i] = t \/ \E j \in DOMAIN s : r[i] = s[j]
    <3>1. CASE i <= Len(s)
      BY <2>2, <3>1
    <3>2. CASE i > Len(s)
      <4>1. i - Len(s) \in 1..n /\ i \in (Len(s) + 1)..(Len(s) + n)
        BY <2>2, <3>2
      <4> QED
        BY <2>1, <2>2, <4>1
    <3> QED
      BY <2>2, <3>1, <3>2
  <2>4. Within(r, s, t)
    BY <2>2, <2>3 DEF Within
  <2> QED
    BY <2>4 DEF r, q
<1>3. ASSUME s # << >> PROVE Within(Tail(s), s, t) /\ Head(s) \in Sound /\ \E j \in DOMAIN s : Head(s) = s[j]
  <2>1. /\ Tail(s) \in Seq(Sound) /\ Len(s) \in Nat /\ Len(s) > 0 /\ Len(Tail(s)) = Len(s) - 1
        /\ \A i \in 1..Len(Tail(s)) : Tail(s)[i] = s[i + 1]
        /\ Head(s) \in Sound /\ Head(s) = s[1]
    BY <1>3, HeadTailProperties, EmptySeq
  <2> QED
    BY <2>1 DEF Within
<1> QED
  BY <1>1, <1>2, <1>3

\* At an element: who reads, what is put together, what it was given.
LEMMA AtElement ==
  ASSUME AllSound, pc \in {"encode", "resample", "expand", "queue"}
  PROVE  /\ client \in {"recording", "ended"} /\ (Alone \/ Chained) /\ ~(Alone /\ Chained) /\ stage.encode.on
         /\ pc = "resample" => stage.resample.on /\ Chained
         /\ pc = "expand" => stage.expand.on /\ Chained
BY DEF AllSound, StageInv, Alone, Chained

Makes(e) == IF e = "encode" THEN "aac" ELSE "linear"

LEMMA TransformedIs ==
  ASSUME SourceType, AllSound, NEW e \in AudioElement, pc = e, Audible(got)
  PROVE  /\ Transformed(e, got) \in Sound
         /\ Chained /\ Working /\ stage.encode.dst = "aac" => Transformed(e, got).codec = Makes(e)
<1>1. got \in Sound /\ stage[e] \in Setup
  BY DEF AllSound, StageType
<1>2. stage[e].dst \in Codecs /\ "noise" \in Codecs
  BY <1>1 DEF Setup, Codecs
<1>3. /\ Transformed(e, got) \in Sound
      /\ Transformed(e, got).codec = IF got.codec = stage[e].src THEN stage[e].dst ELSE "noise"
  BY <1>1, <1>2 DEF Transformed, Sound
<1>4. ASSUME Chained, Working, stage.encode.dst = "aac"
      PROVE  got.codec = stage[e].src /\ stage[e].dst = Makes(e)
  <2>1. Reads
    BY AtElement DEF Reads, AudioElement
  <2>2. CASE e = "expand"
    <3>1. OfSource(got)
      BY <2>1, <2>2 DEF AllSound, SourceSound
    <3> QED
      BY <1>4, <2>2, <3>1 DEF Chained, Had, NotHad, OfSource, Makes
  <2>3. CASE e \in {"encode", "resample"}
    <3>1. OfCodec(got, "linear")
      BY <1>4, <2>1, <2>3 DEF AllSound, CoderSound
    <3>2. e = "resample" => stage.resample.on
      BY AtElement
    <3> QED
      BY <1>4, <2>3, <3>1, <3>2 DEF Chained, Had, NotHad, OfCodec, Makes
  <2> QED
    BY <2>2, <2>3 DEF AudioElement
<1> QED
  BY <1>3, <1>4

LEMMA GoesOn ==
  ASSUME AllSound, pc \in {"encode", "resample", "expand", "queue"},
         pc' \in {pc, Caller(pc)} \/ (pc # "queue" /\ pc' = Below(pc))
  PROVE  Goes
<1>1. stage.encode.on /\ (pc = "resample" => stage.resample.on) /\ (pc = "expand" => stage.expand.on)
  BY AtElement
<1>2. CASE pc' = pc
  BY <1>1, <1>2 DEF Goes
<1>3. CASE pc = "encode"
  BY <1>1, <1>2, <1>3, Neighbours DEF Goes
<1>4. CASE pc = "resample"
  BY <1>1, <1>2, <1>4, Neighbours DEF Goes
<1>5. CASE pc = "expand"
  BY <1>1, <1>2, <1>5, Neighbours DEF Goes
<1>6. CASE pc = "queue"
  BY <1>1, <1>2, <1>6, Neighbours DEF Goes
<1> QED
  BY <1>3, <1>4, <1>5, <1>6

\* What the coders hold after a step is what they held, or of the codec they make.
Held ==
  \A e \in Coders : \A i \in DOMAIN stage'[e].held :
    \/ \E j \in DOMAIN stage[e].held : stage'[e].held[i] = stage[e].held[j]
    \/ Chained /\ Working /\ stage.encode.dst = "aac" => stage'[e].held[i].codec = Makes(e)

LEMMA HeldIsCoded ==
  ASSUME AllSound, pc \in {"encode", "resample", "expand", "queue"}, Wears, Held,
         Chained, Working', stage.encode.dst = "aac"
  PROVE  /\ Working
         /\ \A e \in Coders : \A i \in DOMAIN stage[e].held : stage[e].held[i].codec = Makes(e)
         /\ \A e \in Coders : \A i \in DOMAIN stage'[e].held : stage'[e].held[i].codec = Makes(e)
<1>1. Working
  BY DEF AllSound, StageType, Wears, Working, AudioElement, Coders
<1>2. \A e \in Coders : \A i \in DOMAIN stage[e].held : stage[e].held[i].codec = Makes(e)
  <2>1. Reads
    BY AtElement DEF Reads
  <2>2. /\ \A i \in DOMAIN stage.expand.held : stage.expand.held[i].codec = "linear"
        /\ \A i \in DOMAIN stage.encode.held : stage.encode.held[i].codec = "aac"
    BY <1>1, <2>1 DEF AllSound, CoderSound
  <2> QED
    BY <2>2 DEF Coders, Makes
<1>3. ASSUME NEW e \in Coders, NEW i \in DOMAIN stage'[e].held PROVE stage'[e].held[i].codec = Makes(e)
  BY <1>1, <1>2 DEF Held
<1> QED
  BY <1>1, <1>2, <1>3

\* A step that leaves the encoder's time, and hands on nothing or what the next element takes.
LEMMA PassedHands ==
  ASSUME SourceType, AllSound, pc \in {"encode", "resample", "expand", "queue"},
         Kept, Wears, Goes, Queued, Held, stage'["encode"].last = stage["encode"].last,
         Taken, Audible(got') => pc' # "client" \/ ~Works("encode"),
         Chained /\ Working /\ stage.encode.dst = "aac" =>
            /\ pc' \in {"resample", "encode"} => OfCodec(got', "linear")
            /\ pc' = "client" => OfCodec(got', "aac")
  PROVE  Hands
<1>1. Coded
  BY HeldIsCoded DEF Coded, Coders, Makes
<1>2. InEncoderTime
  <2> SUFFICES ASSUME Works("encode")'
               PROVE  /\ ~(pc' = "client" /\ Audible(got'))
                      /\ \A i \in DOMAIN sounds : Known(stage["encode"].last) /\ sounds[i].pts <= stage["encode"].last
    BY DEF InEncoderTime
  <2>1. Reads
    BY AtElement DEF Reads
  <2>2. Works("encode")
    BY DEF AllSound, StageType, Wears, Works, AudioElement
  <2> QED
    BY <2>1, <2>2 DEF AllSound, EncoderTimes
<1> QED
  BY <1>1, <1>2 DEF Hands

LEMMA SilentHands ==
  ASSUME SourceType, AllSound, pc \in {"encode", "resample", "expand", "queue"},
         Kept, Wears, Goes, Queued, Held, ~Audible(got'), stage'["encode"].last = stage["encode"].last
  PROVE  Hands
<1>1. Taken
  BY DEF Taken, OfSource
<1>2. OfCodec(got', "linear") /\ OfCodec(got', "aac")
  BY DEF OfCodec
<1> QED
  BY <1>1, <1>2, PassedHands

LEMMA StagesStay ==
  ASSUME AllSound,
         \/ stage' = stage
         \/ \E e \in Coders : Works(e) /\ stage' = [stage EXCEPT ![e].mode = "failed"]
  PROVE  Wears /\ Held /\ stage'["encode"].last = stage["encode"].last
<1>1. CASE stage' = stage
  BY <1>1 DEF AllSound, StageType, Wears, Held
<1>2. ASSUME NEW e \in Coders, Works(e), stage' = [stage EXCEPT ![e].mode = "failed"]
      PROVE  Wears /\ Held /\ stage'["encode"].last = stage["encode"].last
  <2>1. e \in AudioElement /\ stage \in [AudioElement -> Setup] /\ stage[e] \in Setup /\ stage[e].mode = "work"
    BY <1>2 DEF AllSound, StageType, Works, Coders, AudioElement
  <2>2. stage'[e] = [stage[e] EXCEPT !.mode = "failed"] /\ \A x \in AudioElement : x # e => stage'[x] = stage[x]
    BY <1>2, <2>1
  <2>3. /\ stage'[e] \in Setup
        /\ stage'[e].on = stage[e].on /\ stage'[e].src = stage[e].src /\ stage'[e].dst = stage[e].dst
        /\ stage'[e].held = stage[e].held /\ stage'[e].last = stage[e].last /\ stage'[e].mode = "failed"
    BY <2>1, <2>2 DEF Setup
  <2>4. stage' \in [AudioElement -> Setup]
    BY <1>2, <2>1, <2>2, <2>3
  <2>5. Wears
    BY <1>2, <2>1, <2>2, <2>3, <2>4 DEF Wears
  <2>6. \A x \in AudioElement : stage'[x].held = stage[x].held /\ stage'[x].last = stage[x].last
    BY <2>2, <2>3
  <2>7. Coders \subseteq AudioElement /\ "encode" \in AudioElement
    BY DEF Coders, AudioElement
  <2>8. Held
    BY <2>6, <2>7 DEF Held
  <2> QED
    BY <2>5, <2>6, <2>7, <2>8
<1> QED
  BY <1>1, <1>2

LEMMA CallsHands ==
  ASSUME SourceType, AllSound, UNCHANGED <<decoderVars, client, made>>,
         NEW e \in AudioElement, CallBelow(e) \/ TransformFails(e) \/ PassNone(e)
  PROVE  pc \in AudioElement /\ Hands
<1>1. pc = e /\ pc' \in {Caller(e), Below(e)} /\ got' \in {Nothing, Error, Later} /\ UNCHANGED <<camera, source, queue>>
  BY DEF CallBelow, TransformFails, PassNone, Runs, GetsNone, Give, Idle
<1>2. \/ stage' = stage
      \/ \E c \in Coders : Works(c) /\ stage' = [stage EXCEPT ![c].mode = "failed"]
  BY DEF CallBelow, TransformFails, PassNone, Pending
<1>3. Kept /\ Queued
  BY <1>1, UnchangedKeeps DEF Kept, Queued, source, made
<1>4. pc \in AudioElement /\ pc \in {"encode", "resample", "expand", "queue"} /\ pc # "queue"
  BY <1>1 DEF AudioElement
<1>5. Goes
  BY <1>1, <1>4, GoesOn
<1>6. Wears /\ Held /\ stage'["encode"].last = stage["encode"].last
  BY <1>2, StagesStay
<1> QED
  BY <1>1, <1>3, <1>4, <1>5, <1>6, SilentHands, SilentIsNothing

\* What a coder may come to hold: what it held, or of the codec it makes.
Holds(e, h) ==
  /\ h \in Seq(Sound)
  /\ \A i \in DOMAIN h :
       \/ \E j \in DOMAIN stage[e].held : h[i] = stage[e].held[j]
       \/ Chained /\ Working /\ stage.encode.dst = "aac" => h[i].codec = Makes(e)

LEMMA HeldStage ==
  ASSUME AllSound, NEW e \in Coders, NEW h, NEW l \in Int \cup {None}, Holds(e, h),
         stage' = [stage EXCEPT ![e].held = h, ![e].last = l]
  PROVE  Wears /\ Held /\ stage'[e].last = l /\ (e # "encode" => stage'["encode"].last = stage["encode"].last)
<1>1. e \in AudioElement /\ stage \in [AudioElement -> Setup] /\ stage[e] \in Setup /\ "encode" \in AudioElement
  BY DEF AllSound, StageType, Coders, AudioElement
<1>2. stage'[e] = [stage[e] EXCEPT !.held = h, !.last = l] /\ \A x \in AudioElement : x # e => stage'[x] = stage[x]
  BY <1>1
<1>3. /\ stage'[e] \in Setup
      /\ stage'[e].on = stage[e].on /\ stage'[e].src = stage[e].src /\ stage'[e].dst = stage[e].dst
      /\ stage'[e].held = h /\ stage'[e].last = l /\ stage'[e].mode = stage[e].mode
  BY <1>1, <1>2 DEF Setup, Holds
<1>4. stage' \in [AudioElement -> Setup]
  BY <1>1, <1>2, <1>3
<1>5. Wears
  BY <1>1, <1>2, <1>3, <1>4 DEF Wears
<1>6. Held
  <2> SUFFICES ASSUME NEW x \in Coders, NEW i \in DOMAIN stage'[x].held
               PROVE  \/ \E j \in DOMAIN stage[x].held : stage'[x].held[i] = stage[x].held[j]
                      \/ Chained /\ Working /\ stage.encode.dst = "aac" => stage'[x].held[i].codec = Makes(x)
    BY DEF Held
  <2>1. CASE x = e
    BY <1>3, <2>1 DEF Holds
  <2>2. CASE x # e
    <3>1. stage'[x] = stage[x]
      BY <1>2, <2>2 DEF Coders, AudioElement
    <3> QED
      BY <3>1
  <2> QED
    BY <2>1, <2>2
<1> QED
  BY <1>1, <1>2, <1>3, <1>5, <1>6

LEMMA GivenHolds ==
  ASSUME SourceType, AllSound, NEW e \in Coders, pc = e, Audible(got), NEW h, Within(h, stage[e].held, Transformed(e, got))
  PROVE  Holds(e, h)
<1>1. e \in AudioElement
  BY DEF Coders, AudioElement
<1> QED
  BY <1>1, TransformedIs DEF Within, Holds

\* A transform that was given a packet and has nothing ready, or loses it.
LEMMA SilentTransform ==
  ASSUME SourceType, AllSound, UNCHANGED <<camera, source, queue, decoderVars, client, made>>,
         NEW e \in Coders, pc = e, NEW h, Holds(e, h), stage' = [stage EXCEPT ![e].held = h],
         pc' \in {pc, Caller(pc)}, got' \in {Nothing, Error, Later}
  PROVE  Hands
<1>1. e \in AudioElement /\ stage \in [AudioElement -> Setup] /\ stage[e] \in Setup /\ stage[e].last \in Int \cup {None}
  BY DEF AllSound, StageType, Setup, Coders, AudioElement
<1>2. stage' = [stage EXCEPT ![e].held = h, ![e].last = stage[e].last]
  BY <1>1 DEF Setup
<1>3. Wears /\ Held /\ stage'["encode"].last = stage["encode"].last
  BY <1>1, <1>2, HeldStage
<1>4. Kept /\ Queued
  BY UnchangedKeeps DEF Kept, Queued, source, made
<1>5. pc \in {"encode", "resample", "expand", "queue"}
  BY DEF Coders
<1>6. Goes
  BY <1>5, GoesOn
<1> QED
  BY <1>3, <1>4, <1>5, <1>6, SilentHands, SilentIsNothing

\* What a transform gives: of the codec it makes, at a time after the last.
LEMMA OutputHands ==
  ASSUME SourceType, AllSound, UNCHANGED <<camera, source, queue, decoderVars, client, made>>,
         NEW e \in Coders, pc = e, Works(e), NEW h, h # << >>, Holds(e, h), Output(e, h)
  PROVE  Hands
<1> DEFINE time == OutputTime(e, Head(h).pts)
           frame == [Head(h) EXCEPT !.pts = time]
<1>1. e \in AudioElement /\ stage[e] \in Setup /\ h \in Seq(Sound)
  BY DEF AllSound, StageType, Coders, AudioElement, Holds
<1>2. /\ Tail(h) \in Seq(Sound) /\ Len(h) \in Nat /\ Len(h) > 0 /\ Len(Tail(h)) = Len(h) - 1
      /\ \A i \in 1..Len(Tail(h)) : Tail(h)[i] = h[i + 1]
      /\ Head(h) \in Sound /\ Head(h) = h[1] /\ 1 \in DOMAIN h
  BY <1>1, HeadTailProperties, EmptySeq
<1>3. time \in Int /\ (Known(stage[e].last) => stage[e].last \in Int /\ stage[e].last < time)
  BY <1>1, <1>2 DEF OutputTime, Known, Setup, Sound
<1>4. frame \in Sound /\ frame.pts = time /\ frame.codec = Head(h).codec
  BY <1>2, <1>3 DEF Sound
<1>5. /\ stage' = [stage EXCEPT ![e].held = Tail(h), ![e].last = time]
      /\ pc' = Caller(e) /\ got' = frame
  BY <1>4 DEF Output, Give
<1>6. Holds(e, Tail(h))
  <2> SUFFICES ASSUME NEW i \in DOMAIN Tail(h)
               PROVE  \/ \E j \in DOMAIN stage[e].held : Tail(h)[i] = stage[e].held[j]
                      \/ Chained /\ Working /\ stage.encode.dst = "aac" => Tail(h)[i].codec = Makes(e)
    BY <1>2 DEF Holds
  <2>1. Tail(h)[i] = h[i + 1] /\ i + 1 \in DOMAIN h
    BY <1>1, <1>2
  <2> QED
    BY <2>1 DEF Holds
<1> HIDE DEF time, frame
<1>7. Wears /\ Held /\ stage'[e].last = time /\ (e # "encode" => stage'["encode"].last = stage["encode"].last)
  BY <1>3, <1>5, <1>6, HeldStage
<1>8. pc \in {"encode", "resample", "expand", "queue"} /\ stage.encode.on /\ Chained /\ Reads
  <2>1. ~Alone
    BY DEF Alone, Works, Coders
  <2> QED
    BY <2>1, AtElement DEF Coders, Reads
<1>9. pc' = (IF e = "encode" THEN "client" ELSE IF stage.resample.on THEN "resample" ELSE "encode")
  BY <1>5, <1>8, Neighbours DEF Coders
<1>10. Kept /\ Queued
  BY UnchangedKeeps DEF Kept, Queued, source, made
<1>11. Goes
  BY <1>9 DEF Goes
<1>12. Taken
  <2>1. ~Alone
    BY <1>8, AtElement
  <2> QED
    BY <1>4, <1>5, <1>9, <2>1 DEF Taken
<1>13. Coded
  <2> SUFFICES ASSUME Chained, Working', stage.encode.dst = "aac"
               PROVE  /\ \A i \in DOMAIN stage'["expand"].held : stage'["expand"].held[i].codec = "linear"
                      /\ \A i \in DOMAIN stage'["encode"].held : stage'["encode"].held[i].codec = "aac"
                      /\ pc' \in {"resample", "encode"} => OfCodec(got', "linear")
                      /\ pc' = "client" => OfCodec(got', "aac")
    BY DEF Coded
  <2>1. /\ Working
        /\ \A x \in Coders : \A i \in DOMAIN stage[x].held : stage[x].held[i].codec = Makes(x)
        /\ \A x \in Coders : \A i \in DOMAIN stage'[x].held : stage'[x].held[i].codec = Makes(x)
    BY <1>7, <1>8, HeldIsCoded
  <2>2. frame.codec = Makes(e)
    BY <1>2, <1>4, <2>1 DEF Holds
  <2> QED
    BY <1>5, <1>9, <2>1, <2>2 DEF Coders, Makes, OfCodec
<1>14. InEncoderTime
  <2> SUFFICES ASSUME Works("encode")'
               PROVE  /\ \A i \in DOMAIN sounds : Known(stage'["encode"].last) /\ sounds[i].pts <= stage'["encode"].last
                      /\ pc' = "client" =>
                            /\ Known(stage'["encode"].last) /\ got'.pts = stage'["encode"].last
                            /\ \A i \in DOMAIN sounds : sounds[i].pts < stage'["encode"].last
    BY DEF InEncoderTime
  <2>1. Works("encode")
    BY <1>7 DEF AllSound, StageType, Wears, Works, AudioElement
  <2>2. \A i \in DOMAIN sounds : Known(stage.encode.last) /\ sounds[i].pts <= stage.encode.last
    BY <1>8, <2>1 DEF AllSound, EncoderTimes
  <2>3. CASE e = "encode"
    <3>1. Known(time)
      BY <1>3, CameraSourceAssumption DEF Known
    <3>2. \A i \in DOMAIN sounds : sounds[i].pts \in Int
      <4>1. sounds \in Seq(SoundsMade)
        BY DEF AllSound, SoundsInv
      <4>2. \A i \in DOMAIN sounds : sounds[i] \in SoundsMade
        BY <4>1
      <4> QED
        BY <4>2 DEF SoundsMade
    <3>3. \A i \in DOMAIN sounds : sounds[i].pts < time /\ sounds[i].pts <= time
      BY <1>3, <2>2, <2>3, <3>2
    <3> QED
      BY <1>4, <1>5, <1>7, <2>3, <3>1, <3>3
  <2>4. CASE e # "encode"
    BY <1>7, <1>9, <2>2, <2>4
  <2> QED
    BY <2>3, <2>4
<1> QED
  BY <1>7, <1>10, <1>11, <1>12, <1>13, <1>14 DEF Hands

LEMMA CodersHand ==
  ASSUME SourceType, AllSound, UNCHANGED <<decoderVars, client, made>>,
         NEW e \in AudioElement, TransformPending(e) \/ TransformPacket(e) \/ TransformLosesPacket(e)
  PROVE  pc \in AudioElement /\ Hands
<1>1. e \in Coders /\ pc = e /\ Works(e) /\ UNCHANGED <<camera, source, queue>>
  BY DEF TransformPending, TransformPacket, TransformLosesPacket, Pending, Runs, Gets, Idle
<1>2. stage[e] \in Setup /\ stage[e].held \in Seq(Sound)
  BY DEF AllSound, StageType, Setup
<1>3. CASE TransformPending(e)
  <2>1. stage[e].held # << >> /\ Output(e, stage[e].held)
    BY <1>2, <1>3, AudioTranscoderAssumption, EmptySeq DEF TransformPending, Pending
  <2>2. Holds(e, stage[e].held)
    BY <1>2 DEF Holds
  <2> QED
    BY <1>1, <2>1, <2>2, OutputHands
<1>4. ASSUME TransformPacket(e) \/ TransformLosesPacket(e)
      PROVE  /\ Audible(got) /\ Transformed(e, got) \in Sound
             /\ Holds(e, Append(stage[e].held, Transformed(e, got)))
             /\ \A n \in Nat : Holds(e, stage[e].held \o [i \in 1..n |-> Transformed(e, got)])
  <2>1. Audible(got)
    BY <1>4 DEF TransformPacket, TransformLosesPacket, Gets, Audible
  <2>2. Transformed(e, got) \in Sound
    BY <1>1, <2>1, TransformedIs
  <2>3. /\ Within(Append(stage[e].held, Transformed(e, got)), stage[e].held, Transformed(e, got))
        /\ \A n \in Nat : Within(stage[e].held \o [i \in 1..n |-> Transformed(e, got)], stage[e].held, Transformed(e, got))
    BY <1>2, <2>2, HeldGrows
  <2> QED
    BY <1>1, <2>1, <2>2, <2>3, GivenHolds
<1>5. CASE TransformPacket(e)
  <2> DEFINE held(n) == stage[e].held \o [i \in 1..n |-> Transformed(e, got)]
  <2>1. PICK n \in 1..MaxPortions :
          IF Len(held(n)) > TransformDelay THEN Output(e, held(n)) ELSE stage' = [stage EXCEPT ![e].held = held(n)] /\ Stay
    BY <1>5 DEF TransformPacket
  <2>2. n \in Nat
    BY <2>1, AudioTranscoderAssumption
  <2>3. Holds(e, held(n))
    BY <1>4, <1>5, <2>2
  <2> HIDE DEF held
  <2>4. CASE Len(held(n)) > TransformDelay
    <3>1. held(n) # << >>
      BY <2>3, <2>4, AudioTranscoderAssumption, EmptySeq DEF Holds
    <3> QED
      BY <1>1, <2>1, <2>3, <2>4, <3>1, OutputHands
  <2>5. CASE ~(Len(held(n)) > TransformDelay)
    <3>1. stage' = [stage EXCEPT ![e].held = held(n)] /\ pc' = pc /\ got' = Nothing
      BY <2>1, <2>5 DEF Stay
    <3> QED
      BY <1>1, <2>3, <3>1, SilentTransform
  <2> QED
    BY <1>1, <2>4, <2>5
<1>6. CASE TransformLosesPacket(e)
  <2>1. pc' = Caller(e) /\ got' = Later
    BY <1>6 DEF TransformLosesPacket, Give
  <2>2. CASE stage' = stage
    <3>1. stage' = [stage EXCEPT ![e].held = stage[e].held]
      BY <2>2 DEF AllSound, StageType, Setup
    <3>2. Holds(e, stage[e].held)
      BY <1>2 DEF Holds
    <3> QED
      BY <1>1, <2>1, <3>1, <3>2, SilentTransform
  <2>3. CASE stage' = [stage EXCEPT ![e].held = Append(@, Transformed(e, got))]
    <3>1. stage' = [stage EXCEPT ![e].held = Append(stage[e].held, Transformed(e, got))]
      BY <2>3 DEF AllSound, StageType, Setup
    <3> QED
      BY <1>1, <1>4, <1>6, <2>1, <3>1, SilentTransform
  <2> QED
    BY <1>1, <1>6, <2>2, <2>3 DEF TransformLosesPacket
<1> QED
  BY <1>1, <1>3, <1>5, <1>6

LEMMA PassesHand ==
  ASSUME SourceType, AllSound, UNCHANGED <<decoderVars, client, made>>,
         Resample \/ \E e \in AudioElement : PassOther(e)
  PROVE  pc \in AudioElement /\ Hands
<1>1. /\ pc \in AudioElement /\ IsPacket(got) /\ pc' = Caller(pc) /\ UNCHANGED <<camera, source, queue, stage>>
      /\ \/ pc = "resample" /\ Works(pc) /\ Audible(got) /\ got' \in {Transformed(pc, got), Error}
         \/ (~Works(pc) \/ ~Audible(got)) /\ got' = got
  BY DEF Resample, PassOther, Gets, Give, Idle, transcoderVars, AudioElement, Audible
<1>2. pc \in {"encode", "resample", "expand", "queue"} /\ pc # "queue" /\ stage.encode.on /\ Reads
  BY <1>1, AtElement DEF AudioElement, Reads
<1>3. Kept /\ Queued
  BY <1>1, UnchangedKeeps DEF Kept, Queued, source, made
<1>4. Wears /\ Held /\ stage'["encode"].last = stage["encode"].last
  BY <1>1, StagesStay
<1>5. Goes
  BY <1>1, <1>2, GoesOn
<1>6. CASE ~Audible(got')
  BY <1>1, <1>2, <1>3, <1>4, <1>5, <1>6, SilentHands
<1>7. /\ pc' # "expand" /\ pc' # "queue" /\ (pc' = "client" <=> pc = "encode")
      /\ (pc = "resample" => pc' = "encode" /\ Chained) /\ (pc = "expand" => Chained)
  BY <1>1, <1>2, Neighbours, AtElement DEF AudioElement
<1>8. CASE Audible(got') /\ pc = "resample" /\ got' = Transformed(pc, got) /\ Audible(got)
  <2>1. /\ Transformed(pc, got) \in Sound
        /\ Chained /\ Working /\ stage.encode.dst = "aac" => Transformed(pc, got).codec = "linear"
    BY <1>1, <1>8, TransformedIs DEF Makes
  <2>2. Taken
    BY <1>2, <1>7, <1>8, <2>1, AtElement DEF Taken
  <2>3. Chained /\ Working /\ stage.encode.dst = "aac" => OfCodec(got', "linear")
    BY <1>8, <2>1 DEF OfCodec
  <2> QED
    BY <1>1, <1>2, <1>3, <1>4, <1>5, <1>7, <1>8, <2>2, <2>3, PassedHands
<1>9. CASE Audible(got') /\ ~Works(pc) /\ got' = got
  <2>1. Taken
    <3>1. Alone => OfSource(got)
      BY <1>2 DEF AllSound, SourceSound
    <3>2. got \in Sound
      BY <1>9 DEF AllSound, StageType
    <3> QED
      BY <1>7, <1>9, <3>1, <3>2 DEF Taken
  <2>2. ~(Chained /\ Working /\ stage.encode.dst = "aac")
    <3> SUFFICES ASSUME Chained, Working, stage.encode.dst = "aac" PROVE FALSE
      OBVIOUS
    <3>1. stage.encode.mode = "work" /\ stage.expand.mode = "work" /\ (stage.resample.on => stage.resample.mode = "work")
      BY DEF Chained, Working, Had, NotHad
    <3>2. pc = "resample" => stage.resample.on
      BY <1>2, AtElement
    <3> QED
      BY <1>1, <1>9, <3>1, <3>2 DEF Works, AudioElement
  <2>3. pc' # "client" \/ ~Works("encode")
    BY <1>7, <1>9
  <2>4. Chained /\ Working /\ stage.encode.dst = "aac" =>
          /\ pc' \in {"resample", "encode"} => OfCodec(got', "linear")
          /\ pc' = "client" => OfCodec(got', "aac")
    BY <2>2
  <2>5. Audible(got') => pc' # "client" \/ ~Works("encode")
    BY <2>3
  <2>6. pc \in {"encode", "resample", "expand", "queue"}
    BY <1>2
  <2> QED
    BY <1>1, <1>3, <1>4, <1>5, <2>1, <2>4, <2>5, <2>6, PassedHands
<1> QED
  BY <1>1, <1>6, <1>8, <1>9, SilentIsNothing

LEMMA QueueHands ==
  ASSUME SourceType, AllSound, UNCHANGED <<decoderVars, client, made>>, ReadQueue
  PROVE  pc = "queue" /\ Hands
<1>1. /\ pc = "queue" /\ pc' = Caller("queue") /\ UNCHANGED <<camera, source, stage>>
      /\ \/ queue # << >> /\ queue' = Tail(queue) /\ got' = Head(queue)
         \/ queue' = queue /\ got' \in {Error, Later}
  BY DEF ReadQueue, Runs, Give
<1>2. pc \in {"encode", "resample", "expand", "queue"} /\ stage.encode.on /\ Reads
  BY <1>1, AtElement DEF Reads
<1>3. Kept /\ Queued
  BY <1>1, UnchangedKeeps DEF Kept, Queued, source, made
<1>4. Wears /\ Held /\ stage'["encode"].last = stage["encode"].last
  BY <1>1, StagesStay
<1>5. Goes
  BY <1>1, <1>2, GoesOn
<1>6. CASE queue' = queue /\ got' \in {Error, Later}
  BY <1>1, <1>2, <1>3, <1>4, <1>5, <1>6, SilentHands, SilentIsNothing
<1>7. CASE queue # << >> /\ queue' = Tail(queue) /\ got' = Head(queue)
  <2>1. queue \in Seq(Packet) /\ \A i \in DOMAIN queue : OfSource(queue[i])
    BY <1>2 DEF AllSound, SourceSound
  <2>2. Head(queue) = queue[1] /\ 1 \in DOMAIN queue
    BY <1>7, <2>1, HeadTailProperties, EmptySeq
  <2>3. OfSource(got')
    BY <1>7, <2>1, <2>2
  <2>4. Taken
    BY <2>3 DEF Taken, OfSource
  <2>5. pc' # "client"
    BY <1>1, <1>2, Neighbours
  <2>6. Chained => pc' = "expand"
    BY <1>1, <1>2, Neighbours DEF Chained
  <2> QED
    BY <1>1, <1>2, <1>3, <1>4, <1>5, <2>4, <2>5, <2>6, PassedHands
<1> QED
  BY <1>1, <1>6, <1>7

LEMMA TranscoderKeepsSound ==
  ASSUME SourceType, ~Viewing, AllSound, TranscoderNext, UNCHANGED <<decoderVars, client, made>> PROVE AllSound'
<1>1. CASE OpenTranscoder
  BY <1>1, OpenedKeepsSound
<1>2. CASE TranscoderSourceFails
  BY <1>2, ClosedKeepsSound
<1>3. CASE Resample
  <2>1. pc \in AudioElement /\ Hands
    BY <1>3, PassesHand
  <2> QED
    BY <2>1, AtElement, HandsKeepsSound DEF AudioElement
<1>4. CASE ReadQueue
  <2>1. pc = "queue" /\ Hands
    BY <1>4, QueueHands
  <2> QED
    BY <2>1, AtElement, HandsKeepsSound
<1>5. ASSUME NEW e \in AudioElement,
             \/ CallBelow(e) \/ TransformPending(e) \/ TransformPacket(e) \/ TransformLosesPacket(e) \/ TransformFails(e)
             \/ PassOther(e) \/ PassNone(e)
      PROVE  AllSound'
  <2>1. pc \in AudioElement /\ Hands
    BY <1>5, CallsHands, CodersHand, PassesHand
  <2> QED
    BY <2>1, AtElement, HandsKeepsSound DEF AudioElement
<1> QED
  BY <1>1, <1>2, <1>3, <1>4, <1>5 DEF TranscoderNext, AudioElement

LEMMA SoundStep ==
  ASSUME SourceType, RecordInv, OneSound, SoundInv, [Next]_vars PROVE SoundInv'
<1> SUFFICES ASSUME ~Viewing' PROVE AllSound'
  BY DEF SoundInv
<1>1. ~Viewing /\ AllSound
  <2>1. camera' = camera
    BY SourceOrKept, SourceAnswers DEF SourceKept, Answers
  <2> QED
    BY <2>1 DEF Viewing, SoundInv
<1>2. camera.chain = "record" /\ RecordingStep
  BY <1>1, RecordingSteps
<1>3. CASE OpenFeed \/ FeedOpened \/ Read \/ RecordedAll \/ Flush
  BY <1>1, <1>3, CallsKeepSound
<1>4. CASE Split
  BY <1>1, <1>4, SplitKeepsSound
<1>5. CASE Record
  BY <1>1, <1>5, RecordKeepsSound
<1>6. CASE CloseFeed
  BY <1>1, <1>6, ClosedKeepsSound
<1>7. CASE SourceNext /\ UNCHANGED <<elements, client, made>>
  BY <1>1, <1>2, <1>7, SourceKeepsSound
<1>8. CASE TranscoderNext /\ UNCHANGED <<decoderVars, client, made>>
  BY <1>1, <1>8, TranscoderKeepsSound
<1>9. CASE UNCHANGED vars
  <2>1. UNCHANGED <<camera, pc, got, isOpen, chosen, firstFrame, stage, queue, sounds, client>>
    BY <1>9 DEF vars, sourceVars, source, transcoderVars, made
  <2>2. Named' <=> Named
    BY <2>1 DEF Named, ChosenStreams, InStreams, AnyVideo, OfSource, CodecOf
  <2>3. (Alone' <=> Alone) /\ (Chained' <=> Chained) /\ (Unstaged' <=> Unstaged) /\ (Reads' <=> Reads) /\ (Working' <=> Working)
    BY <2>1 DEF Alone, Chained, Had, NotHad, Unstaged, Reads, Working, CodecOf
  <2>4. StageType' /\ StageInv'
    BY <1>1, <2>1, <2>2, <2>3 DEF AllSound, StageType, StageInv
  <2>5. SourceSound' /\ CoderSound'
    BY <1>1, <2>1, <2>3 DEF AllSound, SourceSound, CoderSound, OfSource, OfCodec, CodecOf, FromEncoder
  <2>6. EncoderTimes' /\ SoundsInv'
    BY <1>1, <2>1, <2>3 DEF AllSound, EncoderTimes, SoundsInv, FromEncoder, Works
  <2> QED
    BY <2>4, <2>5, <2>6 DEF AllSound
<1> QED
  BY <1>2, <1>3, <1>4, <1>5, <1>6, <1>7, <1>8, <1>9 DEF RecordingStep

LEMMA InitSound == Init => SoundInv
<1> SUFFICES ASSUME Init PROVE AllSound
  BY DEF SoundInv
<1>1. /\ client = "new" /\ pc = "client" /\ got = Nothing /\ ~isOpen /\ firstFrame = None
      /\ sounds = << >> /\ queue = << >> /\ stage = [e \in {"encode", "resample", "expand"} |-> NoStage]
  BY DEF Init, SourceInit, TranscoderInit
<1>2. Unstaged /\ \A e \in Coders : stage[e].held = << >>
  BY <1>1 DEF Unstaged, AudioElement, Coders, NoStage
<1>3. NoStage \in Setup
  <2>1. << >> \in Seq(Sound) /\ None \in Int \cup {None}
    OBVIOUS
  <2> QED
    BY <2>1 DEF NoStage, Setup, Codecs
<1>4. StageType
  BY <1>1, <1>3, SilentIsNothing DEF StageType, AudioElement
<1>5. Named
  BY <1>1 DEF Named, Known
<1>6. StageInv
  BY <1>1, <1>2, <1>5 DEF StageInv
<1>7. SourceSound /\ CoderSound /\ EncoderTimes
  BY <1>1 DEF SourceSound, CoderSound, EncoderTimes, Reads
<1>8. SoundsInv
  <2>1. sounds \in Seq(SoundsMade) /\ DOMAIN sounds = {}
    BY <1>1
  <2> QED
    BY <1>1, <1>2, <2>1 DEF SoundsInv
<1> QED
  BY <1>4, <1>6, <1>7, <1>8 DEF AllSound

\* What a recording announces is what is written to it: its sound is of the codec the encoder names to
\* the file, and where it was encoded its times increase, whichever of the decoder, the resampler and
\* the encoder could be had, for every camera whose live555 session has its sound in one codec
\* (stream_mediafoundation_decoder.cpp, stream_audio_resample.cpp, splitter_stream.cpp).
THEOREM AudioIsAsAnnouncedHolds ==
  ASSUME \A c \in Cameras : OneKindOfSound(c)
  PROVE  Spec => []AudioIsAsAnnounced
<1> DEFINE Inv == SourceType /\ RecordInv /\ SoundInv
<1>1. Init => Inv
  BY InitSourceType, InitView, InitSound
<1>2. Inv /\ [Next]_vars => Inv'
  <2> SUFFICES ASSUME Inv, [Next]_vars PROVE Inv'
    OBVIOUS
  <2>1. OneSound
    BY DEF SourceType, OneKindOfSound, OneSound
  <2>2. SoundInv'
    BY <2>1, SoundStep
  <2> QED
    BY <2>2, SourceOrKept, SourceStepType, KeptSourceType, RecordStep
<1>3. Inv => AudioIsAsAnnounced
  BY DEF SoundInv, AllSound, SoundsInv, AudioIsAsAnnounced
<1> QED
  BY <1>1, <1>2, <1>3, PTL DEF Spec
===============================================================================
