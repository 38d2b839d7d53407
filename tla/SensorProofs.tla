---------------------------- MODULE SensorProofs ----------------------------
(***************************************************************************)
(* A slow answer of the particle sensor spoils the reading it belongs to   *)
(* and no later one.                                                       *)
(***************************************************************************)
EXTENDS ParticleSensor, SequenceTheorems, TLAPS

Parts == [of : Answers, part : {"head", "tail"}]

Control ==
    /\ s_mode \in {"MOBILE", "STATIONARY"} /\ reading \in {0, 1} /\ slow \in BOOLEAN
    /\ pc \in {"idle", "send", "wait"}
    /\ pc # "idle" => field \in DOMAIN Values
    /\ d = [k \in DOMAIN Values |-> d[k]]
    /\ resp \in Seq(Parts) /\ rx \in Seq(Parts) /\ owed \in Seq(Parts)
    /\ pc # "wait" => resp = << >>

\* While the sensor has kept the code's times, what a transaction has received,
\* what waits in the FIFO and what is still to come are together one reply to its
\* own request, and the sensor owes nothing when it ends.
OneReply ==
    ~slow =>
        /\ pc # "wait" => owed = << >>
        /\ pc = "wait" => resp \o rx \o owed \in Replies(Reg(field))

SensorInv == Control /\ OneReply /\ RightUnlessSlow

-----------------------------------------------------------------------------
(* Registers and replies. *)

\* The register of a value is one of the sensor's, and names the value.
LEMMA RegNames ==
    ASSUME s_mode \in {"MOBILE", "STATIONARY"}, NEW k \in DOMAIN Values
    PROVE  /\ Reg(k)[1] = Values[k]
           /\ Reg(k) \in (PM \X {"MOBILE", "STATIONARY"})
                            \cup ({"status", "temperature", "humidity"} \X {"any"})
  <1>1. Values[k] \in PM \cup {"status", "temperature", "humidity"}
    BY DEF Values, PM
  <1>2. CASE Values[k] \in PM
    BY <1>2 DEF Reg
  <1>3. CASE Values[k] \notin PM
    BY <1>1, <1>3 DEF Reg
  <1> QED BY <1>2, <1>3

LEMMA AnswerType ==
    ASSUME Control, NEW k \in DOMAIN Values
    PROVE  Answer(Reg(k)) \in Answers /\ None \in Answers
  <1>1. Reg(k) \in (PM \X {"MOBILE", "STATIONARY"})
                            \cup ({"status", "temperature", "humidity"} \X {"any"})
    BY RegNames DEF Control
  <1> QED BY <1>1 DEF Answer, Answers, Control

\* A reply is nothing, or a head and a tail.
LEMMA ReplyShape ==
    ASSUME Control, NEW k \in DOMAIN Values, NEW r \in Replies(Reg(k))
    PROVE  /\ r \in Seq(Parts)
           /\ r # << >> => Len(r) = 2 /\ r[2].part = "tail"
           /\ r = << >> \/ r = Frame(None) \/ r = Frame(Answer(Reg(k)))
  <1>1. \A a \in Answers : Frame(a) \in Seq(Parts) /\ Len(Frame(a)) = 2 /\ Frame(a)[2].part = "tail"
    BY DEF Frame, Parts
  <1>2. r = << >> \/ r = Frame(None) \/ r = Frame(Answer(Reg(k)))
    BY DEF Replies
  <1>3. << >> \in Seq(Parts)
    OBVIOUS
  <1> QED BY <1>1, <1>2, <1>3, AnswerType

\* A frame says what it is about, whatever it is.
LEMMA FrameOf == \A a : Frame(a)[1].of = a
  BY DEF Frame

\* What was received, what waits and what is to come may be joined in any order.
LEMMA PartsAssociative ==
    ASSUME NEW s \in Seq(Parts), NEW t \in Seq(Parts), NEW u \in Seq(Parts)
    PROVE  (s \o t) \o u = s \o (t \o u)
  BY ConcatAssociative

-----------------------------------------------------------------------------
(* The end of a transaction. *)

LEMMA NextFieldOk ==
    ASSUME NEW k \in DOMAIN Values
    PROVE  NextField(k) = 0 \/ NextField(k) \in DOMAIN Values
  <1>1. Len(Values) = 6 /\ DOMAIN Values = 1..6
    BY DEF Values
  <1> QED BY <1>1 DEF NextField

LEMMA ConcludeControl ==
    ASSUME Control, pc = "wait", Conclude, slow' \in BOOLEAN
    PROVE  Control' /\ pc' # "wait"
  <1>1. field \in DOMAIN Values
    BY DEF Control
  <1>2. field' = 0 \/ field' \in DOMAIN Values
    BY <1>1, NextFieldOk DEF Conclude
  <1>3. d' = [k \in DOMAIN Values |-> d'[k]]
    BY DEF Conclude, Control
  <1>4. resp' = << >> /\ << >> \in Seq(Parts)
    BY DEF Conclude
  <1>5. pc' \in {"idle", "send"} /\ (pc' # "idle" => field' # 0)
    BY DEF Conclude
  <1> QED BY <1>2, <1>3, <1>4, <1>5 DEF Conclude, Control, wire

\* A transaction that received its own reply, whole, takes from it a right value
\* or none.
LEMMA ConcludeRight ==
    ASSUME Control, pc = "wait", Conclude, resp \in Replies(Reg(field)),
           \A k \in DOMAIN Values : Right(k)
    PROVE  \A k \in DOMAIN Values : Right(k)'
  <1> DEFINE a == Answer(Reg(field))
  <1>1. field \in DOMAIN Values
    BY DEF Control
  <1>2. reading' = reading
    BY DEF Conclude
  <1>3. CASE Accepted
    <2>1. d' = [d EXCEPT ![field] = resp[1].of]
      BY <1>3 DEF Conclude
    <2>2. resp[1].of = a
      <3>1. resp # << >> /\ resp[1].of # None
        <4>1. Len(resp) = 2 /\ resp[1].of # None
          BY <1>3 DEF Accepted
        <4>2. Len(<< >>) = 0
          OBVIOUS
        <4> QED BY <4>1, <4>2
      <3>2. resp = << >> \/ resp = Frame(None) \/ resp = Frame(a)
        BY <1>1, ReplyShape
      <3> HIDE DEF a
      <3> QED BY <3>1, <3>2, FrameOf
    <2>3. a.reading = reading /\ a.reg[1] = Values[field]
      <3>1. Reg(field)[1] = Values[field]
        BY <1>1, RegNames DEF Control
      <3> QED BY <3>1 DEF Answer
    <2>4. \A k \in DOMAIN Values : d'[k] = IF k = field THEN a ELSE d[k]
      <3> HIDE DEF a
      <3> QED BY <2>1, <2>2 DEF Control
    <2> HIDE DEF a
    <2> QED BY <2>3, <2>4, <1>2 DEF Right
  <1>4. CASE ~Accepted
    BY <1>2, <1>4 DEF Conclude, Right
  <1> QED BY <1>3, <1>4

\* Nothing is owed when a silence ends a transaction, unless it fell inside a
\* frame: then what was received is the reply.
LEMMA SilenceEnds ==
    ASSUME Control, OneReply, Silence, ~slow'
    PROVE  owed = << >> /\ resp \in Replies(Reg(field))
  <1>1. ~slow /\ pc = "wait" /\ rx = << >> /\ resp # << >>
    BY DEF Silence
  <1>2. owed = << >> \/ Head(owed).part # "tail"
    BY DEF Silence
  <1>3. field \in DOMAIN Values /\ resp \in Seq(Parts) /\ owed \in Seq(Parts)
    BY <1>1 DEF Control
  <1> DEFINE r == resp \o owed
  <1>4. r \in Replies(Reg(field))
    <2>1. resp \o << >> = resp
      BY <1>3, ConcatEmptySeq
    <2> QED BY <1>1, <2>1 DEF OneReply
  <1>5. owed = << >>
    <2> SUFFICES ASSUME owed # << >> PROVE FALSE
      OBVIOUS
    <2>1. /\ Len(r) = Len(resp) + Len(owed)
          /\ \A i \in 1..Len(resp) + Len(owed) :
                r[i] = IF i <= Len(resp) THEN resp[i] ELSE owed[i - Len(resp)]
      BY <1>3, ConcatProperties
    <2>2. Len(resp) \in Nat \ {0} /\ Len(owed) \in Nat \ {0}
      BY <1>1, <1>3, EmptySeq
    <2>3. r = << >> \/ (Len(r) = 2 /\ r[2].part = "tail")
      BY <1>3, <1>4, ReplyShape
    <2>4. Len(r) # 0
      <3> HIDE DEF r
      <3> QED BY <2>1, <2>2
    <2>5. Len(resp) = 1 /\ Len(owed) = 1 /\ r[2].part = "tail"
      <3> HIDE DEF r
      <3> QED BY <2>1, <2>2, <2>3, <2>4
    <2>6. r[2] = owed[1]
      <3> HIDE DEF r
      <3> QED BY <2>1, <2>5
    <2>7. Head(owed) = owed[1]
      BY <1>3, <2>2
    <2> QED BY <1>2, <2>5, <2>6, <2>7
  <1>6. r = resp
    BY <1>3, <1>5, ConcatEmptySeq
  <1> QED BY <1>4, <1>5, <1>6

-----------------------------------------------------------------------------
(* The invariant. *)

LEMMA SensorInit == Init => SensorInv
  <1> SUFFICES ASSUME Init PROVE SensorInv
    OBVIOUS
  <1>1. Control
    <2>1. d = [k \in DOMAIN Values |-> d[k]]
      BY DEF Init
    <2>2. << >> \in Seq(Parts)
      OBVIOUS
    <2> QED BY <2>1, <2>2 DEF Init, Control
  <1>2. OneReply /\ RightUnlessSlow
    BY DEF Init, OneReply, RightUnlessSlow, Right
  <1> QED BY <1>1, <1>2 DEF SensorInv

LEMMA SensorNext == SensorInv /\ [Next]_vars => SensorInv'
  <1> SUFFICES ASSUME SensorInv, [Next]_vars PROVE SensorInv'
    OBVIOUS
  <1>0. Control /\ OneReply /\ RightUnlessSlow
    BY DEF SensorInv
  <1>1. CASE SetMode
    <2>1. Control'
      BY <1>0, <1>1 DEF SetMode, Control, wire
    <2>2. OneReply' /\ RightUnlessSlow'
      BY <1>0, <1>1 DEF SetMode, OneReply, RightUnlessSlow, Right, wire
    <2> QED BY <2>1, <2>2 DEF SensorInv
  <1>2. CASE StartReading
    <2>1. 1 \in DOMAIN Values
      BY DEF Values
    <2>2. Control'
      <3>1. d' = [k \in DOMAIN Values |-> d'[k]]
        BY <1>2 DEF StartReading
      <3>2. reading' \in {0, 1}
        BY <1>0, <1>2 DEF StartReading, Control
      <3> QED BY <1>0, <1>2, <2>1, <3>1, <3>2 DEF StartReading, Control, wire
    <2>3. OneReply' /\ RightUnlessSlow'
      BY <1>2 DEF StartReading, OneReply, RightUnlessSlow, Right, wire
    <2> QED BY <2>2, <2>3 DEF SensorInv
  <1>3. CASE Send
    <2>1. field \in DOMAIN Values /\ resp = << >>
      BY <1>0, <1>3 DEF Send, Control
    <2>2. PICK r \in Replies(Reg(field)) : owed' = owed \o r
      BY <1>3 DEF Send
    <2>3. r \in Seq(Parts)
      BY <1>0, <2>1, ReplyShape
    <2>4. owed' \in Seq(Parts)
      BY <1>0, <2>2, <2>3, ConcatProperties DEF Control
    <2>5. rx' = << >> /\ pc' = "wait" /\ UNCHANGED <<s_mode, field, d, resp, reading, slow>>
      BY <1>3 DEF Send, Flushed
    <2>6. << >> \in Seq(Parts)
      OBVIOUS
    <2>7. Control'
      BY <1>0, <2>1, <2>4, <2>5, <2>6 DEF Control
    <2>8. ~slow => resp' \o rx' \o owed' = r
      <3> SUFFICES ASSUME ~slow PROVE resp' \o rx' \o owed' = r
        OBVIOUS
      <3>1. owed = << >>
        BY <1>0, <1>3 DEF OneReply, Send
      <3>2. owed' = r
        BY <2>2, <2>3, <3>1, ConcatEmptySeq
      <3>3. resp' \o rx' = << >>
        BY <2>1, <2>5, <2>6, ConcatEmptySeq
      <3> QED BY <2>3, <3>2, <3>3, ConcatEmptySeq
    <2>9. OneReply'
      BY <2>5, <2>8 DEF OneReply, Replies, Reg, Answer
    <2>10. RightUnlessSlow'
      BY <1>0, <2>5 DEF RightUnlessSlow, Right
    <2> QED BY <2>7, <2>9, <2>10 DEF SensorInv
  <1>4. CASE Arrive
    <2>1. /\ owed # << >> /\ rx' = Append(rx, Head(owed)) /\ owed' = Tail(owed)
          /\ UNCHANGED <<s_mode, pc, field, d, resp, reading, slow>>
      BY <1>4 DEF Arrive
    <2>2. resp \in Seq(Parts) /\ rx \in Seq(Parts) /\ owed \in Seq(Parts)
      BY <1>0 DEF Control
    <2> DEFINE h == <<Head(owed)>>
    <2>3. /\ h \in Seq(Parts) /\ owed' \in Seq(Parts)
          /\ rx' = rx \o h /\ rx' \in Seq(Parts)
          /\ owed = h \o owed'
      <3>1. Head(owed) \in Parts /\ Tail(owed) \in Seq(Parts)
        BY <2>1, <2>2, HeadTailProperties
      <3>2. rx' = rx \o h /\ rx' \in Seq(Parts)
        BY <2>1, <2>2, <3>1
      <3>3. owed = h \o Tail(owed)
        BY <2>1, <2>2, <3>1
      <3> QED BY <2>1, <3>1, <3>2, <3>3
    <2>4. Control'
      BY <1>0, <2>1, <2>3 DEF Control
    <2>5. resp \o rx' \o owed' = resp \o rx \o owed
      <3> HIDE DEF h
      <3>1. resp \o rx' = (resp \o rx) \o h
        <4>1. (resp \o rx) \o h = resp \o (rx \o h)
          BY <2>2, <2>3, PartsAssociative
        <4> QED BY <2>3, <4>1
      <3>2. resp \o rx \in Seq(Parts)
        BY <2>2, ConcatProperties
      <3>3. ((resp \o rx) \o h) \o owed' = (resp \o rx) \o (h \o owed')
        BY <3>2, <2>3, PartsAssociative
      <3> QED BY <3>1, <3>3, <2>3
    <2>6. OneReply'
      BY <1>0, <2>1, <2>5 DEF OneReply, Replies, Reg, Answer
    <2>7. RightUnlessSlow'
      BY <1>0, <2>1 DEF RightUnlessSlow, Right
    <2> QED BY <2>4, <2>6, <2>7 DEF SensorInv
  <1>5. CASE Take
    <2>1. /\ pc = "wait" /\ resp' = resp \o rx /\ rx' = << >>
          /\ UNCHANGED <<s_mode, pc, field, d, owed, reading, slow>>
      BY <1>5 DEF Take
    <2>2. resp' \in Seq(Parts) /\ << >> \in Seq(Parts)
      BY <1>0, <2>1, ConcatProperties DEF Control
    <2>3. Control'
      BY <1>0, <2>1, <2>2 DEF Control
    <2>4. resp' \o rx' = resp \o rx
      BY <2>1, <2>2, ConcatEmptySeq
    <2>5. OneReply'
      BY <1>0, <2>1, <2>4 DEF OneReply, Replies, Reg, Answer
    <2>6. RightUnlessSlow'
      BY <1>0, <2>1 DEF RightUnlessSlow, Right
    <2> QED BY <2>3, <2>5, <2>6 DEF SensorInv
  <1>6. CASE Silence
    <2>1. pc = "wait" /\ Conclude /\ slow' \in BOOLEAN /\ (slow => slow')
      BY <1>0, <1>6 DEF Silence, Control
    <2>2. Control' /\ pc' # "wait"
      BY <1>0, <2>1, ConcludeControl
    <2>3. CASE slow'
      BY <2>2, <2>3 DEF SensorInv, OneReply, RightUnlessSlow
    <2>4. CASE ~slow'
      <3>1. owed = << >> /\ resp \in Replies(Reg(field))
        BY <1>0, <1>6, <2>4, SilenceEnds
      <3>2. \A k \in DOMAIN Values : Right(k)'
        BY <1>0, <2>1, <2>4, <3>1, ConcludeRight DEF RightUnlessSlow
      <3>3. owed' = << >>
        BY <2>1, <3>1 DEF Conclude, wire
      <3> QED BY <2>2, <3>2, <3>3 DEF SensorInv, OneReply, RightUnlessSlow
    <2> QED BY <2>3, <2>4
  <1>7. CASE Timeout
    <2>1. /\ pc = "wait" /\ Conclude /\ slow' \in BOOLEAN /\ (slow => slow')
          /\ resp = << >> /\ (~slow' => owed = << >>)
      BY <1>0, <1>7 DEF Timeout, Control
    <2>2. Control' /\ pc' # "wait"
      BY <1>0, <2>1, ConcludeControl
    <2>3. CASE slow'
      BY <2>2, <2>3 DEF SensorInv, OneReply, RightUnlessSlow
    <2>4. CASE ~slow'
      <3>1. \A k \in DOMAIN Values : Right(k)'
        <4>1. resp \in Replies(Reg(field))
          BY <2>1 DEF Replies
        <4> QED BY <1>0, <2>1, <2>4, <4>1, ConcludeRight DEF RightUnlessSlow
      <3>2. owed' = << >>
        BY <2>1, <2>4 DEF Conclude, wire
      <3> QED BY <2>2, <3>1, <3>2 DEF SensorInv, OneReply, RightUnlessSlow
    <2> QED BY <2>3, <2>4
  <1>8. CASE UNCHANGED vars
    <2>1. UNCHANGED <<s_mode, pc, field, d, resp, rx, owed, reading, slow>>
      BY <1>8 DEF vars, wire
    <2> QED BY <1>0, <2>1 DEF SensorInv, Control, OneReply, RightUnlessSlow, Right,
                                Replies, Reg, Answer
  <1> QED BY <1>1, <1>2, <1>3, <1>4, <1>5, <1>6, <1>7, <1>8 DEF Next

-----------------------------------------------------------------------------

\* In a reading in which the sensor kept the code's times, every value is the
\* answer to its own request: wherever the sensor may pause, whatever is lost or
\* garbled, and whatever an earlier reading left behind.
THEOREM RightReadings == Spec => []RightUnlessSlow
  <1>1. SensorInv => RightUnlessSlow
    BY DEF SensorInv
  <1> QED BY <1>1, SensorInit, SensorNext, PTL DEF Spec

-----------------------------------------------------------------------------
(* Types. *)

\* The values taken are answers, and a value is being read except between two
\* readings.
Taken == d \in [DOMAIN Values -> Answers] /\ (field = 0 <=> pc = "idle")

LEMMA ConcludeTaken ==
    ASSUME Control, Taken, pc = "wait", Conclude
    PROVE  Taken'
  <1>1. field \in DOMAIN Values
    BY DEF Control
  <1>2. CASE Accepted
    <2>1. Len(resp) = 2 /\ resp \in Seq(Parts)
      BY <1>2 DEF Accepted, Control
    <2>2. resp[1] \in Parts
      BY <2>1
    <2>3. resp[1].of \in Answers
      BY <2>2 DEF Parts
    <2>4. d' = [d EXCEPT ![field] = resp[1].of]
      BY <1>2 DEF Conclude
    <2>5. d' \in [DOMAIN Values -> Answers]
      BY <1>1, <2>3, <2>4 DEF Taken
    <2> QED BY <2>5 DEF Conclude, Taken
  <1>3. CASE ~Accepted
    BY <1>3 DEF Conclude, Taken
  <1> QED BY <1>2, <1>3

LEMMA TakenStep == SensorInv /\ Taken /\ [Next]_vars => Taken'
  <1> SUFFICES ASSUME SensorInv, Taken, [Next]_vars PROVE Taken'
    OBVIOUS
  <1>1. CASE StartReading
    <2>1. None \in Answers
      BY DEF Answers
    <2> QED BY <1>1, <2>1 DEF StartReading, Taken
  <1>2. CASE Silence \/ Timeout
    BY <1>2, ConcludeTaken DEF SensorInv, Silence, Timeout
  <1>3. CASE Send
    BY <1>3 DEF Send, Taken
  <1>4. CASE SetMode \/ Arrive \/ Take \/ UNCHANGED vars
    BY <1>4 DEF SetMode, Arrive, Take, vars, wire, Taken
  <1> QED BY <1>1, <1>2, <1>3, <1>4 DEF Next

\* Every variable has its type: the values of a reading are answers of the sensor
\* or none, and what is on the wire is parts of answers.
THEOREM TypeCorrect == Spec => []TypeOK
  <1>1. Init => Taken
    BY DEF Init, Taken, Answers
  <1>2. SensorInv /\ Taken => TypeOK
    <2> SUFFICES ASSUME SensorInv, Taken PROVE TypeOK
      OBVIOUS
    <2>1. Len(Values) = 6 /\ DOMAIN Values = 1..6
      BY DEF Values
    <2>2. field \in 0..Len(Values)
      BY <2>1 DEF SensorInv, Control, Taken
    <2>3. ASSUME NEW q \in Seq(Parts), NEW i \in DOMAIN q
          PROVE  q[i].of \in Answers /\ q[i].part \in {"head", "tail"}
      <3>1. q[i] \in Parts
        BY <2>3
      <3> QED BY <3>1 DEF Parts
    <2>4. \A q \in {resp, rx, owed} : q \in Seq(Parts)
      BY DEF SensorInv, Control
    <2> QED BY <2>2, <2>3, <2>4 DEF SensorInv, Control, Taken, TypeOK
  <1> QED BY <1>1, <1>2, SensorInit, SensorNext, TakenStep, PTL DEF Spec
=============================================================================
