--------------------------- MODULE ParticleSensor ---------------------------
(***************************************************************************)
(* The NextPM particle sensor (sensors/nextpm.cpp): a reading is a row of  *)
(* Modbus transactions over one UART, each a request and the bytes that    *)
(* follow it until a silence or a timeout.                                 *)
(*                                                                         *)
(* An answer does not say which register it is about.  It comes in two     *)
(* parts here, so that a silence can fall inside it, and carries, for the  *)
(* properties only, its register and the reading that asked for it.        *)
(***************************************************************************)
EXTENDS Naturals, Sequences

CONSTANT
    Pauses    \* where the sensor may be slower than the code waits for it:
              \* before an answer (500 ms), inside one (5 ms)

ASSUME PausesAssumption == Pauses \subseteq {"before", "inside"}

VARIABLES
    s_mode,         \* device_mode: it selects the registers
    pc,             \* "idle", "send" or "wait"
    field,          \* the value being read, 0 between two readings
    d,              \* read()'s result: per value, the answer it was taken from
    resp,           \* what the running transaction has received
    rx,             \* the receive FIFO
    owed,           \* what the sensor has yet to send
    reading,        \* ghost: the parity of the reading
    slow            \* ghost: the sensor was too slow in this reading

wire == <<rx, owed>>
vars == <<s_mode, pc, field, d, resp, wire, reading, slow>>

Values == <<"status", "pm1", "pm25", "pm10", "temperature", "humidity">>
PM == {"pm1", "pm25", "pm10"}

\* Registers: those of PM are averages over the mode's interval, and take two
\* words.
Reg(k) == IF Values[k] \in PM THEN <<Values[k], s_mode>> ELSE <<Values[k], "any">>
Count(reg) == IF reg[1] \in PM THEN 2 ELSE 1

None == [reg |-> <<"none", "any">>, reading |-> 0]    \* no answer, no value
Answer(reg) == [reg |-> reg, reading |-> reading]
Frame(a) == << [of |-> a, part |-> "head"], [of |-> a, part |-> "tail"] >>

\* What can come of a request: the answer; one that is garbled, or a Modbus
\* exception; or nothing.
Replies(reg) == {Frame(Answer(reg)), Frame(None), << >>}

Init ==
    /\ s_mode = "STATIONARY"
    /\ pc = "idle"
    /\ field = 0
    /\ d = [k \in DOMAIN Values |-> None]
    /\ resp = << >>
    /\ rx = << >>
    /\ owed = << >>
    /\ reading = 0
    /\ slow = FALSE

\* device_mode::set, from a page, between two readings.
SetMode ==
    /\ pc = "idle"
    /\ s_mode' \in {"MOBILE", "STATIONARY"} \ {s_mode}
    /\ UNCHANGED <<pc, field, d, resp, wire, reading, slow>>

\* read() is called.  Ten seconds at least lie between two readings: all that the
\* sensor still had to send has come by then.
StartReading ==
    /\ pc = "idle"
    /\ owed = << >>
    /\ pc' = "send"
    /\ field' = 1
    /\ d' = [k \in DOMAIN Values |-> None]
    /\ reading' = 1 - reading
    /\ slow' = FALSE
    /\ UNCHANGED <<s_mode, resp, wire>>

-----------------------------------------------------------------------------
(* A transaction. *)

\* uart_flush_rx.  (Mutant: what came before the request stays.)
FlushedNot(q) == q
Flushed(q) == << >>

\* modbus_transaction: the FIFO is emptied and the request goes out.
Send ==
    /\ pc = "send"
    /\ rx' = Flushed(rx)
    /\ \E r \in Replies(Reg(field)) : owed' = owed \o r
    /\ pc' = "wait"
    /\ UNCHANGED <<s_mode, field, d, resp, reading, slow>>

\* The sensor sends on, whoever listens.
Arrive ==
    /\ owed # << >>
    /\ rx' = Append(rx, Head(owed))
    /\ owed' = Tail(owed)
    /\ UNCHANGED <<s_mode, pc, field, d, resp, reading, slow>>

\* modbus_transaction takes what has come.
Take ==
    /\ pc = "wait"
    /\ rx # << >>
    /\ resp' = resp \o rx
    /\ rx' = << >>
    /\ UNCHANGED <<s_mode, pc, field, d, owed, reading, slow>>

\* read_holding_registers accepts one frame, whole, with the right CRC and the
\* number of words it asked for.
Accepted ==
    /\ Len(resp) = 2
    /\ resp = Frame(resp[1].of)
    /\ resp[1].of # None
    /\ Count(resp[1].of.reg) = Count(Reg(field))

\* read() goes on to the next value.  (Mutant: it does not stop at the last.)
NextFieldOver(k) == IF k > Len(Values) THEN 0 ELSE k + 1
NextField(k) == IF k = Len(Values) THEN 0 ELSE k + 1

Conclude ==
    /\ d' = IF Accepted THEN [d EXCEPT ![field] = resp[1].of] ELSE d
    /\ field' = NextField(field)
    /\ pc' = IF field' = 0 THEN "idle" ELSE "send"
    /\ resp' = << >>
    /\ UNCHANGED <<s_mode, wire, reading>>

\* Five milliseconds of silence after something has come: between two frames,
\* or, if the sensor pauses there, inside one.
Silence ==
    LET inside == owed # << >> /\ Head(owed).part = "tail" IN
    /\ pc = "wait"
    /\ resp # << >> /\ rx = << >>
    /\ inside => "inside" \in Pauses
    /\ slow' = (slow \/ inside)
    /\ Conclude

\* 500 ms without an answer: there is none, or it comes later.  (Mutant: only a
\* silence ends a transaction.)
TimeoutNever == FALSE /\ Conclude /\ UNCHANGED slow
Timeout ==
    LET late == owed # << >> IN
    /\ pc = "wait"
    /\ resp = << >> /\ rx = << >>
    /\ late => "before" \in Pauses
    /\ slow' = (slow \/ late)
    /\ Conclude

Next ==
    \/ SetMode
    \/ StartReading
    \/ Send
    \/ Arrive
    \/ Take
    \/ Silence
    \/ Timeout

Spec == Init /\ [][Next]_vars

\* The processor goes on and its clock too; the sensor sends what it has begun
\* to send.
LiveSpec == Spec /\ WF_vars(Send \/ Take \/ Silence \/ Timeout) /\ WF_vars(Arrive)

-----------------------------------------------------------------------------
(* Properties. *)

\* Every variable has its type.
Answers == {None} \cup [reg : (PM \X {"MOBILE", "STATIONARY"})
                              \cup ({"status", "temperature", "humidity"} \X {"any"}),
                        reading : {0, 1}]
TypeOK ==
    /\ s_mode \in {"MOBILE", "STATIONARY"}
    /\ pc \in {"idle", "send", "wait"}
    /\ field \in 0..Len(Values) /\ (field = 0 <=> pc = "idle")
    /\ d \in [DOMAIN Values -> Answers]
    /\ \A q \in {resp, rx, owed} : \A i \in DOMAIN q :
          q[i].of \in Answers /\ q[i].part \in {"head", "tail"}
    /\ reading \in {0, 1}
    /\ slow \in BOOLEAN

\* The values that were asked for in the running reading, in its registers.
Right(k) == d[k] # None => d[k].reading = reading /\ d[k].reg[1] = Values[k]

\* A slow answer spoils the reading it belongs to and no later one: whatever is
\* lost, garbled or left over from before, a reading in which the sensor kept
\* the code's times has in every field the answer to its own request
\* (modbus_transaction, read_holding_registers, read).
RightUnlessSlow == ~slow => \A k \in DOMAIN Values : Right(k)

\* A reading ends, also when the sensor does not answer.
ReadingEnds == pc # "idle" ~> pc = "idle"
=============================================================================
