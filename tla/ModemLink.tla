----------------------------- MODULE ModemLink ------------------------------
(***************************************************************************)
(* AT commands to the LTE modem: send_at (modem.cpp) and the pages that    *)
(* use it (captive_portal.cpp).  A command is sent, and what the UART then *)
(* brings is its answer up to the first OK or ERROR, or to the timeout.    *)
(* Nothing in an answer says which command it is for.  The modem           *)
(* (external) answers when it likes, or not at all.                        *)
(***************************************************************************)
EXTENDS Integers, Sequences, FiniteSets, SequencesExt

CONSTANT MaxOwed    \* bound: parts of answers still on their way

ASSUME ModemAssumption == MaxOwed \in Nat \ 0..3

VARIABLES
    owed,      \* parts of answers the modem has yet to send, in order
    rx,        \* parts that arrived and were not read
    call,      \* the command send_at is waiting for, or "idle"
    resp,      \* its buffer
    late,      \* ghost: an earlier answer was still owed when it was sent
    answered,  \* ghost: the modem's answer to the last command
    page       \* what the last page says

modemVars == <<owed, rx, call, resp, late, answered, page>>

Commands == {"check", "modem", "sim", "led"}
Finals == {"OK", "ERROR"}
AnswersGiven == Finals \cup {"silent"}
Verdicts == {"none", "ok", "error"}
ModemParts == [what : Finals \cup {"text"}, own : BOOLEAN]

Part(what) == [what |-> what, own |-> TRUE]

\* An answer is text and OK, or ERROR, or nothing; the echo is part of the text.
Answer(result) ==
    CASE result = "OK" -> <<Part("text"), Part("OK")>>
      [] result = "ERROR" -> <<Part("ERROR")>>
      [] OTHER -> << >>

\* A new command: what came from earlier ones is no longer its own.
Older(parts) == [i \in DOMAIN parts |-> [parts[i] EXCEPT !.own = FALSE]]

-----------------------------------------------------------------------------
(* send_at *)

\* (Mutant: what arrived before the command is not thrown away.)
FlushedNever == Older(rx)
Flushed == << >>

\* The modem may drop an answer it was giving when a new command comes.
SendAt(cmd) ==
    /\ call = "idle"
    /\ Len(owed) + 2 <= MaxOwed
    /\ rx' = Flushed
    /\ resp' = << >>
    /\ call' = cmd
    /\ \E result \in AnswersGiven, old \in {Older(owed), << >>} :
          /\ owed' = old \o Answer(result)
          /\ answered' = result
          /\ late' = (old # << >>)
    /\ UNCHANGED page

\* The UART keeps up with a waiting send_at; what comes between two calls
\* is lost once the FIFO is full.
PartArrives ==
    /\ owed # << >>
    /\ owed' = Tail(owed)
    /\ \/ rx' = Append(rx, Head(owed))
       \/ call = "idle" /\ rx' = rx
    /\ UNCHANGED <<call, resp, late, answered, page>>

Has(parts, what) == \E i \in DOMAIN parts : parts[i].what = what

\* The model name or IMSI is the second line of the text: with nothing but an OK,
\* the OK itself or nothing, as its line breaks fall.
Named(parts) == {"ok"} \cup (IF Has(parts, "text") THEN {} ELSE {"none"})

\* What check prints, and what compose_modem_test_response,
\* compose_sim_test_response and compose_led_test_response put on the page.
Verdict(cmd, parts) ==
    IF Has(parts, "OK")
    THEN IF cmd \in {"modem", "sim"} THEN Named(parts) ELSE {"ok"}
    ELSE IF Has(parts, "ERROR") /\ cmd # "modem" THEN {"error"}
    ELSE {"none"}

Ends(parts) ==
    /\ \E v \in Verdict(call, parts) :
          page' = [verdict |-> v, own |-> \A i \in DOMAIN parts : parts[i].own]
    /\ resp' = parts
    /\ call' = "idle"

Terminated(parts) == Has(parts, "OK") \/ Has(parts, "ERROR")

ReadPart ==
    /\ call # "idle"
    /\ rx # << >>
    /\ rx' = Tail(rx)
    /\ LET parts == Append(resp, Head(rx))
       IN  IF Terminated(parts) THEN Ends(parts)
           ELSE resp' = parts /\ UNCHANGED <<call, page>>
    /\ UNCHANGED <<owed, late, answered>>

\* 3 s have passed: what has come counts as the answer.
TimeOut ==
    /\ call # "idle"
    /\ Ends(resp)
    /\ UNCHANGED <<owed, rx, late, answered>>

\* Reset leaves the modem as it was, perhaps in an answer; check is the first call.
ModemInit ==
    /\ \E left \in {<< >>, <<Part("OK")>>, Answer("OK"), Answer("ERROR")},
          result \in AnswersGiven :
          /\ owed = Older(left) \o Answer(result)
          /\ late = (left # << >>)
          /\ answered = result
    /\ rx = << >>
    /\ call = "check"
    /\ resp = << >>
    /\ page = [verdict |-> "none", own |-> TRUE]

ModemNext ==
    \/ \E cmd \in Commands \ {"check"} : SendAt(cmd)
    \/ PartArrives
    \/ ReadPart
    \/ TimeOut

-----------------------------------------------------------------------------
(* Properties. *)

ModemTypeOK ==
    /\ {owed, rx, resp} \subseteq Seq(ModemParts)
    /\ Len(owed) <= MaxOwed
    /\ call \in Commands \cup {"idle"}
    /\ late \in BOOLEAN
    /\ answered \in AnswersGiven
    /\ page \in [verdict : Verdicts, own : BOOLEAN]

\* What a page says is what the modem answered to that page's command, whatever
\* came before and whatever timed out, unless an answer still owed when the
\* command was sent came after the flush: the next answers may then all be
\* taken for the wrong command.
AnswerIsOwn ==
    call = "idle" /\ ~late /\ page.verdict # "none" =>
        /\ page.own
        /\ answered = (IF page.verdict = "ok" THEN "OK" ELSE "ERROR")
=============================================================================
