------------------------------ MODULE LogRing ------------------------------
(***************************************************************************)
(* The log ring (logger.cpp): everything printed, cut into lines, in a     *)
(* ring of LOG_LINES slots that the page /logs copies.                     *)
(*                                                                         *)
(* log_out_chars takes a text character by character: OutChar and          *)
(* OutNewline are the turns of its loop.  A copy may be taken at any       *)
(* state, so between any two characters, as it may in the middle of a      *)
(* line that several calls of printf print.                                *)
(***************************************************************************)
EXTENDS Naturals, Sequences, SequencesExt

CONSTANTS
    LOG_LINES,
    LOG_LINE_LEN,
    LogsBuf         \* the buffer of the page, 17000 for 100 lines of 160

ASSUME LogAssumption ==
    /\ LOG_LINES \in Nat \ {0}
    /\ LOG_LINE_LEN \in Nat \ {0}
    /\ LogsBuf \in Nat /\ LogsBuf > LOG_LINES * LOG_LINE_LEN

VARIABLES
    s_lines,        \* the ring
    s_head,         \* the slot the next line goes to
    s_count,        \* the lines stored
    s_cur_line      \* the line being printed; its length is s_cur_pos

vars == <<s_lines, s_head, s_count, s_cur_line>>

\* Characters by what the code tells apart: ESC begins an escape sequence, a
\* letter ends it.  A carriage return is dropped before it gets into a line, so
\* that the stripping of trailing ones in flush_line finds none.
Chars == {"ESC", "letter", "other"}
Slots == 0..LOG_LINES - 1

\* logger::init.
Init ==
    /\ s_lines = [i \in Slots |-> << >>]
    /\ s_head = 0
    /\ s_count = 0
    /\ s_cur_line = << >>

\* The copy without escape sequences.  (Mutant: one ends before its letter.)
StepKeepsLetter(acc, c) ==
    CASE acc.skip /\ c # "letter" -> acc
      [] c = "ESC" -> [acc EXCEPT !.skip = TRUE]
      [] OTHER -> [dst |-> Append(acc.dst, c), skip |-> FALSE]
Step(acc, c) ==
    CASE acc.skip -> [acc EXCEPT !.skip = c # "letter"]
      [] ~acc.skip /\ c = "ESC" -> [acc EXCEPT !.skip = TRUE]
      [] OTHER -> [acc EXCEPT !.dst = Append(@, c)]
Stripped(line) == FoldLeft(Step, [dst |-> << >>, skip |-> FALSE], line).dst

\* log_out_chars, one character that is no newline: kept while the line has room.
\* (Mutant: up to its last byte, the terminator's.)
HasRoomForAll(line) == Len(line) < LOG_LINE_LEN
HasRoom(line) == Len(line) < LOG_LINE_LEN - 1
OutChar ==
    /\ \E c \in Chars \cup {"CR"} :
          s_cur_line' = IF c # "CR" /\ HasRoom(s_cur_line)
                        THEN Append(s_cur_line, c) ELSE s_cur_line
    /\ UNCHANGED <<s_lines, s_head, s_count>>

\* A newline: flush_line stores the line, unless it is empty.
OutNewline ==
    /\ s_cur_line # << >>
    /\ s_lines' = [s_lines EXCEPT ![s_head] = Stripped(s_cur_line)]
    /\ s_head' = (s_head + 1) % LOG_LINES
    /\ s_count' = IF s_count < LOG_LINES THEN s_count + 1 ELSE s_count
    /\ s_cur_line' = << >>

Next == OutChar \/ OutNewline

Spec == Init /\ [][Next]_vars

-----------------------------------------------------------------------------
(* get_lines. *)

\* The oldest line, and the lines from there on.  (Mutant: from the first slot.)
StartAtZero == 0
Start == IF s_count < LOG_LINES THEN 0 ELSE s_head
Kept == [i \in 1..s_count |-> s_lines[(Start + (i - 1)) % LOG_LINES]]

\* A line is copied if it fits with its newline, and the copy ends at the first
\* that does not.  (Mutant: it goes on with shorter ones.)
CopySkips(acc, line) ==
    IF Len(line) + 1 > acc.remain THEN acc
    ELSE [acc EXCEPT !.buf = @ \o line \o <<"\n">>, !.remain = @ - (Len(line) + 1)]
Copy(acc, line) ==
    IF acc.ended \/ Len(line) + 1 > acc.remain THEN [acc EXCEPT !.ended = TRUE]
    ELSE [acc EXCEPT !.buf = @ \o line \o <<"\n">>, !.remain = @ - (Len(line) + 1)]

\* The text get_lines leaves in a buffer of that size, its terminator apart.
GetLines(size) ==
    LET lines == Kept
        copied[n \in 0..s_count] ==
            IF n = 0 THEN [buf |-> << >>, remain |-> size - 1, ended |-> FALSE]
            ELSE Copy(copied[n - 1], lines[n])
    IN  copied[s_count].buf

-----------------------------------------------------------------------------
(* Properties. *)

\* Every variable has its type; a line always leaves room for its terminator.
TypeOK ==
    /\ s_head \in Slots
    /\ s_count \in 0..LOG_LINES
    /\ DOMAIN s_lines = Slots
    /\ \A line \in {s_lines[i] : i \in Slots} \cup {s_cur_line} :
          line \in Seq(Chars) /\ Len(line) < LOG_LINE_LEN

\* The ring holds the last LOG_LINES lines in the order they were printed, full
\* or not, at every position of s_head (flush_line, get_lines).
Recent == INSTANCE RecentLines WITH
    Limit <- LOG_LINE_LEN - 1,
    Shown <- Stripped,
    kept <- Kept,
    text <- s_cur_line
ImplementsRecentLines == Recent!Spec

\* What a line shows is what no escape sequence holds: the characters before
\* which no ESC stands, but for those that a letter ends before them, each once
\* and in their order (flush_line's nested loops).
Hidden(line, i) ==
    \E j \in 1..i : line[j] = "ESC" /\ \A k \in j..i - 1 : line[k] # "letter"
Visible(line) == {i \in DOMAIN line : ~Hidden(line, i)}
Shows(shown, line) ==
    \E at \in [DOMAIN shown -> Visible(line)] :
        /\ \A i, j \in DOMAIN shown : i < j => at[i] < at[j]
        /\ \A v \in Visible(line) : \E i \in DOMAIN shown : at[i] = v
        /\ \A i \in DOMAIN shown : shown[i] = line[at[i]]
ShownIsVisible == Shows(Stripped(s_cur_line), s_cur_line)

\* Whatever the size of the buffer, a copy is the oldest lines, whole, as many
\* as fit before the terminator (get_lines).
Text(n) == FlattenSeq([i \in 1..n |-> Kept[i] \o <<"\n">>])
CopyExact ==
    \A n \in 0..s_count :
        LET text == Text(n)
            next == IF n < s_count THEN Len(text) + Len(Kept[n + 1]) + 1 ELSE LogsBuf
        IN  \A size \in Len(text) + 1..next : GetLines(size) = text

\* The page is never short of a line: its buffer holds a full ring of full lines
\* ("100 lines x ~160 chars", compose_logs_response; "Write all buffered lines",
\* logger.h).
AllShown == GetLines(LogsBuf) = Text(s_count)
=============================================================================
