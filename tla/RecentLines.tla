---------------------------- MODULE RecentLines ----------------------------
(***************************************************************************)
(* What the web page of the logs promises (logger.h: "captures all printf  *)
(* output into a 100-line ring buffer"): the last lines printed, in the    *)
(* order they were printed, whatever slots they lie in.                    *)
(***************************************************************************)
EXTENDS Naturals, Sequences

CONSTANTS
    Chars,          \* what is printed, line ends apart
    LOG_LINES,      \* how many lines are kept
    Limit,          \* how much of a line is kept
    Shown(_)        \* a line as the page shows it

VARIABLES
    kept,           \* the lines, oldest first
    text            \* the line being printed

vars == <<kept, text>>

Init ==
    /\ kept = << >>
    /\ text = << >>

PrintChar ==
    /\ Len(text) < Limit
    /\ \E c \in Chars : text' = Append(text, c)
    /\ UNCHANGED kept

\* The line ends: the oldest one goes if there is no room.
EndLine ==
    /\ text # << >>
    /\ kept' = Append(IF Len(kept) = LOG_LINES THEN Tail(kept) ELSE kept, Shown(text))
    /\ text' = << >>

Next == PrintChar \/ EndLine

Spec == Init /\ [][Next]_vars
=============================================================================
