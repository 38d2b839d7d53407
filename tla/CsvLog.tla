------------------------------- MODULE CsvLog -------------------------------
(***************************************************************************)
(* What the SD-card log promises to the main loop and to the dashboard,    *)
(* whatever sectors, buffers and headers it is made of: an append-only     *)
(* file of whole lines.  A power cut takes it back to the last durable     *)
(* point, which is always a point the log has really been at, and never    *)
(* costs more than FlushEvery lines.                                       *)
(***************************************************************************)
EXTENDS Naturals, Sequences

CONSTANTS
    Lines,       \* what a caller may append, without its newline
    NL,          \* the byte that ends a line
    CsvHeader,   \* the column header, newline included
    FlushEvery   \* lines between two durable points

VARIABLES
    log,         \* the bytes accepted so far
    durable,     \* the bytes a restart would find
    unsynced     \* lines accepted since the durable point

vars == <<log, durable, unsynced>>

Init ==
    /\ log = CsvHeader
    /\ durable = CsvHeader
    /\ unsynced = 0

\* A line is accepted, unless FlushEvery of them already wait for a sync.
AppendLine ==
    /\ unsynced < FlushEvery
    /\ \E line \in Lines : log' = log \o line \o <<NL>>
    /\ unsynced' = unsynced + 1
    /\ UNCHANGED durable

\* Everything accepted becomes durable at once.
Sync ==
    /\ durable' = log
    /\ unsynced' = 0
    /\ UNCHANGED log

\* Power is lost: the log is what was durable.
PowerCut ==
    /\ log' = durable
    /\ unsynced' = 0
    /\ UNCHANGED durable

Next == AppendLine \/ Sync \/ PowerCut

Spec == Init /\ [][Next]_vars
=============================================================================
