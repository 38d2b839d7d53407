------------------------------- MODULE Clock --------------------------------
(***************************************************************************)
(* The 32-bit millisecond counter (to_ms_since_boot, external) that the    *)
(* main loops compare times with.  It wraps; a turn of a loop takes at     *)
(* least a tick of it and at most MaxTurn, polling, pages that wait for    *)
(* the modem and a reading of the sensor included.                         *)
(***************************************************************************)
EXTENDS Integers

CONSTANTS
    ClockSize,    \* 2^32
    MaxTurn

ASSUME ClockAssumption ==
    /\ ClockSize \in Nat \ {0}
    /\ MaxTurn \in 1..ClockSize - 1

VARIABLE now

Passes(n) == now' = (now + n) % ClockSize

\* The difference of two uint32_t.
Minus(t, u) == (t - u) % ClockSize

\* For the properties: time that really passed, counted up to a bound.
UpTo(bound, n) == IF n < bound THEN n ELSE bound
=============================================================================
