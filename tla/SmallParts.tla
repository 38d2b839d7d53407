----------------------------- MODULE SmallParts -----------------------------
(***************************************************************************)
(* The parts that share no state with each other: the scan, the timer of   *)
(* the readings, the modem, the clock chip and the log ring.  A behaviour  *)
(* exercises one of them and leaves the others as they are at the start:   *)
(* a run needs the sum of their states, not the product.                   *)
(***************************************************************************)
EXTENDS WifiScan, MeasureTimer, ModemLink, Rtc, LogRing

VARIABLE part

logVars == vars
partVars == <<part, now, scanVars, timerVars, modemVars, rtcVars, logVars>>

\* Where a part may start in several ways, the ones not exercised start in one.
PartsInit ==
    /\ part \in {"scan", "timer", "modem", "rtc", "log"}
    /\ ScanInit /\ TimerInit /\ ModemInit /\ RtcInit /\ Init
    /\ part \notin {"scan", "timer"} => now = 0
    /\ part # "scan" => ~active
    /\ part # "modem" => owed = << >>

ScanStep ==
    /\ part = "scan"
    /\ ScanNext
    /\ UNCHANGED <<part, timerVars, modemVars, rtcVars, logVars>>

TimerStep ==
    /\ part = "timer"
    /\ TimerNext
    /\ UNCHANGED <<part, scanVars, modemVars, rtcVars, logVars>>

ModemStep ==
    /\ part = "modem"
    /\ ModemNext
    /\ UNCHANGED <<part, now, scanVars, timerVars, rtcVars, logVars>>

RtcStep ==
    /\ part = "rtc"
    /\ RtcNext
    /\ UNCHANGED <<part, now, scanVars, timerVars, modemVars, logVars>>

LogStep ==
    /\ part = "log"
    /\ Next
    /\ UNCHANGED <<part, now, scanVars, timerVars, modemVars, rtcVars>>

PartsNext == ScanStep \/ TimerStep \/ ModemStep \/ RtcStep \/ LogStep

PartsSpec == PartsInit /\ [][PartsNext]_partVars

\* main polls and turns, and a scan in the chip ends.
LiveSpec ==
    /\ PartsSpec
    /\ WF_partVars(ScanStep /\ PortalTurn)
    /\ WF_partVars(ScanStep /\ ScanEnds)

PartsTypeOK == ScanTypeOK /\ TimerTypeOK /\ ModemTypeOK /\ RtcTypeOK /\ TypeOK
=============================================================================
