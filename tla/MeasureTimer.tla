---------------------------- MODULE MeasureTimer ----------------------------
(***************************************************************************)
(* When a reading is taken: the main loop of a connected device (main.cpp, *)
(* AppState::CONNECTED) and the mode that sets the interval                *)
(* (device_mode.cpp).  The time of the next reading is an absolute value   *)
(* of a counter that wraps after 49.7 days.                                *)
(***************************************************************************)
EXTENDS Clock

CONSTANTS
    MobileInterval,       \* 10000 in the code
    StationaryInterval    \* 60000 in the code

ASSUME TimerAssumption ==
    {MobileInterval, StationaryInterval} \subseteq 2..ClockSize - MaxTurn

VARIABLES
    next_sensor_read,
    s_mode,
    elapsed,       \* ghost: the time since the last reading, up to TimerBound
    due,           \* ghost: when the next one should come, the same way
    wrapped,       \* ghost: the counter has wrapped since the last reading
    sumWrapped     \* ghost: the sum next_sensor_read has wrapped

timerVars == <<next_sensor_read, s_mode, elapsed, due, wrapped, sumWrapped>>

TimerBound == 2 * ClockSize
Modes == {"MOBILE", "STATIONARY"}

\* CONNECTED is entered.  The first reading is due in the first turn.
Enter ==
    /\ next_sensor_read' = 0
    /\ elapsed' = 0
    /\ due' = 1
    /\ wrapped' = FALSE
    /\ sumWrapped' = FALSE

TimerInit ==
    /\ now \in 0..ClockSize - 1
    /\ next_sensor_read = 0
    /\ s_mode = "STATIONARY"
    /\ elapsed = 0
    /\ due = 1
    /\ wrapped = FALSE
    /\ sumWrapped = FALSE

\* (Mutant: the mode is not looked at.)
IntervalFixed == MobileInterval
Interval == IF s_mode = "MOBILE" THEN MobileInterval ELSE StationaryInterval

\* What the modes promise ("Mode Mobile (10s) / Stationnaire (60s)", CHANGELOG.md).
Promised == [MOBILE |-> MobileInterval, STATIONARY |-> StationaryInterval][s_mode]

\* (Mutant: strictly later.)
ReadingDueLate == now' > next_sensor_read
ReadingDue == now' >= next_sensor_read

\* The time since the last reading, at the end of this step.
Since == UpTo(TimerBound, elapsed + Minus(now', now))

\* The sensor is read, the line is logged (Datalog), the next reading is planned.
Reading ==
    /\ ReadingDue
    /\ next_sensor_read' = (now' + Interval) % ClockSize
    /\ elapsed' = 0
    /\ due' = Promised
    /\ wrapped' = FALSE
    /\ sumWrapped' = (now' + Interval >= ClockSize)

NoReading ==
    /\ ~ReadingDue
    /\ elapsed' = Since
    /\ wrapped' = (wrapped \/ now' < now)
    /\ UNCHANGED <<next_sensor_read, due, sumWrapped>>

\* A turn of the loop.
TimerTurn ==
    /\ \E n \in 1..MaxTurn : Passes(n)
    /\ Reading \/ NoReading
    /\ UNCHANGED s_mode

\* A page sets the mode while the loop polls: the reading already planned stays.
SetMode ==
    /\ s_mode' \in Modes
    /\ UNCHANGED <<now, next_sensor_read, elapsed, due, wrapped, sumWrapped>>

\* The connection is lost and found again, maybe much later.
Reconnect ==
    /\ now' \in 0..ClockSize - 1
    /\ Enter
    /\ UNCHANGED s_mode

TimerNext == TimerTurn \/ SetMode \/ Reconnect

-----------------------------------------------------------------------------
(* Properties. *)

TimerTypeOK ==
    /\ next_sensor_read \in 0..ClockSize - 1
    /\ s_mode \in Modes
    /\ elapsed \in 0..TimerBound
    /\ due \in {1, MobileInterval, StationaryInterval}
    /\ {wrapped, sumWrapped} \subseteq BOOLEAN

\* A reading comes no sooner than the interval of the mode in force at the one
\* before, unless the planned time had wrapped: then every turn reads, until the
\* counter wraps as well.
PacedUnlessWrapped ==
    [][Reading /\ ~sumWrapped => Since >= due]_timerVars

\* After every turn, a reading overdue means that the counter wrapped and the
\* planned time did not: then no reading comes for the 49.7 days the counter
\* takes to get there again.
OverdueOnlyAfterWrap == elapsed >= due => wrapped /\ ~sumWrapped
=============================================================================
