-------------------------- MODULE SmallPartsProofs --------------------------
(***************************************************************************)
(* The parts that share no state, for every value of their constants:      *)
(* times compared with a counter that wraps, a table of networks that is   *)
(* filled, sorted and listed while scans overlap, answers that do not say  *)
(* what they answer, and a clock chip whose registers hold decimal digits. *)
(***************************************************************************)
EXTENDS SmallParts, LogRingProofs, SequenceTheorems, TLAPS

-----------------------------------------------------------------------------
(* The clock. *)

\* A turn moves the counter on by n, or by n less its size.
LEMMA Turned ==
    ASSUME NEW c \in Nat \ {0}, NEW t \in 0..c - 1, NEW n \in 1..c - 1
    PROVE  /\ (t + n) % c = IF t + n < c THEN t + n ELSE t + n - c
           /\ (((t + n) % c) - t) % c = n
  <1> DEFINE u == (t + n) % c
  <1>1. u = IF t + n < c THEN t + n ELSE t + n - c
    <2>1. CASE t + n < c BY <2>1, SMT
    <2>2. CASE t + n >= c BY <2>2, SMT
    <2> QED BY <2>1, <2>2
  <1>2. (u - t) % c = n
    <2>1. CASE t + n < c
      <3>1. u - t = n BY <1>1, <2>1
      <3> HIDE DEF u
      <3> QED BY <3>1, SMT
    <2>2. CASE t + n >= c
      <3>1. u - t = n - c BY <1>1, <2>2
      <3>2. (n - c) % c = n BY SMT
      <3> HIDE DEF u
      <3> QED BY <3>1, <3>2
    <2> QED BY <2>1, <2>2
  <1> QED BY <1>1, <1>2

\* Two times are at least zero and less than the counter's size apart ...
LEMMA Apart ==
    ASSUME NEW c \in Nat \ {0}, NEW t \in 0..c - 1, NEW s \in 0..c - 1
    PROVE  /\ (t - s) % c = IF t >= s THEN t - s ELSE t - s + c
           /\ (t - s) % c \in 0..c - 1
  <1>1. CASE t >= s BY <1>1, SMT
  <1>2. CASE t < s
    <2>1. t - s + c \in 0..c - 1 BY <1>2
    <2>2. (t - s) % c = t - s + c BY <1>2, <2>1, SMT
    <2> QED BY <1>2, <2>1, <2>2
  <1> QED BY <1>1, <1>2

\* ... and a turn takes them at most n further apart.
LEMMA ApartTurned ==
    ASSUME NEW c \in Nat \ {0}, NEW t \in 0..c - 1, NEW s \in 0..c - 1, NEW n \in 1..c - 1
    PROVE  /\ (t + n) % c \in 0..c - 1
           /\ (((t + n) % c) - s) % c <= ((t - s) % c) + n
           /\ ((t - s) % c) \in 0..c - 1
  <1> DEFINE u == (t + n) % c
             before == (t - s) % c
             after == (u - s) % c
  <1>1. u = IF t + n < c THEN t + n ELSE t + n - c BY Turned
  <1>2. before = IF t >= s THEN t - s ELSE t - s + c BY Apart
  <1> HIDE DEF u, before
  <1>3. u \in 0..c - 1 BY <1>1
  <1>4. after = IF u >= s THEN u - s ELSE u - s + c BY <1>3, Apart
  <1> HIDE DEF after
  <1>5. after <= before + n BY <1>1, <1>2, <1>4
  <1>6. before \in 0..c - 1 BY <1>2
  <1> QED BY <1>3, <1>5, <1>6 DEF u, before, after

\* What a turn of a loop does to the clock.
LEMMA TurnOfClock ==
    ASSUME now \in 0..ClockSize - 1, NEW n \in 1..MaxTurn, Passes(n)
    PROVE  /\ now' \in 0..ClockSize - 1
           /\ now' = IF now + n < ClockSize THEN now + n ELSE now + n - ClockSize
           /\ Minus(now', now) = n
  <1>1. n \in 1..ClockSize - 1 /\ ClockSize \in Nat \ {0} BY ClockAssumption
  <1>2. /\ (now + n) % ClockSize = IF now + n < ClockSize THEN now + n ELSE now + n - ClockSize
        /\ (((now + n) % ClockSize) - now) % ClockSize = n
    BY <1>1, Turned
  <1>3. now' = (now + n) % ClockSize BY DEF Passes
  <1> DEFINE u == (now + n) % ClockSize
  <1> HIDE DEF u
  <1>4. now' = u BY <1>3 DEF u
  <1>5. u = (IF now + n < ClockSize THEN now + n ELSE now + n - ClockSize)
        /\ ((u - now) % ClockSize) = n
    BY <1>2 DEF u
  <1> QED BY <1>1, <1>4, <1>5 DEF Minus

-----------------------------------------------------------------------------
(* The timer of the readings. *)

\* How much of the interval is still to come, against the planned time: the two
\* agree as long as neither the counter nor the planned time has wrapped.
Ahead == elapsed - due <= now - next_sensor_read
Behind == elapsed >= due \/ elapsed - due >= now - next_sensor_read \/ due = 1

TimerTyped ==
    /\ now \in 0..ClockSize - 1
    /\ next_sensor_read \in 0..ClockSize - 1
    /\ s_mode \in Modes
    /\ elapsed \in 0..TimerBound
    /\ due \in 1..ClockSize - MaxTurn

TimerInv ==
    /\ TimerTyped
    /\ ~sumWrapped /\ ~wrapped => Ahead /\ (elapsed = 0 \/ now < next_sensor_read)
    /\ ~sumWrapped => Behind
    /\ sumWrapped /\ ~wrapped =>
           elapsed = 0 /\ now - next_sensor_read = ClockSize - due
    /\ sumWrapped /\ wrapped =>
           Ahead /\ now < next_sensor_read /\ next_sensor_read < due

\* In the other parts' behaviours the timer stays as CONNECTED is entered.
Resting ==
    /\ now \in 0..ClockSize - 1
    /\ next_sensor_read = 0 /\ s_mode = "STATIONARY"
    /\ elapsed = 0 /\ due = 1 /\ wrapped = FALSE /\ sumWrapped = FALSE

\* The interval of a mode is the one it promises, and fits between two wraps.
LEMMA IntervalTyped ==
    ASSUME s_mode \in Modes
    PROVE  /\ Interval = Promised
           /\ Interval \in 2..ClockSize - MaxTurn
  BY TimerAssumption DEF Interval, Promised, Modes

\* A timer at rest satisfies the invariant of the timer.
LEMMA RestingInv ==
    ASSUME Resting
    PROVE  TimerInv
  <1>1. ~wrapped /\ ~sumWrapped
    BY DEF Resting
  <1>2. now \in 0..ClockSize - 1 /\ next_sensor_read = 0 /\ elapsed = 0 /\ due = 1
    BY DEF Resting
  <1>3. 0 \in 0..ClockSize - 1 /\ 0 \in 0..TimerBound /\ 1 \in 1..ClockSize - MaxTurn
    BY ClockAssumption DEF TimerBound
  <1>4. s_mode \in Modes BY DEF Resting, Modes
  <1>5. TimerTyped BY <1>2, <1>3, <1>4 DEF TimerTyped
  <1>6. Ahead /\ Behind BY <1>2, ClockAssumption DEF Ahead, Behind
  <1> QED BY <1>1, <1>2, <1>5, <1>6 DEF TimerInv

\* The invariant says when a reading can be overdue.
LEMMA TimerInvOverdue == TimerInv => OverdueOnlyAfterWrap
  BY ClockAssumption DEF TimerInv, TimerTyped, Ahead, OverdueOnlyAfterWrap, TimerBound

\* The planned time of a reading, before and after the sum wraps.
LEMMA Planned ==
    ASSUME NEW c \in Nat \ {0}, NEW t \in 0..c - 1, NEW i \in 1..c - 1
    PROVE  /\ (t + i) % c \in 0..c - 1
           /\ ~(t + i >= c) => (t + i) % c = t + i /\ 0 - i = t - ((t + i) % c)
           /\ t + i >= c => t - ((t + i) % c) = c - i
  <1> DEFINE u == (t + i) % c
  <1>1. u = IF t + i < c THEN t + i ELSE t + i - c BY Turned
  <1> HIDE DEF u
  <1>2. u \in 0..c - 1 BY <1>1
  <1>3. ~(t + i >= c) => u = t + i /\ 0 - i = t - u BY <1>1
  <1>4. t + i >= c => t - u = c - i BY <1>1
  <1> QED BY <1>2, <1>3, <1>4 DEF u

\* A turn that reads plans the next reading inside the invariant ...
LEMMA ReadingInv ==
    ASSUME TimerInv, NEW n \in 1..MaxTurn, Passes(n), Reading, UNCHANGED s_mode
    PROVE  TimerInv'
  <1>1. now' \in 0..ClockSize - 1 /\ ClockSize \in Nat \ {0} /\ MaxTurn \in 1..ClockSize - 1
    BY TurnOfClock, ClockAssumption DEF TimerInv, TimerTyped
  <1>2. Interval \in 2..ClockSize - MaxTurn /\ Interval \in 1..ClockSize - 1 /\ Promised = Interval
    BY <1>1, IntervalTyped DEF TimerInv, TimerTyped
  <1> DEFINE p == (now' + Interval) % ClockSize
  <1>3. /\ p \in 0..ClockSize - 1
        /\ ~(now' + Interval >= ClockSize) => 0 - Interval = now' - p
        /\ now' + Interval >= ClockSize => now' - p = ClockSize - Interval
    BY <1>1, <1>2, Planned
  <1>4. /\ next_sensor_read' = p /\ elapsed' = 0 /\ due' = Interval
        /\ wrapped' = FALSE /\ s_mode' = s_mode
        /\ sumWrapped' = (now' + Interval >= ClockSize)
    BY <1>2 DEF Reading
  <1> HIDE DEF p
  <1>5. TimerTyped'
    <2>1. s_mode' \in Modes BY <1>4 DEF TimerInv, TimerTyped
    <2>2. elapsed' \in 0..TimerBound BY <1>1, <1>4 DEF TimerBound
    <2>3. due' \in 1..ClockSize - MaxTurn BY <1>1, <1>2, <1>4
    <2>4. next_sensor_read' \in 0..ClockSize - 1 BY <1>3, <1>4
    <2> QED BY <1>1, <2>1, <2>2, <2>3, <2>4 DEF TimerTyped, TimerBound, Modes
  <1>6. CASE ~(now' + Interval >= ClockSize)
    <2>1. ~sumWrapped' BY <1>4, <1>6
    <2>2. elapsed' - due' = now' - next_sensor_read' BY <1>3, <1>4, <1>6
    <2>3. Ahead' /\ Behind'
      <3>1. now' - next_sensor_read' \in Int BY <1>1, <1>5 DEF TimerTyped
      <3> QED BY <2>2, <3>1 DEF Ahead, Behind
    <2> QED BY <1>4, <1>5, <2>1, <2>3 DEF TimerInv
  <1>7. CASE now' + Interval >= ClockSize
    <2>1. sumWrapped' /\ ~wrapped' BY <1>4, <1>7
    <2>2. now' - next_sensor_read' = ClockSize - due' BY <1>3, <1>4, <1>7
    <2> QED BY <1>4, <1>5, <2>1, <2>2 DEF TimerInv
  <1> QED BY <1>6, <1>7

\* ... one that does not read lets time pass inside it ...
LEMMA NoReadingInv ==
    ASSUME TimerInv, NEW n \in 1..MaxTurn, Passes(n), NoReading, UNCHANGED s_mode
    PROVE  TimerInv'
  <1>1. /\ now' \in 0..ClockSize - 1
        /\ now' = IF now + n < ClockSize THEN now + n ELSE now + n - ClockSize
        /\ Since = UpTo(TimerBound, elapsed + n)
    BY TurnOfClock DEF TimerInv, TimerTyped, Since
  <1>2. /\ now' < next_sensor_read
        /\ elapsed' = IF elapsed + n < TimerBound THEN elapsed + n ELSE TimerBound
        /\ wrapped' = (wrapped \/ now' < now)
        /\ next_sensor_read' = next_sensor_read /\ due' = due /\ sumWrapped' = sumWrapped
    BY <1>1 DEF NoReading, ReadingDue, UpTo, TimerInv, TimerTyped
  <1>3. ClockSize \in Nat \ {0} /\ MaxTurn \in 1..ClockSize - 1 /\ TimerBound = 2 * ClockSize
    BY ClockAssumption DEF TimerBound
  <1>4. /\ now \in 0..ClockSize - 1 /\ next_sensor_read \in 0..ClockSize - 1
        /\ elapsed \in 0..TimerBound /\ due \in 1..ClockSize - MaxTurn
        /\ s_mode \in Modes
    BY DEF TimerInv, TimerTyped
  <1>6. elapsed' \in 0..TimerBound
    BY <1>2, <1>3, <1>4
  <1>7. TimerTyped'
    BY <1>1, <1>2, <1>4, <1>6 DEF TimerTyped, TimerBound, Modes
  <1>8. CASE ~wrapped /\ ~(now' < now)
    <2>1. ~wrapped' /\ now' = now + n
      <3>1. ~wrapped' BY <1>2, <1>8
      <3>2. now + n - ClockSize < now BY <1>3, <1>4
      <3> QED BY <1>1, <1>8, <3>1, <3>2
    <2>2. sumWrapped => now - next_sensor_read = ClockSize - due
      BY <1>8 DEF TimerInv
    <2>3. ~sumWrapped
      BY <1>2, <1>3, <1>4, <2>1, <2>2
    <2>4. Ahead /\ Behind BY <1>8, <2>3 DEF TimerInv
    <2>5. Ahead' BY <1>2, <1>3, <1>4, <2>1, <2>4 DEF Ahead
    <2>6. Behind' BY <1>2, <1>3, <1>4, <2>1, <2>4 DEF Behind
    <2> QED BY <1>2, <1>7, <2>1, <2>3, <2>5, <2>6 DEF TimerInv
  <1>9. CASE wrapped \/ now' < now
    <2>1. wrapped' BY <1>2, <1>9
    <2>2. CASE ~sumWrapped
      <3>1. Behind BY <2>2 DEF TimerInv
      <3>2. Behind' BY <1>1, <1>2, <1>3, <1>4, <3>1 DEF Behind
      <3> QED BY <1>2, <1>7, <2>1, <2>2, <3>2 DEF TimerInv
    <2>3. CASE sumWrapped /\ wrapped
      <3>1. Ahead /\ now < next_sensor_read /\ next_sensor_read < due BY <2>3 DEF TimerInv
      <3>2. now' = now + n BY <1>1, <1>3, <1>4, <3>1
      <3>3. Ahead' BY <1>2, <1>3, <1>4, <3>1, <3>2 DEF Ahead
      <3> QED BY <1>2, <1>7, <2>1, <2>3, <3>1, <3>3 DEF TimerInv
    <2>4. CASE sumWrapped /\ ~wrapped
      <3>1. elapsed = 0 /\ now - next_sensor_read = ClockSize - due BY <2>4 DEF TimerInv
      <3>2. now' = now + n - ClockSize BY <1>1, <1>3, <1>4, <1>9, <2>4
      <3>3. Ahead' BY <1>2, <1>3, <1>4, <3>1, <3>2 DEF Ahead
      <3>4. next_sensor_read < due BY <1>3, <1>4, <3>1
      <3> QED BY <1>2, <1>7, <2>1, <2>4, <3>3, <3>4 DEF TimerInv
    <2> QED BY <1>4, <2>2, <2>3, <2>4
  <1> QED BY <1>4, <1>8, <1>9

\* ... and so do a change of mode and a new connection.
LEMMA TimerStepInv ==
    ASSUME TimerInv, TimerNext
    PROVE  TimerInv'
  <1>1. CASE TimerTurn
    BY <1>1, ReadingInv, NoReadingInv DEF TimerTurn
  <1>2. CASE SetMode
    BY <1>2 DEF SetMode, TimerInv, TimerTyped, Ahead, Behind
  <1>3. CASE Reconnect
    <2>2. /\ now' \in 0..ClockSize - 1 /\ next_sensor_read' = 0 /\ elapsed' = 0 /\ due' = 1
          /\ wrapped' = FALSE /\ sumWrapped' = FALSE /\ s_mode' \in Modes
      BY <1>3 DEF Reconnect, Enter, TimerInv, TimerTyped
    <2>3. 0 \in 0..ClockSize - 1 /\ 0 \in 0..TimerBound /\ 1 \in 1..ClockSize - MaxTurn
      BY ClockAssumption DEF TimerBound
    <2>4. ~wrapped' /\ ~sumWrapped'
      BY <2>2
    <2>5. TimerTyped' BY <2>2, <2>3 DEF TimerTyped, TimerBound, Modes
    <2>6. Ahead' /\ Behind'
      <3>1. \A t \in 0..ClockSize - 1 : 0 - 1 <= t - 0 BY ClockAssumption
      <3>2. 0 - 1 <= now' - 0 BY <2>2, <3>1
      <3> QED BY <2>2, <3>2 DEF Ahead, Behind
    <2> QED BY <2>2, <2>4, <2>5, <2>6 DEF TimerInv
  <1> QED BY <1>1, <1>2, <1>3 DEF TimerNext

\* A step that looks like a reading is one, and comes no sooner than it is due.
LEMMA ReadingPaced ==
    ASSUME TimerInv, TimerNext, Reading, ~sumWrapped
    PROVE  Since >= due
  <1>1. CASE TimerTurn
    <2>1. PICK n \in 1..MaxTurn : Passes(n) BY <1>1 DEF TimerTurn
    <2>2. /\ now' \in 0..ClockSize - 1
          /\ now' = IF now + n < ClockSize THEN now + n ELSE now + n - ClockSize
          /\ Since = IF elapsed + n < TimerBound THEN elapsed + n ELSE TimerBound
      BY <2>1, TurnOfClock DEF TimerInv, TimerTyped, Since, UpTo
    <2>3. now' >= next_sensor_read BY DEF Reading, ReadingDue
    <2> QED BY <2>2, <2>3, ClockAssumption DEF TimerInv, TimerTyped, Behind, TimerBound
  <1>2. CASE SetMode
    <2>1. /\ now' = now /\ now >= next_sensor_read /\ now \in 0..ClockSize - 1
          /\ next_sensor_read = (now + Interval) % ClockSize
          /\ ~(now + Interval >= ClockSize)
      <3>1. now' = now /\ sumWrapped' = sumWrapped /\ next_sensor_read' = next_sensor_read
        BY <1>2 DEF SetMode
      <3>2. /\ now' >= next_sensor_read
            /\ next_sensor_read' = (now' + Interval) % ClockSize
            /\ sumWrapped' = (now' + Interval >= ClockSize)
        BY DEF Reading, ReadingDue
      <3>3. now >= next_sensor_read /\ now \in 0..ClockSize - 1
        BY <3>1, <3>2 DEF TimerInv, TimerTyped
      <3>4. next_sensor_read = (now + Interval) % ClockSize
        <4> DEFINE planned(t) == (t + Interval) % ClockSize
        <4>1. next_sensor_read' = planned(now') BY <3>2
        <4> HIDE DEF planned
        <4>2. next_sensor_read = planned(now) BY <3>1, <4>1
        <4> QED BY <4>2 DEF planned
      <3>5. ~(now + Interval >= ClockSize)
        <4>1. ~sumWrapped' BY <3>1
        <4>2. ~(now' + Interval >= ClockSize) BY <3>2, <4>1
        <4> QED BY <3>1, <4>2
      <3> QED BY <3>1, <3>3, <3>4, <3>5
    <2>2. Interval \in 2..ClockSize - MaxTurn /\ Interval \in 1..ClockSize - 1
      BY IntervalTyped, ClockAssumption DEF TimerInv, TimerTyped
    <2> DEFINE p == (now + Interval) % ClockSize
    <2>3. p = now + Interval
      <3>1. ClockSize \in Nat \ {0} /\ now \in 0..ClockSize - 1 BY <2>1, ClockAssumption
      <3>2. ~(now + Interval >= ClockSize) => p = now + Interval
        BY <2>2, <3>1, Planned
      <3> QED BY <2>1, <3>2
    <2> HIDE DEF p
    <2>4. next_sensor_read = p BY <2>1 DEF p
    <2> QED BY <2>1, <2>2, <2>3, <2>4
  <1>3. CASE Reconnect
    BY <1>3, IntervalTyped, ClockAssumption
      DEF Reconnect, Enter, Reading, TimerInv, TimerTyped
  <1> QED BY <1>1, <1>2, <1>3 DEF TimerNext

-----------------------------------------------------------------------------
(* The scans. *)

\* The ghost time is at least what the counter shows, up to its bound.
ScanInv ==
    /\ now \in 0..ClockSize - 1
    /\ s_scan_timer \in 0..ClockSize - 1
    /\ sinceScan \in 0..ScanBound
    /\ sinceScan = ScanBound \/ Minus(now, s_scan_timer) <= sinceScan

\* PORTAL_RUNNING is entered with a scan that starts now.
LEMMA ScanInitInv == ScanInit => ScanInv
  <1>1. now \in 0..ClockSize - 1 => (now - now) % ClockSize = 0
    BY ClockAssumption, Apart
  <1> QED BY <1>1, ClockAssumption, ScanAssumption DEF ScanInit, ScanInv, ScanBound, Minus

\* A turn: what is kept of the invariant if the timer stays, and what a due
\* rescan says of the time that passed.
LEMMA ScanTurned ==
    ASSUME ScanInv, NEW n \in 1..MaxTurn, Passes(n)
    PROVE  /\ now' \in 0..ClockSize - 1
           /\ Minus(now', s_scan_timer) <= Minus(now, s_scan_timer) + n
           /\ Minus(now, s_scan_timer) \in 0..ClockSize - 1
           /\ Minus(now', now') = 0 /\ Minus(now', now) = n
  <1>1. ClockSize \in Nat \ {0} /\ n \in 1..ClockSize - 1 BY ClockAssumption
  <1>2. now' = (now + n) % ClockSize /\ now' \in 0..ClockSize - 1
    BY TurnOfClock DEF Passes, ScanInv
  <1>3. (now' - now') % ClockSize = 0 BY <1>1, <1>2, Apart
  <1>4. /\ (((now + n) % ClockSize) - s_scan_timer) % ClockSize
              <= ((now - s_scan_timer) % ClockSize) + n
        /\ ((now - s_scan_timer) % ClockSize) \in 0..ClockSize - 1
    BY <1>1, ApartTurned DEF ScanInv
  <1>5. Minus(now', now) = n BY TurnOfClock DEF ScanInv
  <1> QED BY <1>2, <1>3, <1>4, <1>5 DEF Minus

\* Every step of the scan keeps its times, and a new scan comes when one is due.
LEMMA ScanStepInv ==
    ASSUME ScanInv, ScanNext
    PROVE  /\ ScanInv'
           /\ s_scan_timer' # s_scan_timer => sinceScan + Minus(now', now) > RescanAfter
  <1>1. CASE ScanCallback \/ ScanEnds
    BY <1>1 DEF ScanCallback, ScanEnds, ScanInv, ScanBound, Minus
  <1>2. CASE PortalTurn
    <2>1. PICK n \in 1..MaxTurn :
             /\ Passes(n)
             /\ \/ sinceScan' = UpTo(ScanBound, sinceScan + n) /\ s_scan_timer' = s_scan_timer
                \/ RescanDue /\ sinceScan' = 0 /\ s_scan_timer' = now'
      BY <1>2 DEF PortalTurn
    <2>2. /\ now' \in 0..ClockSize - 1
          /\ Minus(now', s_scan_timer) <= Minus(now, s_scan_timer) + n
          /\ Minus(now, s_scan_timer) \in 0..ClockSize - 1
          /\ Minus(now', now') = 0 /\ Minus(now', now) = n
      BY <2>1, ScanTurned
    <2>3. Minus(now', s_scan_timer) \in 0..ClockSize - 1
      <3>1. ClockSize \in Nat \ {0} /\ s_scan_timer \in 0..ClockSize - 1
        BY ClockAssumption DEF ScanInv
      <3> QED BY <2>2, <3>1, Apart DEF Minus
    <2>4. MaxTurn \in Nat /\ n \in Nat /\ n <= MaxTurn /\ RescanAfter \in Nat
          /\ ScanBound = RescanAfter + MaxTurn + 1
      BY ClockAssumption, ScanAssumption DEF ScanBound
    <2>5. CASE sinceScan' = UpTo(ScanBound, sinceScan + n) /\ s_scan_timer' = s_scan_timer
      <3>1. sinceScan' = IF sinceScan + n < ScanBound THEN sinceScan + n ELSE ScanBound
        BY <2>5 DEF UpTo
      <3>2. ScanBound' = ScanBound /\ Minus(now', s_scan_timer') = Minus(now', s_scan_timer)
            /\ Minus(now, s_scan_timer)' = Minus(now', s_scan_timer')
        BY <2>5 DEF ScanBound, Minus
      <3> QED BY <2>2, <2>3, <2>4, <2>5, <3>1, <3>2 DEF ScanInv
    <2>6. CASE RescanDue /\ sinceScan' = 0 /\ s_scan_timer' = now'
      <3>1. Minus(now', s_scan_timer) > RescanAfter BY <2>6 DEF RescanDue
      <3>2. ScanBound' = ScanBound /\ Minus(now, s_scan_timer)' = 0
        BY <2>2, <2>6 DEF ScanBound, Minus
      <3> QED BY <2>2, <2>3, <2>4, <2>6, <3>1, <3>2 DEF ScanInv
    <2> QED BY <2>1, <2>5, <2>6
  <1> QED BY <1>1, <1>2 DEF ScanNext

-----------------------------------------------------------------------------
(* The list of networks. *)

\* The same networks, each with the same signal, in another order.
Same(list, other) ==
    /\ list \in Seq(Entries)
    /\ Len(list) = Len(other)
    /\ \A i \in DOMAIN list : \E j \in DOMAIN other : list[i] = other[j]
    /\ \A j \in DOMAIN other : \E i \in DOMAIN list : list[i] = other[j]

Distinct(list) == \A i, j \in DOMAIN list : i # j => list[i].ssid # list[j].ssid

\* The first k entries are in their places: none after one of them is stronger.
Placed(list, k) ==
    \A i, j \in DOMAIN list : i < j /\ i <= k => list[i].rssi >= list[j].rssi

\* An exchange leaves the networks, and the places before i; entry i is then as
\* strong as entry j and as what it was as strong as before.
LEMMA ExchangedIs ==
    ASSUME NEW list \in Seq(Entries), Distinct(list),
           NEW n \in Nat, n = Len(list), NEW i \in 1..n, NEW j \in i + 1..n,
           Placed(list, i - 1),
           \A k \in i + 1..j - 1 : list[i].rssi >= list[k].rssi
    PROVE  LET new == Exchanged(list, i, j)
           IN  /\ Same(new, list) /\ Distinct(new) /\ Placed(new, i - 1)
               /\ \A k \in i + 1..j : new[i].rssi >= new[k].rssi
  <1>1. /\ DOMAIN list = 1..n /\ i \in 1..n /\ j \in 1..n /\ i < j
        /\ \A k \in 1..n : list[k] \in Entries
    OBVIOUS
  <1>2. \A k \in 1..n : list[k].rssi \in Nat /\ list[k].ssid \in Ssids
    BY <1>1, ScanAssumption DEF Entries
  <1>3. CASE list[j].rssi > list[i].rssi
    <2>1. PICK new : new = [list EXCEPT ![i] = list[j], ![j] = list[i]] OBVIOUS
    <2>2. /\ new[i] = list[j] /\ new[j] = list[i] /\ DOMAIN new = 1..n
          /\ \A k \in 1..n : k # i /\ k # j => new[k] = list[k]
      BY <1>1, <2>1
    <2>3. new \in [1..n -> Entries] BY <1>1, <2>1
    <2>4. new \in Seq(Entries) /\ Len(new) = n BY <2>3
    <2>5. Same(new, list)
      <3>1. ASSUME NEW k \in 1..n PROVE \E m \in 1..n : new[k] = list[m]
        BY <1>1, <2>2
      <3>2. ASSUME NEW m \in 1..n PROVE \E k \in 1..n : new[k] = list[m]
        BY <1>1, <2>2
      <3> QED BY <1>1, <2>2, <2>4, <3>1, <3>2 DEF Same
    <2>6. Distinct(new) BY <1>1, <2>2 DEF Distinct
    <2>7. Placed(new, i - 1)
      <3> SUFFICES ASSUME NEW a \in 1..n, NEW b \in 1..n, a < b, a <= i - 1
                   PROVE  new[a].rssi >= new[b].rssi
        BY <2>2 DEF Placed
      <3>1. new[a] = list[a] /\ a # i /\ a # j BY <1>1, <2>2
      <3>2. \A c \in 1..n : a < c => list[a].rssi >= list[c].rssi
        BY <1>1 DEF Placed
      <3>3. a < i /\ a < j BY <1>1
      <3>4. new[b] = list[b] \/ new[b] = list[i] \/ new[b] = list[j] BY <2>2
      <3> QED BY <1>1, <3>1, <3>2, <3>3, <3>4
    <2>8. ASSUME NEW k \in i + 1..j PROVE new[i].rssi >= new[k].rssi
      <3>1. CASE k = j BY <1>1, <1>2, <1>3, <2>2, <3>1
      <3>2. CASE k # j
        <4>1. k \in 1..n /\ k # i /\ k \in i + 1..j - 1 BY <1>1, <3>2
        <4>2. list[i].rssi >= list[k].rssi /\ new[k] = list[k] BY <2>2, <3>2, <4>1
        <4> QED BY <1>1, <1>2, <1>3, <2>2, <4>1, <4>2
      <3> QED BY <3>1, <3>2
    <2> QED BY <1>3, <2>1, <2>5, <2>6, <2>7, <2>8 DEF Exchanged
  <1>4. CASE ~(list[j].rssi > list[i].rssi)
    <2>1. Exchanged(list, i, j) = list BY <1>4 DEF Exchanged
    <2>2. \A k \in i + 1..j : list[i].rssi >= list[k].rssi
      <3> SUFFICES ASSUME NEW k \in i + 1..j PROVE list[i].rssi >= list[k].rssi
        OBVIOUS
      <3>1. CASE k = j BY <1>1, <1>2, <1>4, <3>1
      <3>2. CASE k # j
        <4>1. k \in i + 1..j - 1 BY <3>2
        <4> QED BY <4>1
      <3> QED BY <3>1, <3>2
    <2>3. Same(list, list) BY DEF Same
    <2> QED BY <2>1, <2>2, <2>3
  <1> QED BY <1>3, <1>4

\* An order of an order is an order of the same networks.
LEMMA SameTrans ==
    ASSUME NEW a, NEW b, NEW c, Same(a, b), Same(b, c)
    PROVE  Same(a, c)
  BY DEF Same

\* What get_scan_results makes of a table: the same networks, i of them placed.
Tables(list, i) == {new \in Seq(Entries) : Same(new, list) /\ Distinct(new) /\ Placed(new, i)}

\* A pass puts one more entry in its place.
LEMMA PassIs ==
    ASSUME NEW list \in Seq(Entries), Distinct(list),
           NEW n \in Nat, n = Len(list), NEW i \in 1..n, Placed(list, i - 1)
    PROVE  Pass(list, i) \in Tables(list, i)
  <1> DEFINE From(m) == {new \in Tables(list, i - 1) :
                            \A k \in i + 1..i + m : new[i].rssi >= new[k].rssi}
             S == [m \in 0..n - i |-> From(m)]
             step == [p \in (1..n - i) \X Seq(Entries) |-> Exchanged(p[2], i, i + p[1])]
             recursive(h) == h = [j \in i..n |-> IF j = i THEN list ELSE Exchanged(h[j - 1], i, j)]
             upto == CHOOSE h : recursive(h)
  <1>0. PICK w \in Nat : w = n - i BY ONLY n \in Nat, i \in 1..n
  <1>1. S \in [0..w -> SUBSET Seq(Entries)] BY <1>0 DEF Tables
  <1>2. list \in S[0]
    <2>1. Same(list, list) BY DEF Same
    <2>2. 0 \in 0..n - i /\ i + 1..i + 0 = {} OBVIOUS
    <2>3. list \in From(0) BY <2>1, <2>2 DEF Tables
    <2> QED BY <2>2, <2>3
  <1>3. ASSUME NEW m \in 1..w, NEW x \in S[m - 1]
        PROVE  Exchanged(x, i, i + m) \in S[m] /\ step[<<m, x>>] = Exchanged(x, i, i + m)
    <2>0. m - 1 \in 0..n - i /\ m \in 0..n - i /\ m \in 1..n - i BY <1>0
    <2>1. x \in From(m - 1) BY <2>0
    <2>2. /\ x \in Seq(Entries) /\ Same(x, list) /\ Distinct(x) /\ Placed(x, i - 1)
          /\ \A k \in i + 1..i + (m - 1) : x[i].rssi >= x[k].rssi
      BY <2>1 DEF Tables
    <2>3. n = Len(x) BY <2>2 DEF Same
    <2>4. PICK j \in i + 1..n : j = i + m BY <1>0
    <2>5. \A k \in i + 1..j - 1 : x[i].rssi >= x[k].rssi
      <3>1. j - 1 = i + (m - 1) BY <2>4
      <3> QED BY <2>2, <3>1
    <2> DEFINE new == Exchanged(x, i, j)
    <2>6. Same(new, x) /\ Distinct(new) /\ Placed(new, i - 1)
          /\ \A k \in i + 1..j : new[i].rssi >= new[k].rssi
      BY <2>2, <2>3, <2>5, ExchangedIs
    <2> HIDE DEF new
    <2>7. Same(new, list) BY <2>2, <2>6, SameTrans
    <2>8. new \in Seq(Entries) BY <2>6 DEF Same
    <2>9. new \in From(m) BY <2>4, <2>6, <2>7, <2>8 DEF Tables
    <2>10. new \in S[m] BY <2>0, <2>9
    <2>11. step[<<m, x>>] = Exchanged(x, i, i + m) BY <2>0, <2>2
    <2> QED BY <2>4, <2>10, <2>11 DEF new
  <1> HIDE DEF S, step
  <1>4. \A m \in 1..w : \A x \in S[m - 1] : step[<<m, x>>] \in S[m] BY <1>3
  <1>5. PICK f \in [0..w -> Seq(Entries)] :
           Recursive(f, list, w, step) /\ \A m \in 0..w : f[m] \in S[m]
    BY <1>1, <1>2, <1>4, RecursionKeeps
  <1>6. recursive([j \in i..n |-> f[j - i]])
    <2> DEFINE g == [j \in i..n |-> f[j - i]]
    <2> SUFFICES ASSUME NEW j \in i..n
                 PROVE  g[j] = IF j = i THEN list ELSE Exchanged(g[j - 1], i, j)
      OBVIOUS
    <2>1. CASE j = i
      <3>1. f[0] = list /\ j - i = 0 BY <1>5, <2>1 DEF Recursive
      <3> QED BY <2>1, <3>1
    <2>2. CASE j # i
      <3>1. /\ j - i \in 1..w /\ (j - i) - 1 \in 0..w /\ j - 1 \in i..n
            /\ (j - 1) - i = (j - i) - 1 /\ i + (j - i) = j
        BY <1>0, <2>2
      <3>2. f[j - i] = step[<<j - i, f[(j - i) - 1]>>] BY <1>5, <3>1 DEF Recursive
      <3>3. f[(j - i) - 1] \in S[(j - i) - 1] BY <1>5, <3>1
      <3>4. step[<<j - i, f[(j - i) - 1]>>] = Exchanged(f[(j - i) - 1], i, i + (j - i))
        BY <1>3, <3>1, <3>3
      <3>5. g[j] = f[j - i] /\ g[j - 1] = f[(j - i) - 1] BY <3>1
      <3> QED BY <2>2, <3>1, <3>2, <3>4, <3>5
    <2> QED BY <2>1, <2>2
  <1>7. recursive(upto) BY <1>6, Zenon
  <1>8. Pass(list, i) = upto[n]
    <2>1. Pass(list, i) = (CHOOSE h : h = [j \in i..Len(list) |->
                              IF j = i THEN list ELSE Exchanged(h[j - 1], i, j)])[Len(list)]
      BY Zenon DEF Pass
    <2> QED BY <2>1, n = Len(list)
  <1> HIDE DEF upto
  <1>9. PICK h : h = upto OBVIOUS
  <1>10. recursive(h) BY <1>7, <1>9
  <1>11. PICK g : g = [m \in 0..w |-> h[i + m]] OBVIOUS
  <1>12. g[0] = list BY <1>10, <1>11
  <1>13. ASSUME NEW m \in 1..w, g[m - 1] \in S[m - 1] PROVE g[m] = step[<<m, g[m - 1]>>]
    <2>1. m \in 0..w /\ m - 1 \in 0..w /\ i + m \in i..n /\ i + m # i
          /\ (i + m) - 1 = i + (m - 1)
      BY <1>0
    <2>2. g[m] = h[i + m] /\ g[m - 1] = h[(i + m) - 1] BY <1>11, <2>1
    <2>3. h[i + m] = Exchanged(h[(i + m) - 1], i, i + m) BY <1>10, <2>1
    <2> QED BY <1>3, <1>13, <2>2, <2>3
  <1>14. \A m \in 0..w : g[m] \in S[m]
    <2>1. \A m \in 1..w : g[m - 1] \in S[m - 1] => g[m] \in S[m] BY <1>4, <1>13
    <2>2. g[0] \in S[0] BY <1>2, <1>12
    <2> QED BY ONLY <2>1, <2>2, w \in Nat, RecursiveKeeps
  <1>15. Pass(list, i) \in From(w)
    <2>1. w \in 0..w /\ i + w = n BY <1>0
    <2>2. g[w] = Pass(list, i) BY <1>8, <1>9, <1>11, <2>1
    <2>3. S[w] = From(w) BY <1>0, <2>1 DEF S
    <2> QED BY <1>14, <2>1, <2>2, <2>3
  <1>16. PICK new : new = Pass(list, i) OBVIOUS
  <1>17. new \in Tables(list, i - 1) /\ \A k \in i + 1..n : new[i].rssi >= new[k].rssi
    <2>1. i + w = n BY <1>0
    <2> QED BY <1>15, <1>16, <2>1
  <1>18. new \in Seq(Entries) /\ Same(new, list) /\ Distinct(new) /\ Placed(new, i - 1)
    BY <1>17 DEF Tables
  <1>19. DOMAIN new = 1..n BY <1>18 DEF Same
  <1>20. Placed(new, i)
    <2> SUFFICES ASSUME NEW a \in 1..n, NEW b \in 1..n, a < b, a <= i
                 PROVE  new[a].rssi >= new[b].rssi
      BY <1>19 DEF Placed
    <2>1. CASE a = i
      <3>1. b \in i + 1..n BY <2>1
      <3> QED BY <1>17, <2>1, <3>1
    <2>2. CASE a # i
      <3>1. a <= i - 1 BY <2>2
      <3> QED BY <1>18, <1>19, <3>1 DEF Placed
    <2> QED BY <2>1, <2>2
  <1> QED BY <1>16, <1>18, <1>20 DEF Tables

\* The sort leaves every network, each in its place.
LEMMA SortedIs ==
    ASSUME NEW list \in Seq(Entries), Distinct(list), NEW n \in Nat, n = Len(list)
    PROVE  Sorted(list) \in Tables(list, n)
  <1> DEFINE S == [i \in 0..n |-> Tables(list, i)]
             step == [p \in (1..n) \X Seq(Entries) |-> Pass(p[2], p[1])]
             recursive(h) == h = [i \in 0..n |-> IF i = 0 THEN list ELSE Pass(h[i - 1], i)]
             after == CHOOSE h : recursive(h)
  <1>1. S \in [0..n -> SUBSET Seq(Entries)] BY DEF Tables
  <1>2. list \in S[0]
    <2>1. Same(list, list) BY DEF Same
    <2>2. Placed(list, 0) BY DEF Placed
    <2> QED BY <2>1, <2>2 DEF Tables
  <1>3. ASSUME NEW i \in 1..n, NEW x \in S[i - 1]
        PROVE  Pass(x, i) \in S[i] /\ step[<<i, x>>] = Pass(x, i)
    <2>1. i - 1 \in 0..n /\ i \in 0..n OBVIOUS
    <2>2. x \in Seq(Entries) /\ Same(x, list) /\ Distinct(x) /\ Placed(x, i - 1)
      BY <2>1 DEF Tables
    <2>3. n = Len(x) BY <2>2 DEF Same
    <2>4. Pass(x, i) \in Tables(x, i) BY <2>2, <2>3, PassIs
    <2>5. PICK new : new = Pass(x, i) OBVIOUS
    <2>6. new \in Seq(Entries) /\ Same(new, x) /\ Distinct(new) /\ Placed(new, i)
      BY <2>4, <2>5 DEF Tables
    <2>7. Same(new, list) BY <2>2, <2>6, SameTrans
    <2>8. new \in S[i] BY <2>1, <2>6, <2>7 DEF Tables
    <2>9. step[<<i, x>>] = Pass(x, i) BY <2>2
    <2> QED BY <2>5, <2>8, <2>9
  <1>4. S[n] = Tables(list, n) OBVIOUS
  <1> HIDE DEF S, step
  <1>5. \A i \in 1..n : \A x \in S[i - 1] : step[<<i, x>>] \in S[i] BY <1>3
  <1>6. PICK f \in [0..n -> Seq(Entries)] :
           Recursive(f, list, n, step) /\ \A i \in 0..n : f[i] \in S[i]
    BY <1>1, <1>2, <1>5, RecursionKeeps
  <1>7. recursive(f)
    <2> SUFFICES ASSUME NEW i \in 0..n
                 PROVE  f[i] = IF i = 0 THEN list ELSE Pass(f[i - 1], i)
      OBVIOUS
    <2>1. CASE i = 0 BY <1>6, <2>1 DEF Recursive
    <2>2. CASE i # 0
      <3>1. i \in 1..n /\ i - 1 \in 0..n BY <2>2
      <3>2. f[i - 1] \in S[i - 1] /\ f[i] = step[<<i, f[i - 1]>>] BY <1>6, <3>1 DEF Recursive
      <3> QED BY <1>3, <2>2, <3>1, <3>2
    <2> QED BY <2>1, <2>2
  <1>8. recursive(after) BY <1>7, Zenon
  <1>9. Sorted(list) = after[n]
    <2>1. Sorted(list) = (CHOOSE h : h = [i \in 0..Len(list) |->
                             IF i = 0 THEN list ELSE Pass(h[i - 1], i)])[Len(list)]
      BY Zenon DEF Sorted
    <2> QED BY <2>1, n = Len(list)
  <1> HIDE DEF after
  <1>10. PICK h : h = after OBVIOUS
  <1>11. recursive(h) BY <1>8, <1>10
  <1>12. \A i \in 1..n : h[i - 1] \in S[i - 1] => h[i] \in S[i]
    <2> SUFFICES ASSUME NEW i \in 1..n, h[i - 1] \in S[i - 1] PROVE h[i] \in S[i]
      OBVIOUS
    <2>1. i \in 0..n /\ i # 0 OBVIOUS
    <2>2. h[i] = Pass(h[i - 1], i) BY <1>11, <2>1
    <2>3. Pass(h[i - 1], i) \in S[i] BY <1>3
    <2> QED BY <2>2, <2>3
  <1>13. h[0] \in S[0] BY <1>2, <1>11
  <1>14. \A i \in 0..n : h[i] \in S[i] BY ONLY <1>12, <1>13, n \in Nat, RecursiveKeeps
  <1>15. n \in 0..n OBVIOUS
  <1> QED BY <1>4, <1>9, <1>10, <1>14, <1>15

-----------------------------------------------------------------------------

\* The room entries take, entry by entry.
Sums(f, list) ==
    /\ f[0] = 0
    /\ \A i \in 1..Len(list) : f[i] \in Int /\ f[i] = f[i - 1] + EntrySize[list[i].ssid]

\* The room a list takes is the last of its sums.
LEMMA TakenIs ==
    ASSUME NEW list \in Seq(Entries)
    PROVE  \E f : Sums(f, list) /\ Taken(list) = f[Len(list)]
  <1>1. PICK n \in Nat : n = Len(list) OBVIOUS
  <1> DEFINE step == [p \in (1..n) \X Int |-> p[2] + EntrySize[list[p[1]].ssid]]
             recursive(h) == h = [i \in 0..n |-> IF i = 0 THEN 0
                                                 ELSE h[i - 1] + EntrySize[list[i].ssid]]
             size == CHOOSE h : recursive(h)
  <1>2. ASSUME NEW i \in 1..n PROVE EntrySize[list[i].ssid] \in Nat
    <2>1. list[i] \in Entries BY <1>1
    <2>2. list[i].ssid \in Ssids BY <2>1 DEF Entries
    <2> QED BY <2>2, ScanAssumption
  <1>3. step \in [(1..n) \X Int -> Int] BY <1>2
  <1>4. \A i \in 1..n, x \in Int : step[<<i, x>>] = x + EntrySize[list[i].ssid] OBVIOUS
  <1> HIDE DEF step
  <1>5. PICK f \in [0..n -> Int] : Recursive(f, 0, n, step) 
    <2>1. PICK zero \in Int : zero = 0 OBVIOUS
    <2>2. PICK f \in [0..n -> Int] : Recursive(f, zero, n, step)
      BY <1>3, RecursionExists
    <2> QED BY <2>1, <2>2
  <1>6. recursive(f)
    <2> SUFFICES ASSUME NEW i \in 0..n
                 PROVE  f[i] = IF i = 0 THEN 0 ELSE f[i - 1] + EntrySize[list[i].ssid]
      OBVIOUS
    <2>1. CASE i = 0 BY <1>5, <2>1 DEF Recursive
    <2>2. CASE i # 0
      <3>1. i \in 1..n /\ i - 1 \in 0..n BY <2>2
      <3>2. f[i - 1] \in Int /\ f[i] = step[<<i, f[i - 1]>>] BY <1>5, <3>1 DEF Recursive
      <3> QED BY <1>4, <2>2, <3>1, <3>2
    <2> QED BY <2>1, <2>2
  <1>7. recursive(size) BY <1>6, Zenon
  <1>8. Taken(list) = size[n]
    <2>1. Taken(list) = (CHOOSE h : h = [i \in 0..Len(list) |->
                            IF i = 0 THEN 0
                            ELSE h[i - 1] + EntrySize[list[i].ssid]])[Len(list)]
      BY Zenon DEF Taken
    <2> QED BY <1>1, <2>1
  <1> HIDE DEF size
  <1>9. PICK h : h = size OBVIOUS
  <1>10. recursive(h) BY <1>7, <1>9
  <1> DEFINE good == {i \in 0..n : h[i] \in Int}
  <1>11. 0 \in good BY <1>10
  <1>12. ASSUME NEW i \in 0..n - 1, i \in good PROVE i + 1 \in good
    <2>1. i + 1 \in 1..n /\ i + 1 \in 0..n /\ i + 1 # 0 /\ (i + 1) - 1 = i OBVIOUS
    <2>2. h[i + 1] = h[i] + EntrySize[list[i + 1].ssid] BY <1>10, <2>1
    <2>3. h[i] \in Int /\ EntrySize[list[i + 1].ssid] \in Nat BY <1>2, <1>12, <2>1
    <2> QED BY <2>1, <2>2, <2>3
  <1> HIDE DEF good
  <1>13. 0..n \subseteq good BY <1>11, <1>12, Induction
  <1>14. \A i \in 1..n : h[i] \in Int /\ h[i] = h[i - 1] + EntrySize[list[i].ssid]
    BY <1>10, <1>13 DEF good
  <1>15. h[0] = 0 BY <1>10
  <1>16. Sums(h, list) BY <1>1, <1>14, <1>15 DEF Sums
  <1> QED BY <1>1, <1>8, <1>9, <1>16

\* The room a list takes is a number.
LEMMA TakenTyped ==
    ASSUME NEW list \in Seq(Entries)
    PROVE  Taken(list) \in Int
  <1>1. PICK n \in Nat : n = Len(list) OBVIOUS
  <1>2. PICK f : Sums(f, list) /\ Taken(list) = f[n] BY <1>1, TakenIs
  <1>3. CASE n = 0 BY <1>2, <1>3 DEF Sums
  <1>4. CASE n # 0
    <2>1. n \in 1..Len(list) BY <1>1, <1>4
    <2> QED BY <1>2, <2>1 DEF Sums
  <1> QED BY <1>3, <1>4

\* An empty list takes no room.
LEMMA TakenNone == Taken(<< >>) = 0
  <1>1. << >> \in Seq(Entries) /\ Len(<< >>) = 0 OBVIOUS
  <1> QED BY <1>1, TakenIs DEF Sums

\* An entry more takes its own size more.
LEMMA TakenAppend ==
    ASSUME NEW list \in Seq(Entries), NEW e \in Entries
    PROVE  /\ Taken(list) \in Int
           /\ Taken(Append(list, e)) = Taken(list) + EntrySize[e.ssid]
  <1>1. PICK n \in Nat : n = Len(list) OBVIOUS
  <1>2. PICK longer \in Seq(Entries) : longer = Append(list, e)
    <2>1. Append(list, e) \in Seq(Entries) OBVIOUS
    <2> QED BY <2>1
  <1>3. Len(longer) = n + 1 /\ longer[n + 1] = e /\ \A i \in 1..n : longer[i] = list[i]
    BY <1>1, <1>2
  <1>4. PICK f : Sums(f, list) /\ Taken(list) = f[n] BY <1>1, TakenIs
  <1>5. PICK g : Sums(g, longer) /\ Taken(longer) = g[n + 1] BY <1>3, TakenIs
  <1> DEFINE good == {i \in 0..n : f[i] = g[i] /\ f[i] \in Int}
  <1>6. 0 \in good BY <1>4, <1>5 DEF Sums
  <1>7. ASSUME NEW i \in 0..n - 1, i \in good PROVE i + 1 \in good
    <2>1. i + 1 \in 1..n /\ i + 1 \in 1..n + 1 /\ i + 1 \in 0..n /\ (i + 1) - 1 = i OBVIOUS
    <2>2. f[i + 1] \in Int /\ f[i + 1] = f[i] + EntrySize[list[i + 1].ssid]
      BY <1>1, <1>4, <2>1 DEF Sums
    <2>3. g[i + 1] = g[i] + EntrySize[longer[i + 1].ssid] BY <1>3, <1>5, <2>1 DEF Sums
    <2>4. f[i] = g[i] /\ list[i + 1] = longer[i + 1] BY <1>3, <1>7, <2>1
    <2> QED BY <2>1, <2>2, <2>3, <2>4
  <1> HIDE DEF good
  <1>8. 0..n \subseteq good BY <1>6, <1>7, Induction
  <1>9. f[n] = g[n] /\ f[n] \in Int
    <2>1. n \in 0..n OBVIOUS
    <2> QED BY <1>8, <2>1 DEF good
  <1>10. g[n + 1] = g[n] + EntrySize[longer[n + 1].ssid]
    <2>1. n + 1 \in 1..n + 1 /\ (n + 1) - 1 = n OBVIOUS
    <2> QED BY <1>3, <1>5, <2>1 DEF Sums
  <1> QED BY <1>2, <1>3, <1>4, <1>5, <1>9, <1>10

\* What the first i networks of a table make of the page: some of them, in order,
\* and the others had no room.
Pages(list, i) ==
    {html \in [room : Nat, shown : Seq(Entries)] :
        /\ html.room = HtmlRoom - Taken(html.shown)
        /\ \E at \in [1..Len(html.shown) -> 1..i] :
              /\ \A a, b \in 1..Len(html.shown) : a < b => at[a] < at[b]
              /\ \A a \in 1..Len(html.shown) : html.shown[a] = list[at[a]]
        /\ \A k \in 1..i : \/ \E a \in 1..Len(html.shown) : html.shown[a] = list[k]
                           \/ EntrySize[list[k].ssid] >= html.room}

\* The page starts empty, with all its room.
LEMMA EmptyPage ==
    ASSUME NEW list \in Seq(Entries)
    PROVE  [room |-> HtmlRoom, shown |-> << >>] \in Pages(list, 0)
  <1> DEFINE html == [room |-> HtmlRoom, shown |-> << >>]
  <1>1. << >> \in Seq(Entries) /\ Len(<< >>) = 0 OBVIOUS
  <1>2. html \in [room : Nat, shown : Seq(Entries)] BY <1>1, ScanAssumption
  <1>3. html.room = HtmlRoom - Taken(html.shown) BY TakenNone, ScanAssumption
  <1>4. \E at \in [1..Len(html.shown) -> 1..0] :
           /\ \A a, b \in 1..Len(html.shown) : a < b => at[a] < at[b]
           /\ \A a \in 1..Len(html.shown) : html.shown[a] = list[at[a]]
    <2>1. 1..Len(html.shown) = {} BY <1>1
    <2>2. [a \in {} |-> 0] \in [{} -> 1..0] OBVIOUS
    <2> QED BY <2>1, <2>2
  <1>5. \A k \in 1..0 : \/ \E a \in 1..Len(html.shown) : html.shown[a] = list[k]
                        \/ EntrySize[list[k].ssid] >= html.room
    OBVIOUS
  <1> HIDE DEF html
  <1>6. html \in Pages(list, 0) BY <1>2, <1>3, <1>4, <1>5 DEF Pages
  <1> QED BY <1>6 DEF html

\* A network is entered where it fits, and stays out where it does not.
LEMMA EnteredIs ==
    ASSUME NEW list \in Seq(Entries), NEW i \in 1..Len(list), NEW html \in Pages(list, i - 1)
    PROVE  Entered(html, list[i]) \in Pages(list, i)
  <1>1. PICK e \in Entries : e = list[i] OBVIOUS
  <1>2. PICK m \in Nat : m = Len(html.shown) BY DEF Pages
  <1>3. /\ html.room \in Nat /\ html.shown \in Seq(Entries)
        /\ html = [room |-> html.room, shown |-> html.shown]
        /\ html.room = HtmlRoom - Taken(html.shown)
    BY DEF Pages
  <1>4. PICK at \in [1..m -> 1..i - 1] :
              /\ \A a, b \in 1..m : a < b => at[a] < at[b]
              /\ \A a \in 1..m : html.shown[a] = list[at[a]]
    BY <1>2 DEF Pages
  <1>5. \A k \in 1..i - 1 : \/ \E a \in 1..m : html.shown[a] = list[k]
                            \/ EntrySize[list[k].ssid] >= html.room
    BY <1>2 DEF Pages
  <1>6. PICK size \in Nat : size = EntrySize[e.ssid]
    <2>1. e.ssid \in Ssids BY DEF Entries
    <2> QED BY <2>1, ScanAssumption
  <1>7. CASE size < html.room
    <2>1. PICK longer \in Seq(Entries) : longer = Append(html.shown, e)
      <3>1. Append(html.shown, e) \in Seq(Entries) BY <1>3
      <3> QED BY <3>1
    <2>2. Len(longer) = m + 1 /\ longer[m + 1] = e /\ \A a \in 1..m : longer[a] = html.shown[a]
      BY <1>2, <1>3, <2>1
    <2>3. PICK new : new = [room |-> html.room - size, shown |-> longer] OBVIOUS
    <2>4. Entered(html, list[i]) = new BY <1>1, <1>6, <1>7, <2>1, <2>3 DEF Entered
    <2>5. new \in [room : Nat, shown : Seq(Entries)] BY <1>3, <1>6, <1>7, <2>3
    <2>6. new.room = HtmlRoom - Taken(new.shown)
      <3>1. Taken(html.shown) \in Int /\ Taken(longer) = Taken(html.shown) + size
        BY <1>3, <1>6, <2>1, TakenAppend
      <3> QED BY <1>3, <1>6, <2>3, <3>1, ScanAssumption
    <2>7. PICK to : to = [a \in 1..m + 1 |-> IF a = m + 1 THEN i ELSE at[a]] OBVIOUS
    <2>8. to \in [1..m + 1 -> 1..i]
      <3>1. \A a \in 1..m : at[a] \in 1..i OBVIOUS
      <3> QED BY <2>7, <3>1
    <2>9. ASSUME NEW a \in 1..m + 1, NEW b \in 1..m + 1, a < b PROVE to[a] < to[b]
      <3>1. a \in 1..m /\ to[a] = at[a] /\ at[a] \in 1..i - 1 BY <2>7, <2>9
      <3>2. CASE b = m + 1 BY <2>7, <3>1, <3>2
      <3>3. CASE b # m + 1
        <4>1. b \in 1..m /\ to[b] = at[b] BY <2>7, <3>3
        <4> QED BY <1>4, <2>9, <3>1, <4>1
      <3> QED BY <3>2, <3>3
    <2>10. ASSUME NEW a \in 1..m + 1 PROVE longer[a] = list[to[a]]
      <3>1. CASE a = m + 1 BY <1>1, <2>2, <2>7, <3>1
      <3>2. CASE a # m + 1
        <4>1. a \in 1..m /\ to[a] = at[a] BY <2>7, <3>2
        <4> QED BY <1>4, <2>2, <4>1
      <3> QED BY <3>1, <3>2
    <2>11. ASSUME NEW k \in 1..i
           PROVE  \/ \E a \in 1..m + 1 : longer[a] = list[k]
                  \/ EntrySize[list[k].ssid] >= new.room
      <3>1. CASE k = i
        <4>1. m + 1 \in 1..m + 1 OBVIOUS
        <4> QED BY <1>1, <2>2, <3>1, <4>1
      <3>2. CASE k # i
        <4>1. k \in 1..i - 1 BY <3>2
        <4>2. CASE \E a \in 1..m : html.shown[a] = list[k]
          <5>1. PICK a \in 1..m : html.shown[a] = list[k] BY <4>2
          <5>2. a \in 1..m + 1 /\ longer[a] = list[k] BY <2>2, <5>1
          <5> QED BY <5>2
        <4>3. CASE EntrySize[list[k].ssid] >= html.room
          <5>1. list[k].ssid \in Ssids
            <6>1. list[k] \in Entries OBVIOUS
            <6> QED BY <6>1 DEF Entries
          <5>2. EntrySize[list[k].ssid] \in Nat BY <5>1, ScanAssumption
          <5> QED BY <1>3, <1>6, <2>3, <4>3, <5>2, SMTT(30)
        <4> QED BY <1>5, <4>1, <4>2, <4>3
      <3> QED BY <3>1, <3>2
    <2>12. new.shown = longer /\ Len(new.shown) = m + 1 BY <2>2, <2>3
    <2>13. \E at2 \in [1..Len(new.shown) -> 1..i] :
              /\ \A a, b \in 1..Len(new.shown) : a < b => at2[a] < at2[b]
              /\ \A a \in 1..Len(new.shown) : new.shown[a] = list[at2[a]]
      BY <2>8, <2>9, <2>10, <2>12
    <2> QED BY <2>4, <2>5, <2>6, <2>11, <2>12, <2>13 DEF Pages
  <1>8. CASE ~(size < html.room)
    <2>1. Entered(html, list[i]) = html BY <1>1, <1>6, <1>8 DEF Entered
    <2>2. at \in [1..m -> 1..i]
      <3>1. \A a \in 1..m : at[a] \in 1..i OBVIOUS
      <3> QED BY <3>1
    <2>3. ASSUME NEW k \in 1..i
          PROVE  \/ \E a \in 1..m : html.shown[a] = list[k]
                 \/ EntrySize[list[k].ssid] >= html.room
      <3>1. CASE k = i BY <1>1, <1>3, <1>6, <1>8, <3>1
      <3>2. CASE k # i
        <4>1. k \in 1..i - 1 BY <3>2
        <4> QED BY <1>5, <4>1
      <3> QED BY <3>1, <3>2
    <2>4. html \in [room : Nat, shown : Seq(Entries)] BY DEF Pages
    <2>5. \E at2 \in [1..Len(html.shown) -> 1..i] :
             /\ \A a, b \in 1..Len(html.shown) : a < b => at2[a] < at2[b]
             /\ \A a \in 1..Len(html.shown) : html.shown[a] = list[at2[a]]
      BY <1>2, <1>4, <2>2
    <2>6. \A k \in 1..i : \/ \E a \in 1..Len(html.shown) : html.shown[a] = list[k]
                          \/ EntrySize[list[k].ssid] >= html.room
      BY <1>2, <2>3
    <2>7. html \in Pages(list, i)
      BY <1>3, <2>4, <2>5, <2>6 DEF Pages
    <2> QED BY <2>1, <2>7
  <1> QED BY <1>7, <1>8, <1>3, <1>6

\* The list of a whole table is what its last network leaves of the page.
LEMMA ListedIs ==
    ASSUME NEW list \in Seq(Entries), NEW n \in Nat, n = Len(list)
    PROVE  \E html \in Pages(list, n) : Listed(list) = html.shown
  <1> DEFINE S == [i \in 0..n |-> Pages(list, i)]
             U == [room : Nat, shown : Seq(Entries)]
             empty == [room |-> HtmlRoom, shown |-> << >>]
             step == [p \in (1..n) \X U |-> Entered(p[2], list[p[1]])]
             recursive(h) == h = [i \in 0..n |-> IF i = 0 THEN empty
                                                 ELSE Entered(h[i - 1], list[i])]
             upto == CHOOSE h : recursive(h)
  <1>1. S \in [0..n -> SUBSET U] BY DEF Pages
  <1>2. empty \in S[0] BY EmptyPage
  <1>3. ASSUME NEW i \in 1..n, NEW x \in S[i - 1]
        PROVE  Entered(x, list[i]) \in S[i] /\ step[<<i, x>>] = Entered(x, list[i])
    <2>1. i - 1 \in 0..n /\ i \in 0..n OBVIOUS
    <2>2. x \in Pages(list, i - 1) BY <2>1
    <2>3. x \in U BY <2>2 DEF Pages
    <2>4. Entered(x, list[i]) \in Pages(list, i) BY <2>2, EnteredIs
    <2>5. step[<<i, x>>] = Entered(x, list[i]) BY <2>3
    <2> QED BY <2>1, <2>4, <2>5
  <1>4. S[n] = Pages(list, n) OBVIOUS
  <1> HIDE DEF S, step, U, empty
  <1>5. \A i \in 1..n : \A x \in S[i - 1] : step[<<i, x>>] \in S[i] BY <1>3
  <1>6. PICK f \in [0..n -> U] : Recursive(f, empty, n, step) /\ \A i \in 0..n : f[i] \in S[i]
    BY <1>1, <1>2, <1>5, RecursionKeeps
  <1>7. recursive(f)
    <2> SUFFICES ASSUME NEW i \in 0..n
                 PROVE  f[i] = IF i = 0 THEN empty ELSE Entered(f[i - 1], list[i])
      OBVIOUS
    <2>1. CASE i = 0 BY <1>6, <2>1 DEF Recursive
    <2>2. CASE i # 0
      <3>1. i \in 1..n /\ i - 1 \in 0..n BY <2>2
      <3>2. f[i - 1] \in S[i - 1] /\ f[i] = step[<<i, f[i - 1]>>] BY <1>6, <3>1 DEF Recursive
      <3> QED BY <1>3, <2>2, <3>1, <3>2
    <2> QED BY <2>1, <2>2
  <1>8. recursive(upto) BY <1>7, Zenon
  <1>9. Listed(list) = upto[n].shown
    <2>1. Listed(list) = (CHOOSE h : h = [i \in 0..Len(list) |->
                             IF i = 0 THEN [room |-> HtmlRoom, shown |-> << >>]
                             ELSE Entered(h[i - 1], list[i])])[Len(list)].shown
      BY Zenon DEF Listed
    <2> QED BY <2>1, n = Len(list) DEF empty
  <1> HIDE DEF upto
  <1>10. PICK h : h = upto OBVIOUS
  <1>11. recursive(h) BY <1>8, <1>10
  <1>12. \A i \in 1..n : h[i - 1] \in S[i - 1] => h[i] \in S[i]
    <2> SUFFICES ASSUME NEW i \in 1..n, h[i - 1] \in S[i - 1] PROVE h[i] \in S[i]
      OBVIOUS
    <2>1. i \in 0..n /\ i # 0 OBVIOUS
    <2>2. h[i] = Entered(h[i - 1], list[i]) BY <1>11, <2>1
    <2>3. Entered(h[i - 1], list[i]) \in S[i] BY <1>3
    <2> QED BY <2>2, <2>3
  <1>13. h[0] \in S[0] BY <1>2, <1>11
  <1>14. \A i \in 0..n : h[i] \in S[i] BY ONLY <1>12, <1>13, n \in Nat, RecursiveKeeps
  <1>15. n \in 0..n OBVIOUS
  <1> QED BY <1>4, <1>9, <1>10, <1>14, <1>15

\* A table of what was said: one entry per network, with its strongest signal, and
\* every network.
HeardOf(list, said) ==
    /\ list \in Seq(Entries) /\ Len(list) <= WIFI_SCAN_MAX /\ Distinct(list)
    /\ said \in [Ssids -> Signals \cup {0}]
    /\ \A i \in DOMAIN list : list[i].rssi = said[list[i].ssid]
    /\ \A s \in Ssids : said[s] = 0 \/ \E i \in DOMAIN list : list[i].ssid = s

ListInv ==
    /\ HeardOf(networks, inTime)
    /\ scanning \in BOOLEAN /\ active \in BOOLEAN /\ failed \in BOOLEAN
    /\ ~failed => scanning \/ ~active
    /\ ~failed /\ ~scanning => Placed(networks, Len(networks))

\* A scan that starts has heard nothing and lists nothing.
LEMMA NothingHeard == HeardOf(<< >>, Silence)
  <1>1. << >> \in Seq(Entries) /\ Len(<< >>) = 0 /\ DOMAIN << >> = {} OBVIOUS
  <1>2. 0 <= WIFI_SCAN_MAX BY ScanAssumption
  <1>3. Silence \in [Ssids -> Signals \cup {0}] /\ \A s \in Ssids : Silence[s] = 0 BY DEF Silence
  <1>4. Distinct(<< >>) BY <1>1 DEF Distinct
  <1> QED BY <1>1, <1>2, <1>3, <1>4 DEF HeardOf

\* In another order it says the same.
LEMMA SameHeard ==
    ASSUME NEW list, NEW other, NEW said, Same(list, other), Distinct(list), HeardOf(other, said)
    PROVE  HeardOf(list, said)
  <1>1. /\ list \in Seq(Entries) /\ Len(list) = Len(other)
        /\ \A i \in DOMAIN list : \E j \in DOMAIN other : list[i] = other[j]
        /\ \A j \in DOMAIN other : \E i \in DOMAIN list : list[i] = other[j]
    BY DEF Same
  <1>2. ASSUME NEW i \in DOMAIN list
        PROVE  list[i].rssi = said[list[i].ssid]
    <2>1. PICK j \in DOMAIN other : list[i] = other[j] BY <1>1
    <2> QED BY <1>1, <2>1, SMTT(30) DEF HeardOf
  <1>3. ASSUME NEW s \in Ssids
        PROVE  said[s] = 0 \/ \E i \in DOMAIN list : list[i].ssid = s
    <2>1. CASE said[s] # 0
      <3>1. PICK j \in DOMAIN other : other[j].ssid = s BY <1>1, <2>1 DEF HeardOf
      <3>2. PICK i \in DOMAIN list : list[i] = other[j] BY <1>1
      <3> QED BY <3>1, <3>2
    <2> QED BY <2>1
  <1> QED BY <1>1, <1>2, <1>3 DEF HeardOf

\* A report leaves a table of what was heard in time: it is in it already, is added, or
\* comes when the table is full.
LEMMA RecordedHeard ==
    ASSUME HeardOf(networks, inTime), NEW ssid \in Ssids \cup {NoName}, NEW rssi \in Signals,
           networks' = Recorded(ssid, rssi),
           inTime' = IF Len(networks) < WIFI_SCAN_MAX THEN Louder(inTime, ssid, rssi)
                     ELSE inTime
    PROVE  HeardOf(networks', inTime')
  <1>1. PICK n \in Nat : n = Len(networks) BY DEF HeardOf
  <1>2. /\ networks \in Seq(Entries) /\ DOMAIN networks = 1..n /\ n <= WIFI_SCAN_MAX
        /\ WIFI_SCAN_MAX \in Nat /\ rssi \in Nat \ {0}
        /\ \A i \in 1..n : networks[i] \in Entries
    BY <1>1, ScanAssumption DEF HeardOf
  <1>3. \A i \in 1..n : networks[i].ssid \in Ssids /\ networks[i].rssi \in Nat
    BY <1>2, ScanAssumption DEF Entries
  <1>4. /\ \A i, j \in 1..n : i # j => networks[i].ssid # networks[j].ssid
        /\ inTime \in [Ssids -> Signals \cup {0}]
        /\ \A i \in 1..n : networks[i].rssi = inTime[networks[i].ssid]
        /\ \A s \in Ssids : inTime[s] = 0 \/ \E i \in 1..n : networks[i].ssid = s
    BY <1>1, <1>2 DEF HeardOf, Distinct
  <1>5. \A s \in Ssids : inTime[s] \in Nat
    <2>1. \A s \in Ssids : inTime[s] \in Signals \cup {0} BY <1>4
    <2>2. \A r \in Signals \cup {0} : r \in Nat BY ScanAssumption
    <2> QED BY <2>1, <2>2
  <1>6. inTime' \in [Ssids -> Signals \cup {0}]
    <2>1. Louder(inTime, ssid, rssi) \in [Ssids -> Signals \cup {0}] BY <1>4 DEF Louder
    <2> QED BY <1>4, <2>1
  <1>7. n < WIFI_SCAN_MAX =>
           /\ \A s \in Ssids : s # ssid => inTime'[s] = inTime[s]
           /\ ssid \in Ssids => inTime'[ssid] = IF rssi > inTime[ssid] THEN rssi ELSE inTime[ssid]
    BY <1>1, <1>4 DEF Louder
  <1>8. CASE n >= WIFI_SCAN_MAX \/ ssid = NoName
    <2>1. networks' = networks BY <1>1, <1>8 DEF Recorded
    <2>2. ASSUME NEW s \in Ssids PROVE inTime'[s] = inTime[s]
      <3>1. CASE n >= WIFI_SCAN_MAX
        <4>1. inTime' = inTime BY <1>1, <1>2, <3>1
        <4> QED BY <4>1
      <3>2. CASE n < WIFI_SCAN_MAX
        <4>1. s # ssid BY <1>2, <1>8, <3>2, ScanAssumption
        <4> QED BY <1>7, <3>2, <4>1
      <3> QED BY <1>2, <3>1, <3>2
    <2>3. \A i \in 1..n : networks[i].rssi = inTime'[networks[i].ssid] BY <1>3, <1>4, <2>2
    <2>4. \A s \in Ssids : inTime'[s] = 0 \/ \E i \in 1..n : networks[i].ssid = s
      BY <1>4, <2>2
    <2>5. Distinct(networks)' BY <1>2, <1>4, <2>1 DEF Distinct
    <2> QED BY <1>1, <1>2, <1>6, <2>1, <2>3, <2>4, <2>5, SMTT(30) DEF HeardOf
  <1>9. CASE n < WIFI_SCAN_MAX /\ ssid # NoName /\ Known(ssid)
    <2>1. /\ networks' = [i \in 1..n |->
                             IF networks[i].ssid = ssid /\ rssi > networks[i].rssi
                             THEN [networks[i] EXCEPT !.rssi = rssi]
                             ELSE networks[i]]
          /\ ssid \in Ssids
      BY <1>1, <1>2, <1>9 DEF Recorded
    <2>2. ASSUME NEW i \in 1..n
          PROVE  /\ networks'[i] \in Entries
                 /\ networks'[i].ssid = networks[i].ssid
                 /\ networks'[i].rssi = inTime'[networks[i].ssid]
      <3>1. networks[i] \in Entries /\ networks[i].ssid \in Ssids
            /\ networks[i].rssi = inTime[networks[i].ssid]
        BY <1>2, <1>3, <1>4, <1>9
      <3>2. CASE networks[i].ssid = ssid /\ rssi > networks[i].rssi
        <4>1. networks'[i] = [networks[i] EXCEPT !.rssi = rssi] BY <2>1, <3>2
        <4>2. /\ networks'[i].ssid = networks[i].ssid /\ networks'[i].rssi = rssi
              /\ networks'[i] \in Entries
          BY <3>1, <4>1 DEF Entries
        <4> QED BY <1>7, <1>9, <2>1, <3>1, <3>2, <4>2
      <3>3. CASE ~(networks[i].ssid = ssid /\ rssi > networks[i].rssi)
        <4>1. networks'[i] = networks[i] BY <2>1, <3>3
        <4> QED BY <1>5, <1>7, <1>9, <2>1, <3>1, <3>3, <4>1
      <3> QED BY <3>2, <3>3
    <2>3. networks' \in [1..n -> Entries] BY <2>1, <2>2
    <2>4. networks' \in Seq(Entries) /\ Len(networks') = n /\ DOMAIN networks' = 1..n BY <2>3
    <2>5. Distinct(networks)' BY <1>4, <2>2, <2>4 DEF Distinct
    <2>6. \A i \in 1..n : networks'[i].rssi = inTime'[networks'[i].ssid] BY <2>2
    <2>7. ASSUME NEW s \in Ssids
          PROVE  inTime'[s] = 0 \/ \E i \in 1..n : networks'[i].ssid = s
      <3>1. CASE s = ssid
        <4>1. PICK i \in 1..n : networks[i].ssid = ssid BY <1>2, <1>9 DEF Known
        <4> QED BY <2>2, <3>1, <4>1
      <3>2. CASE s # ssid
        <4>1. inTime'[s] = inTime[s] BY <1>7, <1>9, <3>2
        <4> QED BY <1>2, <1>4, <1>9, <2>2, <4>1
      <3> QED BY <3>1, <3>2
    <2> QED BY <1>2, <1>6, <2>4, <2>5, <2>6, <2>7 DEF HeardOf
  <1>10. CASE n < WIFI_SCAN_MAX /\ ssid # NoName /\ ~Known(ssid)
    <2>1. PICK e \in Entries : e = [ssid |-> ssid, rssi |-> rssi] BY <1>10 DEF Entries
    <2>2. ssid \in Ssids /\ e.ssid = ssid /\ e.rssi = rssi BY <1>10, <2>1
    <2>3. networks' = Append(networks, e) BY <1>1, <1>2, <1>10, <2>1 DEF Recorded
    <2>4. PICK new \in Seq(Entries) : new = networks'
      <3>1. Append(networks, e) \in Seq(Entries) BY <1>2
      <3> QED BY <2>3, <3>1
    <2>5. /\ Len(new) = n + 1 /\ DOMAIN new = 1..n + 1 /\ new[n + 1] = e
          /\ \A i \in 1..n : new[i] = networks[i]
      BY <1>1, <1>2, <2>3, <2>4
    <2>6. \A i \in 1..n : networks[i].ssid # ssid BY <1>2, <1>10 DEF Known
    <2>7. inTime'[ssid] = rssi
      <3>1. inTime[ssid] = 0 BY <1>2, <1>4, <1>10, <2>2, <2>6
      <3> QED BY <1>2, <1>7, <1>10, <2>2, <3>1
    <2>8. Distinct(new)
      <3> SUFFICES ASSUME NEW i \in 1..n + 1, NEW j \in 1..n + 1, i # j
                   PROVE  new[i].ssid # new[j].ssid
        BY <2>5 DEF Distinct
      <3>1. CASE i \in 1..n /\ j \in 1..n BY <1>4, <2>5, <3>1
      <3>2. CASE i = n + 1 /\ j \in 1..n BY <2>2, <2>5, <2>6, <3>2
      <3>3. CASE i \in 1..n /\ j = n + 1 BY <2>2, <2>5, <2>6, <3>3
      <3> QED BY <3>1, <3>2, <3>3
    <2>9. ASSUME NEW i \in 1..n + 1
          PROVE  new[i].rssi = inTime'[new[i].ssid]
      <3>1. CASE i = n + 1 BY <1>2, <2>2, <2>5, <2>7, <3>1
      <3>2. CASE i # n + 1
        <4>1. i \in 1..n /\ new[i] = networks[i] BY <2>5, <3>2
        <4>2. networks[i].ssid # ssid /\ networks[i].ssid \in Ssids BY <1>3, <2>6, <4>1
        <4>3. inTime'[networks[i].ssid] = inTime[networks[i].ssid] BY <1>7, <1>10, <4>2
        <4> QED BY <1>2, <1>4, <1>10, <4>1, <4>3
      <3> QED BY <3>1, <3>2
    <2>10. ASSUME NEW s \in Ssids
           PROVE  inTime'[s] = 0 \/ \E i \in 1..n + 1 : new[i].ssid = s
      <3>1. n + 1 \in 1..n + 1 OBVIOUS
      <3>2. CASE s = ssid BY <2>2, <2>5, <3>1, <3>2
      <3>3. CASE s # ssid
        <4>1. inTime'[s] = inTime[s] BY <1>7, <1>10, <3>3
        <4>2. CASE inTime[s] # 0
          <5>1. PICK i \in 1..n : networks[i].ssid = s BY <1>2, <1>4, <1>10, <4>2
          <5>2. i \in 1..n + 1 /\ new[i].ssid = s BY <2>5, <5>1
          <5> QED BY <5>2
        <4> QED BY <4>1, <4>2
      <3> QED BY <3>2, <3>3
    <2>11. Len(new) <= WIFI_SCAN_MAX BY <1>2, <1>10, <2>5
    <2>12. HeardOf(new, inTime')
      BY <1>6, <2>5, <2>8, <2>9, <2>10, <2>11 DEF HeardOf
    <2> QED BY <2>4, <2>12
  <1> QED BY <1>2, <1>8, <1>9, <1>10

\* What get_scan_results gives main, once the scan it asked for ended.
LEMMA ResultsHeard ==
    ASSUME ListInv
    PROVE  /\ HeardOf(Results, inTime) /\ Len(Results) = Len(networks)
           /\ ~StillScanning /\ ~failed => Placed(Results, Len(Results))
  <1>1. CASE scanning /\ ~active
    <2>1. PICK n \in Nat : n = Len(networks) BY DEF ListInv, HeardOf
    <2>2. networks \in Seq(Entries) /\ Distinct(networks) BY DEF ListInv, HeardOf
    <2>3. PICK new : new = Sorted(networks) OBVIOUS
    <2>4. new \in Tables(networks, n) BY <2>1, <2>2, <2>3, SortedIs
    <2>5. Same(new, networks) /\ Distinct(new) /\ Placed(new, n) BY <2>4 DEF Tables
    <2>6. HeardOf(new, inTime) BY <2>5, SameHeard DEF ListInv
    <2>7. Len(new) = n BY <2>1, <2>5 DEF Same
    <2> QED BY <1>1, <2>1, <2>3, <2>5, <2>6, <2>7 DEF Results
  <1>2. CASE ~(scanning /\ ~active)
    <2>1. Results = networks BY <1>2 DEF Results
    <2>2. ~StillScanning => ~scanning BY <1>2 DEF StillScanning
    <2> QED BY <2>1, <2>2 DEF ListInv
  <1> QED BY <1>1, <1>2

\* Every step of the scan, and every turn of main, keeps such a table.
LEMMA ListStepInv ==
    ASSUME ListInv, ScanNext
    PROVE  ListInv'
  <1>0. HeardOf(networks, inTime) /\ scanning \in BOOLEAN /\ active \in BOOLEAN /\ failed \in BOOLEAN
    BY DEF ListInv
  <1>1. CASE ScanCallback
    <2>1. active /\ UNCHANGED <<scanning, active, failed>> BY <1>1 DEF ScanCallback
    <2>2. HeardOf(networks', inTime') BY <1>0, <1>1, RecordedHeard DEF ScanCallback
    <2> QED BY <2>1, <2>2 DEF ListInv
  <1>2. CASE ScanEnds
    <2>1. active' = FALSE /\ UNCHANGED <<networks, scanning, inTime, failed>>
      BY <1>2 DEF ScanEnds
    <2>2. HeardOf(networks', inTime') BY <1>0, <2>1 DEF HeardOf, Distinct
    <2>3. Placed(networks, Len(networks)) => Placed(networks, Len(networks))'
      BY <2>1 DEF Placed
    <2> QED BY <2>1, <2>2, <2>3 DEF ListInv
  <1>3. CASE PortalTurn
    <2>1. CASE StillScanning
      <3>1. UNCHANGED <<networks, scanning, active, inTime, failed>>
        BY <1>3, <2>1 DEF PortalTurn
      <3>2. HeardOf(networks', inTime') BY <1>0, <3>1 DEF HeardOf, Distinct
      <3> QED BY <2>1, <3>1, <3>2 DEF ListInv, StillScanning
    <2>2. CASE ~StillScanning /\ \E ok \in BOOLEAN : StartScan(ok)
      <3>1. PICK ok \in BOOLEAN : StartScan(ok) BY <2>2
      <3>2. /\ networks' = << >> /\ scanning' = ok /\ active' = (ok \/ active)
            /\ inTime' = Silence /\ failed' = ~ok
        BY <3>1 DEF StartScan
      <3>3. HeardOf(networks', inTime')
        BY <3>2, NothingHeard DEF HeardOf
      <3> QED BY <1>0, <3>2, <3>3 DEF ListInv
    <2>3. CASE /\ ~StillScanning /\ networks' = Results /\ scanning' = FALSE
               /\ UNCHANGED <<active, inTime, failed>>
      <3>1. HeardOf(Results, inTime) /\ (~failed => Placed(Results, Len(Results)))
        BY <2>3, ResultsHeard
      <3>2. HeardOf(networks', inTime') BY <2>3, <3>1 DEF HeardOf, Distinct
      <3>3. ~failed' => Placed(networks, Len(networks))'
        BY <2>3, <3>1 DEF Placed
      <3>4. ~failed' => ~active' BY <2>3 DEF ListInv, StillScanning
      <3> QED BY <1>0, <2>3, <3>2, <3>3, <3>4 DEF ListInv
    <2> QED BY <1>3, <2>1, <2>2, <2>3 DEF PortalTurn
  <1> QED BY <1>1, <1>2, <1>3 DEF ScanNext

\* What fits of such a table, once sorted, is a faithful list.
LEMMA ListIsFaithful == ListInv => ListFaithful
  <1> SUFFICES ASSUME ListInv, ~StillScanning, ~failed
               PROVE  Faithful(Listed(Results))
    BY DEF ListFaithful
  <1>1. PICK table : table = Results OBVIOUS
  <1>2. HeardOf(table, inTime) /\ Len(table) = Len(networks) /\ Placed(table, Len(table))
    BY <1>1, ResultsHeard
  <1>3. PICK n \in Nat : n = Len(table) BY <1>2 DEF HeardOf
  <1>4. /\ table \in Seq(Entries) /\ DOMAIN table = 1..n /\ Distinct(table)
        /\ \A i \in 1..n : table[i] \in Entries
    BY <1>2, <1>3 DEF HeardOf
  <1>5. PICK html \in Pages(table, n) : Listed(table) = html.shown BY <1>3, <1>4, ListedIs
  <1>6. PICK m \in Nat : m = Len(html.shown) BY DEF Pages
  <1>7. html.shown \in Seq(Entries) /\ DOMAIN html.shown = 1..m
        /\ html.room \in Nat /\ html.room = HtmlRoom - Taken(html.shown)
    BY <1>6 DEF Pages
  <1>8. PICK at \in [1..m -> 1..n] :
              /\ \A a, b \in 1..m : a < b => at[a] < at[b]
              /\ \A a \in 1..m : html.shown[a] = table[at[a]]
    BY <1>6 DEF Pages
  <1>9. \A k \in 1..n : \/ \E a \in 1..m : html.shown[a] = table[k]
                        \/ EntrySize[table[k].ssid] >= html.room
    BY <1>6 DEF Pages
  <1>10. ASSUME NEW a \in 1..m, NEW b \in 1..m, a < b
         PROVE  /\ html.shown[a].ssid # html.shown[b].ssid
                /\ html.shown[a].rssi >= html.shown[b].rssi
    <2>1. at[a] < at[b] /\ at[a] \in 1..n /\ at[b] \in 1..n BY <1>8, <1>10
    <2>2. table[at[a]].ssid # table[at[b]].ssid BY <1>4, <2>1 DEF Distinct
    <2>3. table[at[a]].rssi >= table[at[b]].rssi BY <1>2, <1>3, <1>4, <2>1 DEF Placed
    <2> QED BY <1>8, <2>2, <2>3
  <1>11. ASSUME NEW a \in 1..m
         PROVE  html.shown[a].rssi = inTime[html.shown[a].ssid]
    <2>1. at[a] \in 1..n OBVIOUS
    <2> QED BY <1>2, <1>4, <1>8, <2>1 DEF HeardOf
  <1>12. ASSUME NEW s \in Ssids, inTime[s] # 0
         PROVE  \/ \E a \in 1..m : html.shown[a].ssid = s
                \/ Taken(html.shown) + EntrySize[s] >= HtmlRoom
    <2>1. PICK k \in 1..n : table[k].ssid = s BY <1>2, <1>4, <1>12 DEF HeardOf
    <2>2. CASE \E a \in 1..m : html.shown[a] = table[k] BY <2>1, <2>2
    <2>3. CASE EntrySize[s] >= html.room
      <3>1. EntrySize[s] \in Nat /\ HtmlRoom \in Nat BY ScanAssumption
      <3>2. Taken(html.shown) \in Int BY <1>7, TakenTyped
      <3> QED BY <1>7, <2>3, <3>1, <3>2
    <2> QED BY <1>9, <2>1, <2>2, <2>3
  <1>13. Faithful(html.shown) BY <1>7, <1>10, <1>11, <1>12 DEF Faithful
  <1> QED BY <1>1, <1>5, <1>13

-----------------------------------------------------------------------------
(* The modem. *)

\* What a part claims is what the modem answered to the last command.
Own(parts) ==
    \A i \in DOMAIN parts :
        /\ parts[i].own
        /\ parts[i].what \in Finals => parts[i].what = answered

ModemInv ==
    /\ owed \in Seq(ModemParts) /\ rx \in Seq(ModemParts) /\ resp \in Seq(ModemParts)
    /\ ~late => Own(owed) /\ Own(rx) /\ Own(resp)
    /\ AnswerIsOwn

\* An answer claims what it is.
LEMMA AnswerOwn ==
    ASSUME NEW result \in AnswersGiven
    PROVE  /\ Answer(result) \in Seq(ModemParts)
           /\ \A i \in DOMAIN Answer(result) :
                 /\ Answer(result)[i].own
                 /\ Answer(result)[i].what \in Finals => Answer(result)[i].what = result
  <1>1. CASE result = "OK"
    BY <1>1 DEF Answer, Part, ModemParts, Finals
  <1>2. CASE result = "ERROR"
    BY <1>2 DEF Answer, Part, ModemParts, Finals
  <1>3. CASE result = "silent"
    BY <1>3 DEF Answer, Part, ModemParts, Finals
  <1> QED BY <1>1, <1>2, <1>3 DEF AnswersGiven, Finals

\* Parts that are no longer own are parts ...
LEMMA OlderTyped ==
    ASSUME NEW parts \in Seq(ModemParts)
    PROVE  Older(parts) \in Seq(ModemParts)
  <1>1. \A i \in DOMAIN parts : parts[i] \in ModemParts OBVIOUS
  <1>2. \A i \in DOMAIN parts : [parts[i] EXCEPT !.own = FALSE] \in ModemParts
    BY <1>1 DEF ModemParts
  <1> QED BY <1>2 DEF Older

\* ... and of nothing, nothing is left.
LEMMA OlderNothing == Older(<< >>) = << >>
  <1> DEFINE s == Older(<< >>)
  <1>1. << >> \in Seq(ModemParts) OBVIOUS
  <1>2. s \in Seq(ModemParts) BY <1>1, OlderTyped
  <1>3. DOMAIN s = {} BY DEF Older
  <1> HIDE DEF s
  <1>4. Len(s) = 0 BY <1>2, <1>3
  <1>5. s = << >> BY <1>2, <1>4
  <1> QED BY <1>5 DEF s

\* With nothing of an earlier answer kept, what is owed is the new answer.
LEMMA NothingOld ==
    ASSUME NEW old, old = << >>, NEW new \in Seq(ModemParts)
    PROVE  old \o new = new
  OBVIOUS

\* What Reset and check leave is inside the invariant.
LEMMA ModemInitInv == ModemInit => ModemInv
  <1> SUFFICES ASSUME ModemInit PROVE ModemInv
    OBVIOUS
  <1>1. PICK left \in {<< >>, <<Part("OK")>>, Answer("OK"), Answer("ERROR")}, result \in AnswersGiven :
           /\ owed = Older(left) \o Answer(result)
           /\ late = (left # << >>)
           /\ answered = result
    BY DEF ModemInit
  <1>2. left \in Seq(ModemParts)
    <2>1. Part("OK") \in ModemParts BY DEF Part, ModemParts, Finals
    <2>2. <<Part("OK")>> \in Seq(ModemParts) BY <2>1
    <2>3. Answer("OK") \in Seq(ModemParts) /\ Answer("ERROR") \in Seq(ModemParts)
      BY AnswerOwn DEF AnswersGiven, Finals
    <2>4. CASE left = << >> BY <2>4
    <2> QED BY <2>2, <2>3, <2>4
  <1>3. owed \in Seq(ModemParts)
    BY <1>1, <1>2, AnswerOwn, OlderTyped
  <1>4. ~late => Own(owed)
    <2>1. ~late => Older(left) = << >> BY <1>1, OlderNothing
    <2>2. ~late => owed = Answer(result) BY <1>1, <2>1, AnswerOwn, NothingOld
    <2> QED BY <1>1, <2>2, AnswerOwn DEF Own
  <1>5. rx = << >> /\ resp = << >> /\ call = "check" BY DEF ModemInit
  <1> QED BY <1>3, <1>4, <1>5 DEF ModemInv, Own, AnswerIsOwn

\* A command sent while nothing was owed is followed by its own answer only.
LEMMA SendAtInv ==
    ASSUME ModemInv, NEW cmd \in Commands, SendAt(cmd)
    PROVE  ModemInv'
  <1>1. PICK result \in AnswersGiven, old \in {Older(owed), << >>} :
           /\ owed' = old \o Answer(result)
           /\ answered' = result
           /\ late' = (old # << >>)
    BY DEF SendAt
  <1>2. rx' = << >> /\ resp' = << >> /\ call' = cmd /\ cmd # "idle"
    BY DEF SendAt, Flushed, Commands
  <1>3. old \in Seq(ModemParts)
    <2>1. CASE old = << >> BY <2>1
    <2>2. CASE old = Older(owed) BY <2>2, OlderTyped DEF ModemInv
    <2> QED BY <2>1, <2>2
  <1>4. owed' \in Seq(ModemParts) BY <1>1, <1>3, AnswerOwn
  <1>5. ~late' => Own(owed)'
    <2>1. ~late' => owed' = Answer(result) BY <1>1, AnswerOwn, NothingOld
    <2> QED BY <1>1, <2>1, AnswerOwn DEF Own
  <1> QED BY <1>2, <1>4, <1>5 DEF ModemInv, Own, AnswerIsOwn

\* Moving the first part of one sequence to the end of another keeps them own.
LEMMA Moved ==
    ASSUME NEW from \in Seq(ModemParts), NEW to \in Seq(ModemParts), from # << >>
    PROVE  /\ Tail(from) \in Seq(ModemParts)
           /\ Append(to, Head(from)) \in Seq(ModemParts)
           /\ Own(from) => Own(Tail(from))
           /\ Own(from) /\ Own(to) => Own(Append(to, Head(from)))
  <1>1. Tail(from) \in Seq(ModemParts) /\ Head(from) = from[1] /\ 1 \in DOMAIN from
        /\ Head(from) \in ModemParts
    OBVIOUS
  <1>2. \A i \in DOMAIN Tail(from) : i + 1 \in DOMAIN from /\ Tail(from)[i] = from[i + 1]
    OBVIOUS
  <1>3. Own(from) => Own(Tail(from)) BY <1>2 DEF Own
  <1>4. \A i \in DOMAIN Append(to, Head(from)) :
            \/ i \in DOMAIN to /\ Append(to, Head(from))[i] = to[i]
            \/ Append(to, Head(from))[i] = from[1]
    BY <1>1
  <1>5. Own(from) /\ Own(to) => Own(Append(to, Head(from))) BY <1>1, <1>4 DEF Own
  <1>6. Append(to, Head(from)) \in Seq(ModemParts) BY <1>1
  <1> QED BY <1>1, <1>3, <1>5, <1>6

\* A verdict of a text that is its own says what the modem answered.
LEMMA VerdictOwn ==
    ASSUME NEW parts \in Seq(ModemParts), Own(parts), NEW v \in Verdict(call, parts), v # "none"
    PROVE  /\ \A i \in DOMAIN parts : parts[i].own
           /\ answered = (IF v = "ok" THEN "OK" ELSE "ERROR")
  <1>1. \A what \in Finals : Has(parts, what) => answered = what BY DEF Has, Own
  <1>2. \/ v = "ok" /\ Has(parts, "OK")
        \/ v = "error" /\ Has(parts, "ERROR")
    BY DEF Verdict, Named
  <1> QED BY <1>1, <1>2 DEF Own, Finals

\* A page made of own parts says what the modem answered.
LEMMA EndsOwn ==
    ASSUME NEW parts \in Seq(ModemParts), Ends(parts), UNCHANGED <<late, answered>>,
           ~late => Own(parts)
    PROVE  AnswerIsOwn'
  <1>1. PICK v \in Verdict(call, parts) :
           page' = [verdict |-> v, own |-> \A i \in DOMAIN parts : parts[i].own]
    BY DEF Ends
  <1>2. page'.verdict = v /\ page'.own = (\A i \in DOMAIN parts : parts[i].own)
    BY <1>1
  <1>3. CASE late \/ v = "none" BY <1>2, <1>3 DEF AnswerIsOwn
  <1>4. CASE ~late /\ v # "none"
    <2>1. /\ \A i \in DOMAIN parts : parts[i].own
          /\ answered = (IF v = "ok" THEN "OK" ELSE "ERROR")
      BY <1>4, VerdictOwn
    <2> QED BY <1>2, <2>1 DEF AnswerIsOwn
  <1> QED BY <1>3, <1>4

\* Every step keeps the parts and the page own, unless an answer was late.
LEMMA ModemStepInv ==
    ASSUME ModemInv, ModemNext
    PROVE  ModemInv'
  <1>1. CASE \E cmd \in Commands \ {"check"} : SendAt(cmd)
    BY <1>1, SendAtInv
  <1>2. CASE PartArrives
    <2>1. /\ owed # << >> /\ owed' = Tail(owed)
          /\ rx' = Append(rx, Head(owed)) \/ rx' = rx
          /\ resp' = resp /\ late' = late /\ answered' = answered /\ page' = page /\ call' = call
      BY <1>2 DEF PartArrives
    <2>2. owed' \in Seq(ModemParts) /\ rx' \in Seq(ModemParts)
      BY <2>1, Moved DEF ModemInv
    <2>3. ~late => Own(owed') /\ Own(rx') /\ Own(resp')
      BY <2>1, Moved DEF ModemInv
    <2>4. AnswerIsOwn' BY <2>1 DEF ModemInv, AnswerIsOwn
    <2> QED BY <2>1, <2>2, <2>3, <2>4 DEF ModemInv, Own
  <1>3. CASE ReadPart
    <2> DEFINE parts == Append(resp, Head(rx))
    <2>1. /\ rx # << >> /\ rx' = Tail(rx) /\ call # "idle"
          /\ Ends(parts) \/ (resp' = parts /\ call' = call /\ page' = page)
          /\ owed' = owed /\ late' = late /\ answered' = answered
      BY <1>3 DEF ReadPart
    <2>2. rx' \in Seq(ModemParts) /\ parts \in Seq(ModemParts) /\ owed' \in Seq(ModemParts)
      BY <2>1, Moved DEF ModemInv
    <2>3. ~late => Own(owed') /\ Own(rx') /\ Own(parts)
      BY <2>1, Moved DEF ModemInv
    <2> HIDE DEF parts
    <2>4. resp' = parts BY <2>1 DEF Ends
    <2>5. AnswerIsOwn'
      <3>1. CASE Ends(parts) BY <2>1, <2>2, <2>3, <3>1, EndsOwn
      <3>2. CASE call' = call BY <2>1, <3>2 DEF AnswerIsOwn
      <3> QED BY <2>1, <3>1, <3>2
    <2> QED BY <2>1, <2>2, <2>3, <2>4, <2>5 DEF ModemInv, Own
  <1>4. CASE TimeOut
    <2>1. Ends(resp) /\ UNCHANGED <<owed, rx, late, answered>> BY <1>4 DEF TimeOut
    <2>2. resp' = resp BY <2>1 DEF Ends
    <2>3. AnswerIsOwn' BY <2>1, EndsOwn DEF ModemInv
    <2> QED BY <2>1, <2>2, <2>3 DEF ModemInv, Own
  <1> QED BY <1>1, <1>2, <1>3, <1>4 DEF ModemNext

-----------------------------------------------------------------------------
(* The clock chip. *)

\* The two digits of a number.
LEMMA TenDivides == \A n \in Nat : /\ n = 10 * (n \div 10) + (n % 10)
                                 /\ n \div 10 \in Nat
                                 /\ n % 10 \in 0..9
  <1> SUFFICES ASSUME NEW n \in Nat
               PROVE  n = 10 * (n \div 10) + (n % 10) /\ n \div 10 \in Nat /\ n % 10 \in 0..9
    OBVIOUS
  <1>1. n \div 10 \in Nat OBVIOUS
  <1>2. n % 10 \in 0..9 OBVIOUS
  <1>3. n = 10 * (n \div 10) + (n % 10) OBVIOUS
  <1> QED BY <1>1, <1>2, <1>3

\* The largest value of a field of a date, the year among them until 2099.
Largest == <<59, 59, 23, 7, 31, 12, 99>>

\* The registers of a date, one by one.
LEMMA Fields == \A i \in DateFields : i \in {1, 2, 3, 4, 5, 6, 7}
  BY DEF DateFields

\* What set_time writes is a byte.
LEMMA Byte == \A d \in 0..255 : dec_to_bcd(d) \in 0..255
  BY DEF dec_to_bcd

\* Two digits come back from a register, whatever the bits beside them.
LEMMA BackFromBcd ==
    ASSUME NEW i \in DateFields, NEW d \in 0..Largest[i]
    PROVE  bcd_to_dec(dec_to_bcd(d) % Masks[i]) = d
  <1> DEFINE b == ((d \div 10) * 16) + (d % 10)
  <1>1. d \in 0..99 BY Fields DEF Largest
  <1>2. PICK q \in 0..9, r \in 0..9 : d = 10 * q + r /\ q = d \div 10 /\ r = d % 10
    <2>1. d = 10 * (d \div 10) + (d % 10) /\ d \div 10 \in Nat /\ d % 10 \in 0..9
      BY <1>1, TenDivides
    <2>2. d \div 10 \in 0..9 BY <1>1, <2>1
    <2> QED BY <2>1, <2>2
  <1>3. b = 16 * q + r /\ b \in 0..153 BY <1>2
  <1>4. dec_to_bcd(d) = b BY <1>3 DEF dec_to_bcd
  <1>5. b < Masks[i]
    <2>1. d <= 59 => b <= 89 BY <1>2, <1>3
    <2>2. d <= 23 => b <= 35 BY <1>2, <1>3
    <2>3. d <= 7 => b <= 7 BY <1>2, <1>3
    <2>4. d <= 31 => b <= 49 BY <1>2, <1>3
    <2>5. d <= 12 => b <= 18 BY <1>2, <1>3
    <2> HIDE DEF b
    <2> QED BY Fields, <1>3, <2>1, <2>2, <2>3, <2>4, <2>5 DEF Largest, Masks
  <1>6. Masks[i] \in Nat \ {0} BY Fields DEF Masks
  <1>7. b % Masks[i] = b
    <2> HIDE DEF b
    <2>1. PICK m \in Nat \ {0} : m = Masks[i] BY <1>6
    <2>2. b \in 0..m - 1 BY <1>3, <1>5, <2>1
    <2>3. b % m = b BY <2>2
    <2> QED BY <2>1, <2>3
  <1>8. b \div 16 = q /\ b % 16 = r
    <2> HIDE DEF b
    <2> QED BY <1>3
  <1> QED BY <1>2, <1>4, <1>7, <1>8 DEF bcd_to_dec

\* What a form sets is bytes, and every field but the year is a field of a date.
LEMMA FormFields ==
    ASSUME NEW f \in Forms
    PROVE  /\ FromForm(f) \in [DateFields -> 0..255]
           /\ \A i \in DateFields : i # 7 => FromForm(f)[i] <= Largest[i]
  <1>1. /\ f \in Seq(Nat) /\ Len(f) = 7
        /\ f[1] <= 59 /\ f[2] <= 59 /\ f[3] <= 23
        /\ f[4] <= 6 /\ f[5] <= 31 /\ f[6] <= 12
    BY RtcAssumption
  <1>2. \A i \in DateFields : f[i] \in Nat
    <2>3. f \in Seq(Nat) BY <1>1
    <2>1. \A i \in 1..Len(f) : f[i] \in Nat BY ONLY <2>3
    <2>2. \A i \in 1..7 : f[i] \in Nat BY <1>1, <2>1
    <2> QED BY <2>2 DEF DateFields
  <1>3. ASSUME NEW i \in DateFields
        PROVE  FromForm(f)[i] = (CASE i = 4 /\ f[4] = 0 -> 7
                                   [] i = 7 -> f[7] - 2000
                                   [] OTHER -> f[i]) % 256
    BY DEF FromForm
  <1>4. FromForm(f) \in [DateFields -> 0..255]
    <2> SUFFICES ASSUME NEW i \in DateFields PROVE FromForm(f)[i] \in 0..255
      BY DEF FromForm
    <2>1. f[i] \in Nat /\ f[7] \in Nat BY <1>2 DEF DateFields
    <2>2. CASE i = 4 /\ f[4] = 0 BY <1>3, <2>2
    <2>3. CASE i = 7
      <3>1. FromForm(f)[i] = (f[7] - 2000) % 256 BY <1>3, <2>3
      <3> QED BY <2>1, <3>1
    <2>4. CASE i # 7 /\ ~(i = 4 /\ f[4] = 0)
      <3>1. FromForm(f)[i] = f[i] % 256 BY <1>3, <2>4
      <3> QED BY <2>1, <3>1
    <2> QED BY <2>2, <2>3, <2>4
  <1>5. ASSUME NEW i \in DateFields, i # 7 PROVE FromForm(f)[i] <= Largest[i]
    <2>1. f[i] \in Nat /\ f[i] <= Largest[i]
      BY <1>1, <1>2, <1>5, Fields, SMTT(30) DEF Largest
    <2>2. Largest[i] \in 0..99 BY Fields DEF Largest
    <2>3. CASE i = 4 /\ f[4] = 0
      <3>1. FromForm(f)[i] = 7 % 256 BY <1>3, <2>3
      <3> QED BY <2>3, <3>1 DEF Largest
    <2>4. CASE ~(i = 4 /\ f[4] = 0)
      <3>1. FromForm(f)[i] = f[i] % 256 BY <1>3, <1>5, <2>4
      <3>2. f[i] \in 0..255 BY <2>1, <2>2
      <3> QED BY <2>1, <3>1, <3>2
    <2> QED BY <2>3, <2>4
  <1> QED BY <1>4, <1>5

\* The fraction of a degree, and a temperature of which only a tenth can differ.
LEMMA Degrees ==
    ASSUME NEW raw \in -512..511, raw \notin -3..-1, NEW tv, tv = Quot(raw * 10, 4),
           NEW whole, whole = Quot(tv, 10), NEW tenths, tenths = Tenths(tv)
    PROVE  /\ tenths \in 0..9
           /\ 2 * (IF whole < 0 THEN 10 * whole - tenths ELSE 10 * whole + tenths)
                 - 5 * raw \in -1..1
  <1>1. CASE raw >= 0
    <2>1. tv = (raw * 10) \div 4 /\ tv \in Nat BY <1>1 DEF Quot
    <2>2. 2 * tv - 5 * raw \in -1..1 BY <1>1, <2>1
    <2>3. whole = tv \div 10 /\ tenths = tv % 10 BY <2>1 DEF Quot, Rem, Tenths
    <2>4. tenths \in 0..9 /\ whole \in Nat /\ 10 * whole + tenths = tv
      BY <2>1, <2>3, TenDivides
    <2> QED BY <1>1, <2>2, <2>4
  <1>2. CASE raw < 0
    <2>1. PICK n \in 1..512 : raw = -n BY <1>2
    <2>2. PICK u \in Nat : u = (n * 10) \div 4 BY <2>1
    <2>3. tv = -u BY <1>2, <2>1, <2>2 DEF Quot
    <2>4. 2 * u - 5 * n \in -1..0 BY <2>2
    <2>5. u > 0 BY <2>4
    <2>6. whole = -(u \div 10) /\ tenths = u % 10 BY <2>3, <2>5 DEF Quot, Rem, Tenths
    <2>7. PICK w \in Nat : w = u \div 10 OBVIOUS
    <2>8. tenths \in 0..9 /\ 10 * w + tenths = u /\ whole = -w BY <2>6, <2>7
    <2>9. w > 0 BY <2>1, <2>4, <2>8
    <2> QED BY <2>1, <2>4, <2>8, <2>9
  <1> QED BY <1>1, <1>2

-----------------------------------------------------------------------------
(* The clock: what is told to be set is in the registers. *)

ToldDate ==
    told.ok => /\ told.dt \in [DateFields -> 0..255]
               /\ \A i \in DateFields : regs[i] = dec_to_bcd(told.dt[i])
               /\ \A i \in DateFields : i # 7 => told.dt[i] <= Largest[i]

\* What is shown was read since the registers were written: on the page, when
\* the chip is at raw quarters of a degree, or in a line.
Displayed(raw, read) ==
    LET tv == Quot((IF read THEN raw ELSE 0) * 10, 4)
    IN  [ok |-> TRUE, dt |-> Decoded, page |-> TRUE, raw |-> raw,
         read |-> read, whole |-> Quot(tv, 10), tenths |-> Tenths(tv)]
Dated ==
    [ok |-> TRUE, dt |-> Decoded, page |-> FALSE, raw |-> 0,
     read |-> FALSE, whole |-> 0, tenths |-> 0]

ShownReading ==
    shown.ok => \/ shown = Dated
                \/ \E raw \in -512..511, read \in BOOLEAN : shown = Displayed(raw, read)

RtcInv ==
    /\ regs \in [DateFields -> 0..255]
    /\ ToldDate
    /\ ShownReading

\* A chip that was never set has bytes, and nothing was told or shown.
LEMMA RtcInitInv == RtcInit => RtcInv
  <1> SUFFICES ASSUME RtcInit PROVE RtcInv
    OBVIOUS
  <1>1. regs \in [DateFields -> 0..255]
    <2>1. FirstRegs \in Seq(0..255) /\ Len(FirstRegs) = 7 BY RtcAssumption
    <2>2. PICK r \in Seq(0..255) : r = FirstRegs BY <2>1
    <2>4. r \in [1..Len(r) -> 0..255] BY LenProperties
    <2>5. FirstRegs \in [1..7 -> 0..255] BY <2>1, <2>2, <2>4
    <2> QED BY <2>5 DEF RtcInit, DateFields
  <1>2. ~told.ok /\ ~shown.ok BY DEF RtcInit, Nothing
  <1> QED BY <1>1, <1>2 DEF RtcInv, ToldDate, ShownReading

\* A page or a line shows the date in the registers, or fails.
LEMMA ReadInv ==
    ASSUME RtcInv, UNCHANGED <<regs, told>>,
           \/ shown' = Nothing
           \/ shown' = Dated
           \/ \E raw \in -512..511, read \in BOOLEAN : shown' = Displayed(raw, read)
    PROVE  RtcInv'
  <1>1. regs' = regs /\ told' = told /\ Decoded' = Decoded BY DEF Decoded
  <1>2. ToldDate' BY <1>1 DEF RtcInv, ToldDate
  <1>3. Dated' = Dated /\ \A raw, read : Displayed(raw, read)' = Displayed(raw, read)
    BY <1>1 DEF Displayed, Dated
  <1>4. ShownReading'
    <2>1. CASE shown' = Nothing BY <2>1 DEF ShownReading, Nothing
    <2>2. CASE shown' = Dated BY <1>3, <2>2 DEF ShownReading
    <2>3. ASSUME NEW raw \in -512..511, NEW read \in BOOLEAN, shown' = Displayed(raw, read)
          PROVE  ShownReading'
      BY <1>3, <2>3 DEF ShownReading
    <2> QED BY <2>1, <2>2, <2>3
  <1> QED BY <1>1, <1>2, <1>4 DEF RtcInv

\* A setting, complete or broken off, and a reading keep what is told and shown.
LEMMA RtcStepInv ==
    ASSUME RtcInv, RtcNext
    PROVE  RtcInv'
  <1>1. CASE RtcSet
    <2>1. PICK f \in Forms : set_time(FromForm(f)) BY <1>1 DEF RtcSet
    <2>2. PICK dt : dt = FromForm(f) OBVIOUS
    <2>3. dt \in [DateFields -> 0..255] /\ \A i \in DateFields : i # 7 => dt[i] <= Largest[i]
      BY <2>2, FormFields
    <2>4. PICK n \in Cuts \cup {7}, ok \in BOOLEAN :
             /\ ok => n = 7
             /\ regs' = [i \in DateFields |-> IF i <= n THEN dec_to_bcd(dt[i]) ELSE regs[i]]
             /\ told' = IF ok THEN [ok |-> TRUE, dt |-> dt] ELSE Nothing
      BY <2>1, <2>2 DEF set_time
    <2>5. regs' \in [DateFields -> 0..255]
      <3>1. \A i \in DateFields : dec_to_bcd(dt[i]) \in 0..255 /\ regs[i] \in 0..255
        BY <2>3, Byte DEF RtcInv
      <3> QED BY <2>4, <3>1
    <2>6. ToldDate'
      <3>1. CASE ok
        <4>1. told' = [ok |-> TRUE, dt |-> dt] /\ n = 7 BY <2>4, <3>1
        <4>2. told'.dt = dt BY <4>1
        <4>3. \A i \in DateFields : i <= n BY <4>1 DEF DateFields
        <4>4. \A i \in DateFields : regs'[i] = dec_to_bcd(dt[i]) BY <2>4, <4>3
        <4> QED BY <2>3, <4>2, <4>4 DEF ToldDate
      <3>2. CASE ~ok
        <4>1. ~told'.ok BY <2>4, <3>2 DEF Nothing
        <4> QED BY <4>1 DEF ToldDate
      <3> QED BY <3>1, <3>2
    <2>7. ShownReading'
      <3>1. ~shown'.ok BY <1>1 DEF RtcSet, Nothing
      <3> QED BY <3>1 DEF ShownReading
    <2> QED BY <2>5, <2>6, <2>7 DEF RtcInv
  <1>2. CASE RtcTest
    <2>1. UNCHANGED <<regs, told>> BY <1>2 DEF RtcTest
    <2>2. \/ shown' = Nothing
          \/ \E raw \in RawTemps, read \in BOOLEAN : shown' = Displayed(raw, read)
      BY <1>2 DEF RtcTest, Displayed
    <2>3. \/ shown' = Nothing
          \/ \E raw \in -512..511, read \in BOOLEAN : shown' = Displayed(raw, read)
      <3>1. RawTemps \subseteq -512..511 BY ONLY RtcAssumption
      <3>2. ASSUME NEW raw \in RawTemps, NEW read \in BOOLEAN, shown' = Displayed(raw, read)
            PROVE  \E r \in -512..511, q \in BOOLEAN : shown' = Displayed(r, q)
        <4>1. raw \in -512..511 BY ONLY <3>1
        <4> QED BY ONLY <4>1, <3>2
      <3> QED BY ONLY <2>2, <3>2
    <2> QED BY ONLY RtcInv, <2>1, <2>3, ReadInv
  <1>3. CASE LineDated
    <2>1. UNCHANGED <<regs, told>> BY <1>3 DEF LineDated
    <2>2. shown' = Nothing \/ shown' = Dated BY <1>3 DEF LineDated, Dated
    <2> QED BY ONLY RtcInv, <2>1, <2>2, ReadInv
  <1> QED BY <1>1, <1>2, <1>3 DEF RtcNext

\* The date of a page or a line is the one in the registers.
LEMMA ShownDate == RtcInv /\ shown.ok => shown.dt = Decoded
  <1> SUFFICES ASSUME RtcInv, shown.ok PROVE shown.dt = Decoded
    OBVIOUS
  <1>1. CASE shown = Dated BY <1>1 DEF Dated
  <1>2. ASSUME NEW raw \in -512..511, NEW read \in BOOLEAN, shown = Displayed(raw, read)
        PROVE  shown.dt = Decoded
    BY <1>2 DEF Displayed
  <1> QED BY <1>1, <1>2 DEF RtcInv, ShownReading

\* The registers and every date are bytes.
LEMMA RtcTyped == RtcInv => RtcTypeOK
  <1> SUFFICES ASSUME RtcInv PROVE RtcTypeOK
    OBVIOUS
  <1>1. ASSUME NEW i \in DateFields PROVE Decoded[i] \in 0..165
    <2>1. Masks[i] \in 8..256 BY Fields DEF Masks
    <2>2. PICK m \in 8..256 : m = Masks[i] BY <2>1
    <2>3. PICK b \in 0..255 : b = regs[i] BY DEF RtcInv
    <2>4. PICK x \in 0..255 : x = b % m
      <3>1. b % m \in Nat /\ b % m <= b OBVIOUS
      <3> QED BY <3>1
    <2>5. (x \div 16) * 10 + (x % 16) \in 0..165 OBVIOUS
    <2>6. Decoded[i] = bcd_to_dec(x) BY <2>2, <2>3, <2>4 DEF Decoded
    <2>7. bcd_to_dec(x) = (x \div 16) * 10 + (x % 16) BY DEF bcd_to_dec
    <2> QED BY <2>5, <2>6, <2>7
  <1>2. Decoded \in [DateFields -> 0..165] BY <1>1 DEF Decoded
  <1>3. shown.ok => shown.dt = Decoded BY ShownDate
  <1> QED BY <1>2, <1>3 DEF RtcInv, ToldDate, RtcTypeOK

\* A date that comes back from the registers it was written to is the same.
LEMMA RtcTrue == RtcInv => ClockTrue
  <1> SUFFICES ASSUME RtcInv, told.ok, told.dt[7] <= 99, shown.ok
               PROVE  shown.dt = told.dt
    BY DEF ClockTrue
  <1>0. shown.dt = Decoded BY ShownDate
  <1>1. told.dt \in [DateFields -> 0..255] BY DEF RtcInv, ToldDate
  <1>2. ASSUME NEW i \in DateFields PROVE Decoded[i] = told.dt[i]
    <2>1. told.dt[i] <= Largest[i]
      <3>1. i # 7 => told.dt[i] <= Largest[i] BY DEF RtcInv, ToldDate
      <3> QED BY <3>1 DEF Largest
    <2>2. PICK d \in 0..255 : d = told.dt[i] BY <1>1
    <2>3. Largest[i] \in 0..99 BY Fields DEF Largest
    <2>4. d \in 0..Largest[i] BY <2>1, <2>2, <2>3
    <2>5. bcd_to_dec(dec_to_bcd(d) % Masks[i]) = d BY <2>4, BackFromBcd
    <2>6. regs[i] = dec_to_bcd(d) BY <2>2 DEF RtcInv, ToldDate
    <2> QED BY <2>2, <2>5, <2>6 DEF Decoded
  <1> QED BY <1>0, <1>1, <1>2 DEF Decoded

\* A temperature that was read is shown to a tenth.
LEMMA RtcDegrees == RtcInv => TemperatureShown
  <1> SUFFICES ASSUME RtcInv, shown.ok, shown.page, shown.read, shown.raw \notin -3..-1
               PROVE  ShowsTheChip
    BY DEF TemperatureShown
  <1>1. shown # Dated BY DEF Dated
  <1>2. PICK raw \in -512..511, read \in BOOLEAN : shown = Displayed(raw, read)
    BY <1>1 DEF RtcInv, ShownReading
  <1>3. /\ shown.raw = raw
        /\ shown.whole = Quot(Quot(raw * 10, 4), 10)
        /\ shown.tenths = Tenths(Quot(raw * 10, 4))
    BY <1>2 DEF Displayed
  <1> QED BY <1>3, Degrees, ZenonT(30) DEF ShowsTheChip, ShownTenths

-----------------------------------------------------------------------------
(* What the variables of every part hold. *)

\* The times of the scan, which the clock of another part leaves behind.
ScanTimes == s_scan_timer \in 0..ClockSize - 1 /\ sinceScan \in 0..ScanBound

ContentsInv ==
    /\ ListInv /\ ScanTimes
    /\ TimerTypeOK
    /\ ModemTypeOK
    /\ RtcInv
    /\ LogInv

\* PORTAL_RUNNING is entered with an empty table.
LEMMA ListInitInv == ScanInit => ListInv
  <1> SUFFICES ASSUME ScanInit PROVE ListInv
    OBVIOUS
  <1>1. /\ networks = << >> /\ inTime = Silence
        /\ scanning \in BOOLEAN /\ active \in BOOLEAN /\ failed = ~scanning
    BY DEF ScanInit
  <1>2. HeardOf(networks, inTime)
    BY <1>1, NothingHeard DEF HeardOf
  <1> QED BY <1>1, <1>2 DEF ListInv

\* The table stays when the scan does.
LEMMA ListStays == ListInv /\ UNCHANGED scanVars => ListInv'
  BY DEF ListInv, HeardOf, Distinct, Placed, scanVars

\* CONNECTED is entered with a first reading due.
LEMMA TimerInitType == TimerInit => TimerTypeOK
  <1> SUFFICES ASSUME TimerInit PROVE TimerTypeOK
    OBVIOUS
  <1>1. 0 \in 0..ClockSize - 1 /\ 0 \in 0..TimerBound BY ClockAssumption DEF TimerBound
  <1>2. /\ next_sensor_read = 0 /\ s_mode = "STATIONARY" /\ elapsed = 0 /\ due = 1
        /\ wrapped = FALSE /\ sumWrapped = FALSE
    BY DEF TimerInit
  <1>3. {wrapped, sumWrapped} \subseteq BOOLEAN BY <1>2
  <1> QED BY <1>1, <1>2, <1>3 DEF TimerTypeOK, Modes

\* A reading plans one of the two intervals, and every flag is a flag.
LEMMA TimerStepType ==
    ASSUME TimerInv, TimerTypeOK, TimerNext
    PROVE  TimerTypeOK'
  <1>1. TimerTyped' BY TimerStepInv DEF TimerInv
  <1>2. {wrapped', sumWrapped'} \subseteq BOOLEAN /\ due' \in {1, MobileInterval, StationaryInterval}
    <2>1. CASE TimerTurn
      <3>1. CASE Reading
        <4>1. Promised \in {MobileInterval, StationaryInterval}
          BY DEF Promised, TimerTypeOK, Modes
        <4>2. wrapped' = FALSE /\ sumWrapped' \in BOOLEAN /\ due' = Promised
          <5>1. wrapped' = FALSE /\ due' = Promised BY <3>1 DEF Reading
          <5>2. sumWrapped' = (now' + Interval >= ClockSize) BY <3>1 DEF Reading
          <5>3. (now' + Interval >= ClockSize) \in BOOLEAN OBVIOUS
          <5>4. sumWrapped' \in BOOLEAN BY <5>2, <5>3, Zenon
          <5> QED BY <5>1, <5>4
        <4> QED BY <4>1, <4>2
      <3>2. CASE NoReading
        BY <3>2 DEF NoReading, TimerTypeOK
      <3> QED BY <2>1, <3>1, <3>2 DEF TimerTurn
    <2>2. CASE SetMode BY <2>2 DEF SetMode, TimerTypeOK
    <2>3. CASE Reconnect BY <2>3 DEF Reconnect, Enter
    <2> QED BY <2>1, <2>2, <2>3 DEF TimerNext
  <1> QED BY <1>1, <1>2 DEF TimerTyped, TimerTypeOK, TimerBound, Modes

\* The timer keeps its types when it stays.
LEMMA TimerStays == TimerTypeOK /\ UNCHANGED timerVars => TimerTypeOK'
  BY DEF TimerTypeOK, timerVars, TimerBound, Modes

\* What the modem owes: an answer has at most two parts, and older ones stay as long.
LEMMA AnswerLength ==
    ASSUME NEW result \in AnswersGiven
    PROVE  Answer(result) \in Seq(ModemParts) /\ Len(Answer(result)) \in 0..2
  <1>1. CASE result = "OK" BY <1>1, AnswerOwn DEF Answer
  <1>2. CASE result = "ERROR" BY <1>2, AnswerOwn DEF Answer
  <1>3. CASE result = "silent" BY <1>3, AnswerOwn DEF Answer
  <1> QED BY <1>1, <1>2, <1>3 DEF AnswersGiven, Finals

\* Parts that are no longer own are as many.
LEMMA OlderLength ==
    ASSUME NEW parts \in Seq(ModemParts)
    PROVE  Older(parts) \in Seq(ModemParts) /\ Len(Older(parts)) = Len(parts)
  <1>1. PICK old \in Seq(ModemParts) : old = Older(parts) BY OlderTyped
  <1>2. DOMAIN old = DOMAIN parts BY <1>1 DEF Older
  <1>3. Len(old) = Len(parts) BY <1>2
  <1> QED BY <1>1, <1>3

\* An answer after older parts is as long as both.
LEMMA Together ==
    ASSUME NEW old \in Seq(ModemParts), NEW new \in Seq(ModemParts)
    PROVE  old \o new \in Seq(ModemParts) /\ Len(old \o new) = Len(old) + Len(new)
  OBVIOUS

\* A page says ok, error or nothing.
LEMMA VerdictTyped ==
    ASSUME NEW parts, NEW v \in Verdict(call, parts)
    PROVE  v \in Verdicts
  BY DEF Verdict, Named, Verdicts

\* Reset and check leave at most two answers of two parts (ModemAssumption).
LEMMA ModemInitType == ModemInit => ModemTypeOK
  <1> SUFFICES ASSUME ModemInit PROVE ModemTypeOK
    OBVIOUS
  <1>1. PICK left \in {<< >>, <<Part("OK")>>, Answer("OK"), Answer("ERROR")}, result \in AnswersGiven :
           /\ owed = Older(left) \o Answer(result)
           /\ late = (left # << >>)
           /\ answered = result
    BY DEF ModemInit
  <1>2. left \in Seq(ModemParts) /\ Len(left) \in 0..2
    <2>1. Part("OK") \in ModemParts BY DEF Part, ModemParts, Finals
    <2>2. <<Part("OK")>> \in Seq(ModemParts) /\ Len(<<Part("OK")>>) = 1 BY <2>1
    <2>3. "OK" \in AnswersGiven /\ "ERROR" \in AnswersGiven BY DEF AnswersGiven, Finals
    <2>4. CASE left = << >> BY <2>4
    <2> QED BY <2>2, <2>3, <2>4, AnswerLength
  <1>3. PICK old \in Seq(ModemParts) : old = Older(left) /\ Len(old) \in 0..2
    BY <1>2, OlderLength
  <1>4. PICK new \in Seq(ModemParts) : new = Answer(result) /\ Len(new) \in 0..2
    BY AnswerLength
  <1>5. owed \in Seq(ModemParts) /\ Len(owed) <= MaxOwed
    BY <1>1, <1>3, <1>4, Together, ModemAssumption, SMTT(30)
  <1>6. /\ rx = << >> /\ resp = << >> /\ call = "check"
        /\ page = [verdict |-> "none", own |-> TRUE]
    BY DEF ModemInit
  <1> QED BY <1>1, <1>5, <1>6 DEF ModemTypeOK, Commands, Verdicts

\* What is owed stays within MaxOwed, and what is read within its types.
LEMMA ModemStepType ==
    ASSUME ModemInv, ModemTypeOK, ModemNext
    PROVE  ModemTypeOK'
  <1>1. owed' \in Seq(ModemParts) /\ rx' \in Seq(ModemParts) /\ resp' \in Seq(ModemParts)
    BY ModemStepInv DEF ModemInv
  <1>2. /\ owed \in Seq(ModemParts) /\ Len(owed) \in Nat /\ Len(owed) <= MaxOwed
        /\ call \in Commands \cup {"idle"} /\ late \in BOOLEAN /\ answered \in AnswersGiven
        /\ page \in [verdict : Verdicts, own : BOOLEAN] /\ MaxOwed \in Nat
    BY ModemAssumption DEF ModemTypeOK
  <1>3. ASSUME NEW parts, Ends(parts)
        PROVE  call' \in Commands \cup {"idle"} /\ page' \in [verdict : Verdicts, own : BOOLEAN]
    <2>1. PICK v \in Verdict(call, parts) :
             page' = [verdict |-> v, own |-> \A i \in DOMAIN parts : parts[i].own]
      BY <1>3 DEF Ends
    <2>2. v \in Verdicts BY VerdictTyped
    <2> QED BY <1>3, <2>1, <2>2 DEF Ends
  <1>4. CASE \E cmd \in Commands \ {"check"} : SendAt(cmd)
    <2>1. PICK cmd \in Commands : SendAt(cmd) BY <1>4
    <2>2. PICK result \in AnswersGiven, old \in {Older(owed), << >>} :
             /\ owed' = old \o Answer(result)
             /\ answered' = result
             /\ late' = (old # << >>)
      BY <2>1 DEF SendAt
    <2>3. Len(owed) + 2 <= MaxOwed /\ call' = cmd /\ page' = page BY <2>1 DEF SendAt
    <2>4. old \in Seq(ModemParts) /\ Len(old) <= Len(owed)
      <3>1. CASE old = << >> BY <1>2, <3>1
      <3>2. CASE old = Older(owed) BY <1>2, <3>2, OlderLength
      <3> QED BY <3>1, <3>2
    <2>5. PICK new \in Seq(ModemParts) : new = Answer(result) /\ Len(new) \in 0..2
      BY AnswerLength
    <2>6. Len(owed') <= MaxOwed
      <3>1. Len(owed') = Len(old) + Len(new) /\ Len(old) \in Nat
        BY <2>2, <2>4, <2>5, Together
      <3>2. PICK a \in Nat : a = Len(old) BY <3>1
      <3>3. PICK b \in 0..2 : b = Len(new) BY <2>5
      <3>4. PICK c \in Nat : c = Len(owed) BY <1>2
      <3>5. a + b <= MaxOwed
        <4>1. a <= c /\ c + 2 <= MaxOwed BY <2>3, <2>4, <3>2, <3>4
        <4> QED BY ONLY <4>1, a \in Nat, b \in 0..2, c \in Nat, <1>2
      <3> QED BY <3>1, <3>2, <3>3, <3>5
    <2> QED BY <1>1, <1>2, <2>2, <2>3, <2>6 DEF ModemTypeOK
  <1>5. CASE PartArrives
    <2>1. owed # << >> /\ owed' = Tail(owed) /\ UNCHANGED <<call, late, answered, page>>
      BY <1>5 DEF PartArrives
    <2>2. Len(owed') <= Len(owed) /\ Len(owed') \in Nat BY <1>2, <2>1
    <2>3. Len(owed') <= MaxOwed BY <1>2, <2>2
    <2> QED BY <1>1, <1>2, <2>1, <2>3 DEF ModemTypeOK
  <1>6. CASE ReadPart
    <2>1. /\ UNCHANGED <<owed, late, answered>>
          /\ Ends(Append(resp, Head(rx))) \/ (call' = call /\ page' = page)
      BY <1>6 DEF ReadPart
    <2>2. call' \in Commands \cup {"idle"} /\ page' \in [verdict : Verdicts, own : BOOLEAN]
      BY <1>2, <1>3, <2>1
    <2> QED BY <1>1, <1>2, <2>1, <2>2 DEF ModemTypeOK
  <1>7. CASE TimeOut
    <2>1. UNCHANGED <<owed, late, answered>> /\ Ends(resp) BY <1>7 DEF TimeOut
    <2>2. call' \in Commands \cup {"idle"} /\ page' \in [verdict : Verdicts, own : BOOLEAN]
      BY <1>3, <2>1
    <2> QED BY <1>1, <1>2, <2>1, <2>2 DEF ModemTypeOK
  <1> QED BY <1>4, <1>5, <1>6, <1>7 DEF ModemNext

\* The modem keeps its types when it stays.
LEMMA ModemStays == ModemTypeOK /\ UNCHANGED modemVars => ModemTypeOK'
  BY DEF ModemTypeOK, modemVars

\* The clock chip keeps its invariant when it stays ...
LEMMA RtcStays == RtcInv /\ UNCHANGED rtcVars => RtcInv'
  <1> SUFFICES ASSUME RtcInv, UNCHANGED rtcVars PROVE RtcInv'
    OBVIOUS
  <1>1. regs' = regs /\ told' = told /\ shown' = shown BY DEF rtcVars
  <1>2. ToldDate' BY <1>1 DEF RtcInv, ToldDate
  <1>3. Dated' = Dated /\ \A raw, read : Displayed(raw, read)' = Displayed(raw, read)
    BY <1>1 DEF Displayed, Dated, Decoded
  <1>4. ShownReading'
    <2> SUFFICES ASSUME shown'.ok PROVE ShownReading'
      BY DEF ShownReading
    <2>1. CASE shown = Dated BY <1>1, <1>3, <2>1 DEF ShownReading
    <2>2. ASSUME NEW raw \in -512..511, NEW read \in BOOLEAN, shown = Displayed(raw, read)
          PROVE  ShownReading'
      BY <1>1, <1>3, <2>2 DEF ShownReading
    <2> QED BY <1>1, <2>1, <2>2 DEF RtcInv, ShownReading
  <1> QED BY <1>1, <1>2, <1>4 DEF RtcInv

\* ... and so does the log ring.
LEMMA LogStays == LogInv /\ UNCHANGED logVars => LogInv'
  BY LogNext DEF logVars

-----------------------------------------------------------------------------
(* The parts together. *)

\* The timer is at rest in every behaviour that exercises another part.
PartsInv ==
    /\ now \in 0..ClockSize - 1
    /\ ModemInv
    /\ part = "timer" => TimerInv
    /\ part # "timer" => Resting
    /\ part = "scan" => ScanInv

\* Every part starts inside its invariant.
LEMMA PartsInitInv == PartsInit => PartsInv
  <1> SUFFICES ASSUME PartsInit PROVE PartsInv
    OBVIOUS
  <1>1. now \in 0..ClockSize - 1 /\ ModemInv /\ ScanInv
    BY ModemInitInv, ScanInitInv DEF PartsInit, ScanInit
  <1>2. Resting BY <1>1 DEF PartsInit, TimerInit, Resting
  <1> QED BY <1>1, <1>2, RestingInv DEF PartsInv

\* A step of one part keeps the invariant of every other.
LEMMA PartsStepInv == PartsInv /\ [PartsNext]_partVars => PartsInv'
  <1> SUFFICES ASSUME PartsInv, [PartsNext]_partVars PROVE PartsInv'
    OBVIOUS
  <1>1. CASE ScanStep
    <2>1. ScanInv' BY <1>1, ScanStepInv DEF ScanStep, PartsInv
    <2>2. part = "scan" /\ UNCHANGED <<part, timerVars, modemVars>> BY <1>1 DEF ScanStep
    <2> QED BY <2>1, <2>2
          DEF PartsInv, ScanInv, Resting, ModemInv, Own, AnswerIsOwn, timerVars, modemVars
  <1>2. CASE TimerStep
    <2>1. TimerInv' BY <1>2, TimerStepInv DEF TimerStep, PartsInv
    <2>2. part = "timer" /\ UNCHANGED <<part, modemVars>> BY <1>2 DEF TimerStep
    <2>3. now' \in 0..ClockSize - 1 BY <2>1 DEF TimerInv, TimerTyped
    <2> QED BY <2>1, <2>2, <2>3 DEF PartsInv, ModemInv, Own, AnswerIsOwn, modemVars
  <1>3. CASE ModemStep
    <2>1. ModemInv' BY <1>3, ModemStepInv DEF ModemStep, PartsInv
    <2>2. part = "modem" /\ UNCHANGED <<part, now, timerVars>> BY <1>3 DEF ModemStep
    <2> QED BY <2>1, <2>2 DEF PartsInv, Resting, timerVars
  <1>4. CASE RtcStep \/ LogStep
    <2>1. part \in {"rtc", "log"} /\ UNCHANGED <<part, now, timerVars, modemVars>>
      BY <1>4 DEF RtcStep, LogStep
    <2> QED BY <2>1 DEF PartsInv, Resting, ModemInv, Own, AnswerIsOwn, timerVars, modemVars
  <1>5. CASE UNCHANGED partVars
    BY <1>5
      DEF partVars, PartsInv, Resting, ModemInv, Own, AnswerIsOwn, timerVars, modemVars, scanVars,
          TimerInv, TimerTyped, Ahead, Behind, TimerBound, Modes, ScanInv, ScanBound, Minus
  <1> QED BY <1>1, <1>2, <1>3, <1>4, <1>5 DEF PartsNext

\* Every part starts with variables of its types.
LEMMA ContentsInitInv == PartsInit => ContentsInv
  <1> SUFFICES ASSUME PartsInit PROVE ContentsInv
    OBVIOUS
  <1>1. ScanInit /\ TimerInit /\ ModemInit /\ RtcInit /\ Init BY DEF PartsInit
  <1>2. ScanTimes BY <1>1, ScanInitInv DEF ScanInv, ScanTimes
  <1> QED BY <1>1, <1>2, ListInitInv, TimerInitType, ModemInitType, RtcInitInv, LogInit
        DEF ContentsInv

\* A step of one part keeps the types and the contents of every other.
LEMMA ContentsStepInv == PartsInv /\ ContentsInv /\ [PartsNext]_partVars => ContentsInv'
  <1> SUFFICES ASSUME PartsInv, ContentsInv, [PartsNext]_partVars PROVE ContentsInv'
    OBVIOUS
  <1>1. /\ ListInv /\ ScanTimes /\ TimerTypeOK /\ ModemTypeOK /\ RtcInv /\ LogInv
        /\ ModemInv
    BY DEF ContentsInv, PartsInv
  <1>2. UNCHANGED scanVars => ListInv' /\ ScanTimes'
    BY <1>1, ListStays DEF ScanTimes, ScanBound, scanVars
  <1>3. UNCHANGED timerVars => TimerTypeOK' BY <1>1, TimerStays
  <1>4. UNCHANGED modemVars => ModemTypeOK' BY <1>1, ModemStays
  <1>5. UNCHANGED rtcVars => RtcInv' BY <1>1, RtcStays
  <1>6. UNCHANGED logVars => LogInv' BY <1>1, LogStays
  <1>7. CASE ScanStep
    <2>1. ScanInv /\ ScanNext /\ UNCHANGED <<timerVars, modemVars, rtcVars, logVars>>
      BY <1>7 DEF ScanStep, PartsInv
    <2>2. ListInv' /\ ScanTimes'
      <3>1. ListInv' BY <1>1, <2>1, ListStepInv
      <3>2. ScanTimes' BY <2>1, ScanStepInv DEF ScanInv, ScanTimes
      <3> QED BY <3>1, <3>2
    <2> QED BY <1>3, <1>4, <1>5, <1>6, <2>1, <2>2 DEF ContentsInv
  <1>8. CASE TimerStep
    <2>1. TimerInv /\ TimerNext /\ UNCHANGED <<scanVars, modemVars, rtcVars, logVars>>
      BY <1>8 DEF TimerStep, PartsInv
    <2>2. TimerTypeOK' BY <1>1, <2>1, TimerStepType
    <2> QED BY <1>2, <1>4, <1>5, <1>6, <2>1, <2>2 DEF ContentsInv
  <1>9. CASE ModemStep
    <2>1. ModemNext /\ UNCHANGED <<scanVars, timerVars, rtcVars, logVars>>
      BY <1>9 DEF ModemStep
    <2>2. ModemTypeOK' BY <1>1, <2>1, ModemStepType
    <2> QED BY <1>2, <1>3, <1>5, <1>6, <2>1, <2>2 DEF ContentsInv
  <1>10. CASE RtcStep
    <2>1. RtcNext /\ UNCHANGED <<scanVars, timerVars, modemVars, logVars>>
      BY <1>10 DEF RtcStep
    <2>2. RtcInv' BY <1>1, <2>1, RtcStepInv
    <2> QED BY <1>2, <1>3, <1>4, <1>6, <2>1, <2>2 DEF ContentsInv
  <1>11. CASE LogStep
    <2>1. Next /\ UNCHANGED <<scanVars, timerVars, modemVars, rtcVars>>
      BY <1>11 DEF LogStep
    <2>2. LogInv' BY <1>1, <2>1, LogNext
    <2> QED BY <1>2, <1>3, <1>4, <1>5, <2>1, <2>2 DEF ContentsInv
  <1>12. CASE UNCHANGED partVars
    <2>1. UNCHANGED <<scanVars, timerVars, modemVars, rtcVars, logVars>>
      BY <1>12 DEF partVars
    <2> QED BY <1>2, <1>3, <1>4, <1>5, <1>6, <2>1 DEF ContentsInv
  <1> QED BY <1>7, <1>8, <1>9, <1>10, <1>11, <1>12 DEF PartsNext

\* Every state that can be reached is inside the inductive invariant: the facts
\* about the static variables that the theorems below follow from.
THEOREM Reachable == PartsSpec => [](PartsInv /\ ContentsInv)
  <1>1. PartsInit => PartsInv /\ ContentsInv BY PartsInitInv, ContentsInitInv
  <1>2. PartsInv /\ ContentsInv /\ [PartsNext]_partVars => PartsInv' /\ ContentsInv'
    BY PartsStepInv, ContentsStepInv
  <1> QED BY <1>1, <1>2, PTL DEF PartsSpec

\* Every variable of every part has its type at every step: the table of networks
\* never holds more than WIFI_SCAN_MAX, a register of the clock chip is a byte, a
\* line of the log ring is shorter than its slot.
THEOREM PartsTyped == PartsSpec => []PartsTypeOK
  <1>1. PartsInv /\ ContentsInv => PartsTypeOK
    <2> SUFFICES ASSUME PartsInv, ContentsInv PROVE PartsTypeOK
      OBVIOUS
    <2>1. ScanTypeOK
      BY DEF PartsInv, ContentsInv, ListInv, HeardOf, ScanTimes, ScanTypeOK
    <2>2. TimerTypeOK /\ ModemTypeOK /\ RtcInv /\ LogInv BY DEF ContentsInv
    <2> QED BY <2>1, <2>2, RtcTyped DEF LogInv, PartsTypeOK
  <1> QED BY <1>1, Reachable, PTL

\* Whatever the chip hears and in which order, whatever the sizes of the table and
\* of the page, and when scans overlap: the list that main puts on the page is of
\* one scan, sorted, without doubles and with the strongest signals (scan_callback,
\* get_scan_results, update_networks_html).
THEOREM ListsFaithful == PartsSpec => []ListFaithful
  <1>1. ContentsInv => ListFaithful BY ListIsFaithful DEF ContentsInv
  <1> QED BY <1>1, Reachable, PTL

\* A date that the page was told is set is the date that lines and pages show
\* (set_time, read_time and the conversions to and from BCD).
THEOREM ClockIsTrue == PartsSpec => []ClockTrue
  <1>1. ContentsInv => ClockTrue BY RtcTrue DEF ContentsInv
  <1> QED BY <1>1, Reachable, PTL

\* Every temperature of the chip's ten bits is shown to a tenth
\* (read_temp and compose_rtc_test_response).
THEOREM TemperatureIsShown == PartsSpec => []TemperatureShown
  <1>1. ContentsInv => TemperatureShown BY RtcDegrees DEF ContentsInv
  <1> QED BY <1>1, Reachable, PTL

\* For every size of the counter, interval and length of a turn: a reading is
\* overdue only after the counter wrapped while its planned time did not (the
\* loop of CONNECTED).
THEOREM Overdue == PartsSpec => []OverdueOnlyAfterWrap
  <1>1. PartsInv => OverdueOnlyAfterWrap
    BY RestingInv, TimerInvOverdue DEF PartsInv
  <1> QED BY <1>1, Reachable, PTL

\* ... and comes too early only after the planned time wrapped.
THEOREM Paced == PartsSpec => PacedUnlessWrapped
  <1>1. PartsInv /\ [PartsNext]_partVars => [Reading /\ ~sumWrapped => Since >= due]_timerVars
    <2> SUFFICES ASSUME PartsInv, [PartsNext]_partVars, Reading, ~sumWrapped,
                        ~UNCHANGED timerVars
                 PROVE  Since >= due
      OBVIOUS
    <2>1. TimerStep
      BY DEF PartsNext, ScanStep, ModemStep, RtcStep, LogStep, partVars
    <2> QED BY <2>1, ReadingPaced DEF TimerStep, PartsInv
  <1> QED BY <1>1, Reachable, PTL DEF PartsSpec, PacedUnlessWrapped

\* Scans keep their distance, to the tick and across every wrap of the counter (PORTAL_RUNNING).
THEOREM ScansPaced == PartsSpec => RescansPaced
  <1>1. PartsInv /\ [PartsNext]_partVars =>
            [s_scan_timer' # s_scan_timer =>
                sinceScan + Minus(now', now) > RescanAfter]_s_scan_timer
    <2> SUFFICES ASSUME PartsInv, [PartsNext]_partVars, s_scan_timer' # s_scan_timer
                 PROVE  sinceScan + Minus(now', now) > RescanAfter
      OBVIOUS
    <2>1. ScanStep
      BY DEF PartsNext, TimerStep, ModemStep, RtcStep, LogStep, partVars, scanVars
    <2> QED BY <2>1, ScanStepInv DEF ScanStep, PartsInv
  <1> QED BY <1>1, Reachable, PTL DEF PartsSpec, RescansPaced

\* However much the modem owes, and whatever it drops: a page shows the answer to
\* its own command, if nothing was owed when that was sent (send_at).
THEOREM OwnAnswers == PartsSpec => []AnswerIsOwn
  <1>1. PartsInv => AnswerIsOwn BY DEF PartsInv, ModemInv
  <1> QED BY <1>1, Reachable, PTL
=============================================================================
