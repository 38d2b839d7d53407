-------------------------------- MODULE Rtc ---------------------------------
(***************************************************************************)
(* The clock: the DS3231 driver (ds3231.cpp), the pages that set and show  *)
(* it (captive_portal.cpp) and the date of a logged line (main.cpp).  The  *)
(* chip (external) keeps seven registers in BCD; a transfer may break off. *)
(* Between a setting and a display no second passes here.                  *)
(***************************************************************************)
EXTENDS Integers, Sequences

CONSTANTS
    Forms,        \* what the page sends: <<s, m, h, w, D, M, Y>> of a Date
    FirstRegs,    \* registers of a chip that was not set
    Cuts,         \* after how many bytes a write breaks off
    RawTemps      \* temperatures, in quarters of a degree

ASSUME RtcAssumption ==
    /\ \A f \in Forms :
          /\ f \in Seq(Nat) /\ Len(f) = 7
          /\ f[1] <= 59 /\ f[2] <= 59 /\ f[3] <= 23
          /\ f[4] <= 6 /\ f[5] <= 31 /\ f[6] <= 12
    /\ FirstRegs \in Seq(0..255) /\ Len(FirstRegs) = 7
    /\ Cuts \subseteq 0..6
    /\ RawTemps \subseteq -512..511

VARIABLES
    regs,     \* registers 0 to 6 of the chip
    told,     \* what /rtc-set-result says
    shown     \* what /rtc-test says, or the date of a line

rtcVars == <<regs, told, shown>>

DateFields == 1..7
Nothing == [ok |-> FALSE]

RtcInit ==
    /\ regs = FirstRegs
    /\ told = Nothing
    /\ shown = Nothing

-----------------------------------------------------------------------------
(* ds3231.cpp *)

dec_to_bcd(dec) == (((dec \div 10) * 16) + (dec % 10)) % 256
bcd_to_dec(bcd) == ((bcd \div 16) * 10) + (bcd % 16)

\* (Mutant: the hour is read as in 12-hour mode.)
MasksTwelve == <<128, 128, 32, 8, 64, 32, 256>>
Masks == <<128, 128, 64, 8, 64, 32, 256>>

Decoded == [i \in DateFields |-> bcd_to_dec(regs[i] % Masks[i])]

\* A write that breaks off has changed the registers before that.
set_time(dt) ==
    \E n \in Cuts \cup {7}, ok \in BOOLEAN :
        /\ ok => n = 7
        /\ regs' = [i \in DateFields |-> IF i <= n THEN dec_to_bcd(dt[i]) ELSE regs[i]]
        /\ told' = IF ok THEN [ok |-> TRUE, dt |-> dt] ELSE Nothing

-----------------------------------------------------------------------------
(* The pages. *)

\* POST /rtc-set: every field is kept in eight bits, Sunday is 7.
FromForm(f) ==
    [i \in DateFields |->
        (CASE i = 4 /\ f[4] = 0 -> 7
           [] i = 7 -> f[7] - 2000
           [] OTHER -> f[i]) % 256]

RtcSet ==
    /\ \E f \in Forms : set_time(FromForm(f))
    /\ shown' = Nothing

\* C's division and remainder, toward zero.
Quot(a, b) == IF a < 0 THEN -((-a) \div b) ELSE a \div b
Rem(a, b) == IF a < 0 THEN -((-a) % b) ELSE a % b

\* (Mutant: the remainder keeps its sign.)
TenthsSigned(tv) == Rem(tv, 10)
Tenths(tv) == IF tv < 0 THEN -Rem(tv, 10) ELSE Rem(tv, 10)

\* compose_rtc_test_response, when the chip is at raw quarters of a degree.  If
\* only the transfer of the temperature fails (~read), read() leaves it 0 and is
\* ok.  What the chip is at, and whether it was read, are kept for the properties.
RtcTest ==
    /\ \/ shown' = Nothing
       \/ \E raw \in RawTemps, read \in BOOLEAN :
             LET tv == Quot((IF read THEN raw ELSE 0) * 10, 4)
             IN  shown' = [ok |-> TRUE, dt |-> Decoded, page |-> TRUE, raw |-> raw,
                           read |-> read, whole |-> Quot(tv, 10), tenths |-> Tenths(tv)]
    /\ UNCHANGED <<regs, told>>

\* main's line: dashes, or the date.  It has no temperature of the chip.
LineDated ==
    /\ \/ shown' = Nothing
       \/ shown' = [ok |-> TRUE, dt |-> Decoded, page |-> FALSE, raw |-> 0,
                    read |-> FALSE, whole |-> 0, tenths |-> 0]
    /\ UNCHANGED <<regs, told>>

RtcNext == RtcSet \/ RtcTest \/ LineDated

-----------------------------------------------------------------------------
(* Properties. *)

RtcTypeOK ==
    /\ regs \in [DateFields -> 0..255]
    /\ told.ok => told.dt \in [DateFields -> 0..255]
    /\ shown.ok => shown.dt \in [DateFields -> 0..165]

\* A date of 2000 to 2099 that the page was told is set is the date every line
\* and page then show, also after earlier settings that broke off.
ClockTrue ==
    told.ok /\ told.dt[7] <= 99 /\ shown.ok => shown.dt = told.dt

\* What a reader of the page takes for the temperature, in tenths of a degree,
\* and whether that is what the chip is at, to the tenth below or above.
ShownTenths ==
    IF shown.whole < 0 THEN 10 * shown.whole - shown.tenths
    ELSE 10 * shown.whole + shown.tenths
ShowsTheChip == shown.tenths \in 0..9 /\ 2 * ShownTenths - 5 * shown.raw \in -1..1

\* The page shows the chip's temperature, to a tenth and with its sign, through
\* three truncations toward zero (ds3231::read, compose_rtc_test_response).  Two
\* cases are left out, because in them the code shows another one: 0.0 when the
\* chip's temperature was not read, and, from -0.75 to -0.25 degrees, the amount
\* without its sign.
TemperatureShown ==
    shown.ok /\ shown.page /\ shown.read /\ shown.raw \notin -3..-1 => ShowsTheChip
=============================================================================
