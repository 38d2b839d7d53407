--------------------------- MODULE LogRingProofs ---------------------------
(***************************************************************************)
(* The ring of the log is the list of the last lines, whatever its size    *)
(* and the length of a line; a line shows what no escape sequence holds,   *)
(* whatever its characters; a copy of the ring is whole lines, whatever    *)
(* the size of its buffer.                                                 *)
(*                                                                         *)
(* The operators of the model that go through a line or a list of lines    *)
(* are recursive functions, and an induction is made with the set of the   *)
(* numbers that have the property (Induction).                             *)
(***************************************************************************)
EXTENDS LogRing, SequenceTheorems, WellFoundedInduction, TLAPS

\* Where the next line goes: after the last one, until the ring is full.
RingInv ==
    /\ s_head \in Slots
    /\ s_count \in 0..LOG_LINES
    /\ s_count < LOG_LINES => s_head = s_count
    /\ s_lines = [i \in Slots |-> s_lines[i]]
    /\ s_cur_line \in Seq(Chars)

-----------------------------------------------------------------------------
(* The arithmetic of the ring. *)

\* A slot is its own remainder, and one past the end begins again.
LEMMA SlotMod ==
    ASSUME NEW n \in Nat \ {0}, NEW x \in 0..2 * n - 1
    PROVE  x % n = IF x < n THEN x ELSE x - n
  <1>1. CASE x < n
    BY <1>1, SMT
  <1>2. CASE x >= n
    BY <1>2, SMT
  <1> QED BY <1>1, <1>2

\* Slot number i of a full ring whose head has moved on is number i + 1 of
\* before; the last one is the slot just written, and no other is.
LEMMA HeadMoves ==
    ASSUME NEW n \in Nat \ {0}, NEW h \in 0..n - 1, NEW i \in 1..n
    PROVE  /\ (((h + 1) % n) + (i - 1)) % n = (h + i) % n
           /\ (h + i) % n \in 0..n - 1
           /\ (h + i) % n = h <=> i = n
  <1> DEFINE x == h + 1
             g == x % n
             y == h + i
             z == g + (i - 1)
  <1>1. g = IF x < n THEN x ELSE x - n
    <2>1. x \in 0..2 * n - 1 OBVIOUS
    <2> HIDE DEF x
    <2> QED BY <2>1, SlotMod
  <1>2. y \in 0..2 * n - 1 /\ z \in 0..2 * n - 1
    <2> HIDE DEF g
    <2> QED BY <1>1
  <1>3. y % n = IF y < n THEN y ELSE y - n
    <2> HIDE DEF y
    <2> QED BY <1>2, SlotMod
  <1>4. z % n = IF z < n THEN z ELSE z - n
    <2> HIDE DEF z
    <2> QED BY <1>2, SlotMod
  <1> DEFINE a == y % n
             b == z % n
  <1>5. a = b /\ a \in 0..n - 1 /\ (a = h <=> i = n)
    <2>1. a = IF y < n THEN y ELSE y - n BY <1>3
    <2>2. b = IF z < n THEN z ELSE z - n BY <1>4
    <2> HIDE DEF a, b, g
    <2> QED BY <2>1, <2>2, <1>1
  <1> QED BY <1>5

-----------------------------------------------------------------------------
(* The invariant. *)

\* The ring is empty at the start.
LEMMA RingInit == Init => RingInv
  BY LogAssumption DEF Init, RingInv, Slots

\* A step leaves the head at the slot after the last line.
LEMMA RingNext == RingInv /\ [Next]_vars => RingInv'
  <1> SUFFICES ASSUME RingInv, [Next]_vars PROVE RingInv'
    OBVIOUS
  <1> USE LogAssumption
  <1>1. CASE OutChar
    <2>1. s_cur_line' \in Seq(Chars)
      BY <1>1 DEF OutChar, RingInv, Chars
    <2> QED BY <1>1, <2>1 DEF OutChar, RingInv, Slots
  <1>2. CASE OutNewline
    <2>1. s_head' = IF s_head + 1 < LOG_LINES THEN s_head + 1 ELSE 0
      <3>1. s_head + 1 \in 0..2 * LOG_LINES - 1
        BY DEF RingInv, Slots
      <3>2. s_head' = (s_head + 1) % LOG_LINES
        BY <1>2 DEF OutNewline
      <3> QED BY <3>1, <3>2, SlotMod DEF RingInv, Slots
    <2>2. s_lines' = [i \in Slots |-> s_lines'[i]]
      BY <1>2 DEF OutNewline, RingInv
    <2>3. s_cur_line' \in Seq(Chars)
      BY <1>2 DEF OutNewline
    <2> QED BY <1>2, <2>1, <2>2, <2>3, SMTT(30) DEF OutNewline, RingInv, Slots
  <1>3. CASE UNCHANGED vars
    BY <1>3 DEF vars, RingInv, Slots
  <1> QED BY <1>1, <1>2, <1>3 DEF Next

-----------------------------------------------------------------------------
(* The refinement. *)

\* Before the ring is full the oldest line is in the first slot.
LEMMA KeptPartial ==
    ASSUME RingInv, s_count < LOG_LINES
    PROVE  Kept = [i \in 1..s_count |-> s_lines[i - 1]]
  <1> SUFFICES ASSUME NEW i \in 1..s_count PROVE (Start + (i - 1)) % LOG_LINES = i - 1
    BY DEF Kept
  <1>1. Start + (i - 1) = i - 1
    BY DEF Start, RingInv
  <1>2. i - 1 \in 0..2 * LOG_LINES - 1 /\ i - 1 < LOG_LINES
    BY LogAssumption DEF RingInv
  <1> QED BY <1>1, <1>2, SlotMod, LogAssumption

\* The line that ends is the newest; a full ring loses its oldest.
LEMMA NewlineEndsLine ==
    ASSUME RingInv, OutNewline
    PROVE  Recent!EndLine
  <1> USE LogAssumption
  <1> DEFINE line == Stripped(s_cur_line)
  <1>1. Kept \in Seq({s_lines[i] : i \in Slots}) /\ Len(Kept) = s_count
    <2>1. \A i \in 1..s_count : (Start + (i - 1)) % LOG_LINES \in Slots
      <3> SUFFICES ASSUME NEW i \in 1..s_count
                   PROVE  (Start + (i - 1)) % LOG_LINES \in Slots
        OBVIOUS
      <3>1. Start + (i - 1) \in 0..2 * LOG_LINES - 1
        BY SMTT(30) DEF Start, RingInv, Slots
      <3> QED BY <3>1, SlotMod DEF Slots
    <2> DEFINE S == {s_lines[i] : i \in Slots}
    <2>2. Kept \in [1..s_count -> S]
      BY <2>1 DEF Kept
    <2>3. s_count \in Nat
      BY DEF RingInv
    <2> HIDE DEF S
    <2>4. Kept \in Seq(S) /\ Len(Kept) = s_count
      BY <2>2, <2>3
    <2> QED BY <2>4 DEF S
  <1>2. s_lines' = [i \in Slots |-> IF i = s_head THEN line ELSE s_lines[i]]
    BY DEF OutNewline, RingInv
  <1> DEFINE new == Append(IF s_count = LOG_LINES THEN Tail(Kept) ELSE Kept, line)
  <1>3. Kept' = new
    <2>1. CASE s_count < LOG_LINES
      <3>1. s_count' = s_count + 1
        BY <2>1 DEF OutNewline
      <3>2. Kept' = [i \in 1..s_count + 1 |-> s_lines'[i - 1]]
        <4>1. Start' = 0
          <5>1. CASE s_count + 1 < LOG_LINES
            BY <5>1, <3>1 DEF Start
          <5>2. CASE s_count + 1 = LOG_LINES
            <6>1. s_head' = (s_head + 1) % LOG_LINES /\ s_head = s_count
              BY <2>1 DEF OutNewline, RingInv
            <6>2. s_head + 1 \in 0..2 * LOG_LINES - 1
              BY DEF RingInv, Slots
            <6>3. s_head' = 0
              BY <6>1, <6>2, <5>2, SlotMod, SMTT(30) DEF RingInv
            <6> QED BY <5>2, <3>1, <6>3 DEF Start
          <5> QED BY <5>1, <5>2, <2>1 DEF RingInv
        <4>2. \A i \in 1..s_count + 1 : (0 + (i - 1)) % LOG_LINES = i - 1
          <5> SUFFICES ASSUME NEW i \in 1..s_count + 1
                       PROVE  (0 + (i - 1)) % LOG_LINES = i - 1
            OBVIOUS
          <5>1. i - 1 \in 0..2 * LOG_LINES - 1 /\ i - 1 < LOG_LINES /\ 0 + (i - 1) = i - 1
            BY <2>1 DEF RingInv
          <5>2. (i - 1) % LOG_LINES = i - 1
            BY <5>1, SlotMod, Zenon
          <5> QED BY <5>1, <5>2
        <4> QED BY <4>1, <4>2, <3>1 DEF Kept
      <3>3. Kept = [i \in 1..s_count |-> s_lines[i - 1]]
        BY <2>1, KeptPartial
      <3>4. \A i \in 1..s_count + 1 : i - 1 \in Slots /\ (i - 1 = s_head <=> i = s_count + 1)
        BY <2>1 DEF RingInv, Slots
      <3>5. \A i \in 1..s_count + 1 : s_lines'[i - 1] = IF i = s_count + 1 THEN line ELSE Kept[i]
        <4> HIDE DEF line
        <4> QED BY <1>2, <3>3, <3>4 DEF RingInv
      <3>6. new = [i \in 1..s_count + 1 |-> IF i = s_count + 1 THEN line ELSE Kept[i]]
        <4> HIDE DEF line
        <4> QED BY <1>1, <2>1 DEF RingInv
      <3> QED BY <3>2, <3>5, <3>6
    <2>2. CASE s_count = LOG_LINES
      <3>1. s_count' = LOG_LINES /\ s_head' = (s_head + 1) % LOG_LINES
        BY <2>2 DEF OutNewline
      <3>2. Start = s_head /\ Start' = (s_head + 1) % LOG_LINES
        BY <2>2, <3>1 DEF Start
      <3>3. Kept' = [i \in 1..LOG_LINES |->
                        s_lines'[(((s_head + 1) % LOG_LINES) + (i - 1)) % LOG_LINES]]
        BY <3>1, <3>2 DEF Kept
      <3>4. \A i \in 1..LOG_LINES :
               /\ (((s_head + 1) % LOG_LINES) + (i - 1)) % LOG_LINES
                      = (s_head + i) % LOG_LINES
               /\ (s_head + i) % LOG_LINES \in Slots
               /\ (s_head + i) % LOG_LINES = s_head <=> i = LOG_LINES
        BY HeadMoves DEF RingInv, Slots
      <3>5. \A i \in 1..LOG_LINES - 1 : Kept[i + 1] = s_lines[(s_head + i) % LOG_LINES]
        <4> SUFFICES ASSUME NEW i \in 1..LOG_LINES - 1
                     PROVE  Kept[i + 1] = s_lines[(s_head + i) % LOG_LINES]
          OBVIOUS
        <4>1. i + 1 \in 1..s_count /\ (i + 1) - 1 = i
          BY <2>2
        <4> QED BY <4>1, <3>2 DEF Kept
      <3>6. \A i \in 1..LOG_LINES : Kept'[i] = IF i = LOG_LINES THEN line ELSE Kept[i + 1]
        <4> HIDE DEF line
        <4> SUFFICES ASSUME NEW i \in 1..LOG_LINES
                     PROVE  Kept'[i] = IF i = LOG_LINES THEN line ELSE Kept[i + 1]
          OBVIOUS
        <4>1. Kept'[i] = s_lines'[(s_head + i) % LOG_LINES]
          BY <3>3, <3>4
        <4>2. CASE i = LOG_LINES
          BY <4>1, <4>2, <3>4, <1>2
        <4>3. CASE i # LOG_LINES
          <5>1. i \in 1..LOG_LINES - 1 BY <4>3
          <5> QED BY <5>1, <4>1, <4>3, <3>4, <3>5, <1>2
        <4> QED BY <4>2, <4>3
      <3>7. new = [i \in 1..LOG_LINES |-> IF i = LOG_LINES THEN line ELSE Kept[i + 1]]
        <4> DEFINE S == {s_lines[i] : i \in Slots}
        <4>1. Kept \in Seq(S) /\ Len(Kept) = LOG_LINES /\ LOG_LINES \in Nat \ {0}
          BY <1>1, <2>2
        <4> HIDE DEF line, S
        <4>2. /\ Tail(Kept) \in Seq(S) /\ Len(Tail(Kept)) = LOG_LINES - 1
              /\ \A i \in 1..LOG_LINES - 1 : Tail(Kept)[i] = Kept[i + 1]
          BY <4>1
        <4>3. new = Append(Tail(Kept), line)
          BY <2>2
        <4> QED BY <4>1, <4>2, <4>3
      <3>8. Kept' = [i \in 1..LOG_LINES |-> Kept'[i]]
        BY <3>3
      <3> QED BY <3>6, <3>7, <3>8
    <2> QED BY <2>1, <2>2 DEF RingInv
  <1>4. s_cur_line # << >> /\ s_cur_line' = << >>
    BY DEF OutNewline
  <1> QED BY <1>1, <1>3, <1>4 DEF Recent!EndLine

\* A character is printed, or there was no room for it.
LEMMA CharPrints ==
    ASSUME RingInv, OutChar
    PROVE  Recent!PrintChar \/ UNCHANGED Recent!vars
  <1>1. Kept' = Kept
    BY DEF OutChar, Kept, Start
  <1>2. PICK c \in Chars \cup {"CR"} :
           s_cur_line' = IF c # "CR" /\ HasRoom(s_cur_line)
                         THEN Append(s_cur_line, c) ELSE s_cur_line
    BY DEF OutChar
  <1>3. CASE c # "CR" /\ HasRoom(s_cur_line)
    BY <1>1, <1>2, <1>3 DEF Recent!PrintChar, HasRoom, Chars
  <1>4. CASE ~(c # "CR" /\ HasRoom(s_cur_line))
    BY <1>1, <1>2, <1>4 DEF Recent!vars
  <1> QED BY <1>3, <1>4

\* The ring is, at every step, the last LOG_LINES lines printed, in order, and a
\* step of the code is a step of the list: for every size of the ring and length
\* of a line (flush_line, log_out_chars, get_lines).
THEOREM RingIsRecentLines == Spec => ImplementsRecentLines
  <1>1. Init => Recent!Init
    BY LogAssumption DEF Init, Recent!Init, Kept
  <1>2. RingInv /\ [Next]_vars => [Recent!Next]_(Recent!vars)
    <2> SUFFICES ASSUME RingInv, [Next]_vars
                 PROVE  Recent!Next \/ UNCHANGED Recent!vars
      OBVIOUS
    <2>1. CASE OutChar
      BY <2>1, CharPrints DEF Recent!Next
    <2>2. CASE OutNewline
      BY <2>2, NewlineEndsLine DEF Recent!Next
    <2>3. CASE UNCHANGED vars
      BY <2>3 DEF vars, Recent!vars, Kept, Start
    <2> QED BY <2>1, <2>2, <2>3 DEF Next
  <1> QED BY <1>1, <1>2, RingInit, RingNext, PTL DEF Spec, ImplementsRecentLines, Recent!Spec

-----------------------------------------------------------------------------
(* Induction over numbers, and functions defined by recursion. *)

\* A set of numbers that is not empty has a least one.
LEMMA LeastNat ==
    ASSUME NEW S, S \subseteq Nat, S # {}
    PROVE  \E i \in S : \A j \in S : i <= j
  <1>1. PICK i \in S : \A y \in S : ~ (<<y, i>> \in OpToRel(<,Nat))
    BY NatLessThanWellFounded, WFMin
  <1>2. \A y \in S : y < i => <<y, i>> \in OpToRel(<,Nat)
    BY DEF OpToRel
  <1>3. \A y \in S : ~(y < i)
    BY <1>1, <1>2
  <1> QED BY <1>3

\* Induction with the set of numbers that have the property.
LEMMA Induction ==
    ASSUME NEW S, NEW n \in Nat, 0 \in S, \A i \in 0..n - 1 : i \in S => i + 1 \in S
    PROVE  0..n \subseteq S
  <1> DEFINE bad == {i \in 0..n : i \notin S}
  <1>1. CASE bad # {}
    <2>1. bad \subseteq Nat OBVIOUS
    <2> HIDE DEF bad
    <2>2. PICK i \in bad : \A j \in bad : i <= j
      BY <1>1, <2>1, LeastNat
    <2> USE DEF bad
    <2>3. i \in 1..n /\ i - 1 \notin bad
      BY <2>2
    <2>4. i - 1 \in 0..n - 1 /\ i - 1 \in S
      BY <2>3
    <2> QED BY <2>2, <2>4
  <1> QED BY <1>1

\* f is defined by recursion on an interval, for a step given as a function ...
Recursive(f, base, n, step) ==
    f[0] = base /\ \A i \in 1..n : f[i] = step[<<i, f[i - 1]>>]

\* ... and there is one, which stays in the sets the steps keep to.
LEMMA RecursionKeeps ==
    ASSUME NEW n \in Nat, NEW U, NEW S \in [0..n -> SUBSET U], NEW base \in S[0],
           NEW step, \A i \in 1..n : \A x \in S[i - 1] : step[<<i, x>>] \in S[i]
    PROVE  \E f \in [0..n -> U] : Recursive(f, base, n, step) /\ \A i \in 0..n : f[i] \in S[i]
  <1> DEFINE Upto(m) == {f \in [0..m -> U] :
                            /\ f[0] = base
                            /\ \A i \in 1..m : f[i] = step[<<i, f[i - 1]>>]
                            /\ \A i \in 0..m : f[i] \in S[i]}
             good == {m \in 0..n : Upto(m) # {}}
  <1>1. 0 \in good
    <2>1. base \in U OBVIOUS
    <2>2. [i \in 0..0 |-> base] \in Upto(0) BY <2>1
    <2> QED BY <2>2
  <1>2. ASSUME NEW m \in 0..n - 1, m \in good
        PROVE  m + 1 \in good
    <2>1. PICK f \in Upto(m) : TRUE BY <1>2
    <2> DEFINE g == [i \in 0..m + 1 |-> IF i = m + 1 THEN step[<<m + 1, f[m]>>] ELSE f[i]]
    <2>2. /\ f \in [0..m -> U] /\ f[0] = base
          /\ \A i \in 1..m : f[i] = step[<<i, f[i - 1]>>]
          /\ \A i \in 0..m : f[i] \in S[i]
      OBVIOUS
    <2>a. m + 1 \in 1..n /\ m \in 0..m /\ (m + 1) - 1 = m OBVIOUS
    <2>3. step[<<m + 1, f[m]>>] \in S[m + 1]
      <3>1. f[m] \in S[(m + 1) - 1] BY <2>2, <2>a
      <3> QED BY <2>a, <3>1
    <2>b. S[m + 1] \subseteq U BY <2>a
    <2>4. g \in [0..m + 1 -> U] BY <2>2, <2>3, <2>b
    <2>5. \A i \in 0..m : g[i] = f[i] OBVIOUS
    <2>6. g[m + 1] = step[<<m + 1, f[m]>>] OBVIOUS
    <2>7. ASSUME NEW i \in 1..m + 1 PROVE g[i] = step[<<i, g[i - 1]>>]
      <3>1. CASE i = m + 1 BY <3>1, <2>5, <2>6, <2>a
      <3>2. CASE i # m + 1
        <4>1. i \in 1..m /\ i - 1 \in 0..m /\ i \in 0..m BY <3>2
        <4> QED BY <4>1, <2>2, <2>5
      <3> QED BY <3>1, <3>2
    <2>8. ASSUME NEW i \in 0..m + 1 PROVE g[i] \in S[i]
      <3>1. CASE i = m + 1 BY <3>1, <2>3, <2>6
      <3>2. CASE i # m + 1
        <4>1. i \in 0..m BY <3>2
        <4> QED BY <4>1, <2>2, <2>5
      <3> QED BY <3>1, <3>2
    <2> HIDE DEF g
    <2>9. g[0] = base BY <2>2, <2>5
    <2> QED BY <2>4, <2>7, <2>8, <2>9
  <1> HIDE DEF good
  <1>3. n \in good
    <2>1. \A m \in 0..n - 1 : m \in good => m + 1 \in good BY <1>2
    <2>2. 0..n \subseteq good BY ONLY <1>1, <2>1, n \in Nat, Induction
    <2> QED BY <2>2
  <1>4. PICK f \in Upto(n) : TRUE BY <1>3 DEF good
  <1> QED BY <1>4 DEF Recursive

\* A function that goes through such steps, however it was chosen, keeps to them.
LEMMA RecursiveKeeps ==
    ASSUME NEW n \in Nat, NEW S, NEW f, f[0] \in S[0],
           \A i \in 1..n : f[i - 1] \in S[i - 1] => f[i] \in S[i]
    PROVE  \A i \in 0..n : f[i] \in S[i]
  <1> DEFINE good == {i \in 0..n : f[i] \in S[i]}
  <1>1. 0 \in good OBVIOUS
  <1>2. ASSUME NEW i \in 0..n - 1, i \in good PROVE i + 1 \in good
    <2>1. i + 1 \in 1..n /\ (i + 1) - 1 = i /\ f[i] \in S[i] BY <1>2
    <2> QED BY <2>1
  <1> HIDE DEF good
  <1>3. 0..n \subseteq good BY <1>1, <1>2, Induction
  <1> QED BY <1>3 DEF good

\* The same, with a step given as a function on one set.
LEMMA RecursionExists ==
    ASSUME NEW S, NEW base \in S, NEW n \in Nat, NEW step \in [(1..n) \X S -> S]
    PROVE  \E f \in [0..n -> S] : Recursive(f, base, n, step)
  <1>1. PICK T : T = [i \in 0..n |-> S] OBVIOUS
  <1>2. T \in [0..n -> SUBSET S] /\ base \in T[0] BY <1>1
  <1>3. \A i \in 1..n : \A x \in T[i - 1] : step[<<i, x>>] \in T[i]
    <2> SUFFICES ASSUME NEW i \in 1..n, NEW x \in T[i - 1] PROVE step[<<i, x>>] \in T[i]
      OBVIOUS
    <2>1. T[i - 1] = S /\ T[i] = S BY <1>1
    <2> QED BY <2>1
  <1> QED BY <1>2, <1>3, RecursionKeeps

-----------------------------------------------------------------------------
(* The stripping of a line: Step folded over its characters. *)

\* The text so far, and whether a sequence is open: dst and the loops of flush_line.
Accs == [dst : Seq(Chars), skip : BOOLEAN]
Nil == [dst |-> << >>, skip |-> FALSE]

\* A character leaves a stripped text, inside an escape sequence or not.
LEMMA StepType ==
    ASSUME NEW acc \in Accs, NEW c \in Chars
    PROVE  Step(acc, c) \in Accs
  <1>1. acc.dst \in Seq(Chars) /\ acc.skip \in BOOLEAN BY DEF Accs
  <1>2. CASE acc.skip
    <2>1. Step(acc, c) = [acc EXCEPT !.skip = c # "letter"] BY <1>2 DEF Step
    <2> QED BY <2>1 DEF Accs
  <1>3. CASE ~acc.skip /\ c = "ESC"
    <2>1. Step(acc, c) = [acc EXCEPT !.skip = TRUE] BY <1>3 DEF Step
    <2> QED BY <2>1 DEF Accs
  <1>4. CASE ~acc.skip /\ c # "ESC"
    <2>1. Step(acc, c) = [acc EXCEPT !.dst = Append(acc.dst, c)] BY <1>4 DEF Step
    <2>2. Append(acc.dst, c) \in Seq(Chars) BY <1>1
    <2> QED BY <2>1, <2>2 DEF Accs
  <1> QED BY <1>1, <1>2, <1>3, <1>4

\* FoldLeft takes the indices from the largest down: it exists.
LEMMA MaxIn ==
    ASSUME NEW n \in Nat, NEW s \in SUBSET (1..n), s # {}
    PROVE  Max(s) \in s /\ \A y \in s : y <= Max(s)
  <1>s. \A i \in s : i \in Nat OBVIOUS
  <1> DEFINE t == {n - i : i \in s}
  <1>1. t \subseteq Nat
    <2>1. \A i \in s : n - i \in Nat OBVIOUS
    <2> QED BY <2>1
  <1>0. t # {} OBVIOUS
  <1> HIDE DEF t
  <1>2. PICK k \in t : \A j \in t : k <= j BY <1>0, <1>1, LeastNat
  <1> USE DEF t
  <1>3. PICK i \in s : k = n - i OBVIOUS
  <1>4. \A y \in s : n - i <= n - y BY <1>2, <1>3
  <1>5. \A y \in s : i >= y
    <2> SUFFICES ASSUME NEW y \in s PROVE i >= y
      OBVIOUS
    <2>1. n - i <= n - y BY <1>4
    <2>2. i \in Nat /\ y \in Nat BY ONLY <1>s, i \in s, y \in s
    <2> QED BY <2>1, <2>2
  <1>6. \E x \in s : \A y \in s : x >= y BY <1>5
  <1>7. Max(s) \in s /\ \A y \in s : Max(s) >= y BY <1>6, Zenon DEF Max
  <1> QED BY <1>7

\* A function on sets of indices, as the community modules fold.
IsFold(h, line, n) ==
    h = [s \in SUBSET (1..n) |->
            IF s = {} THEN Nil ELSE Step(h[s \ {Max(s)}], line[Max(s)])]

\* A fold over a line exists, for every line.
LEMMA FoldExists ==
    ASSUME NEW line \in Seq(Chars)
    PROVE  \E h \in [SUBSET (1..Len(line)) -> Accs] : IsFold(h, line, Len(line))
  <1> DEFINE good == {m \in 0..Len(line) : \E h \in [SUBSET (1..m) -> Accs] : IsFold(h, line, m)}
  <1>1. 0 \in good
    <2> DEFINE h == [s \in SUBSET (1..0) |-> Nil]
    <2>1. \A s \in SUBSET (1..0) : s = {} OBVIOUS
    <2>2. IsFold(h, line, 0) BY <2>1 DEF IsFold
    <2>3. h \in [SUBSET (1..0) -> Accs] BY DEF Nil, Accs
    <2> HIDE DEF h
    <2>4. 0 \in 0..Len(line) OBVIOUS
    <2> QED BY <2>2, <2>3, <2>4
  <1>2. ASSUME NEW m \in 0..Len(line) - 1, m \in good
        PROVE  m + 1 \in good
    <2>1. PICK h \in [SUBSET (1..m) -> Accs] : IsFold(h, line, m) BY <1>2
    <2> DEFINE g == [s \in SUBSET (1..m + 1) |->
                        IF m + 1 \in s THEN Step(h[s \ {m + 1}], line[m + 1]) ELSE h[s]]
    <2>2. m + 1 \in DOMAIN line /\ line[m + 1] \in Chars OBVIOUS
    <2>3. \A s \in SUBSET (1..m + 1) :
             /\ m + 1 \in s => s \ {m + 1} \in SUBSET (1..m)
             /\ m + 1 \notin s => s \in SUBSET (1..m)
      OBVIOUS
    <2>4. g \in [SUBSET (1..m + 1) -> Accs]
      BY <2>1, <2>2, <2>3, StepType DEF IsFold
    <2>5. ASSUME NEW s \in SUBSET (1..m + 1), s # {}
          PROVE  g[s] = Step(g[s \ {Max(s)}], line[Max(s)])
      <3>1. Max(s) \in s /\ \A y \in s : y <= Max(s)
        <4>1. m + 1 \in Nat OBVIOUS
        <4> QED BY <4>1, <2>5, MaxIn
      <3>2. CASE m + 1 \in s
        <4>1. Max(s) = m + 1
          <5>1. Max(s) \in 1..m + 1 /\ m + 1 <= Max(s) BY <3>1, <3>2
          <5> HIDE DEF good
          <5> QED BY <5>1
        <4>2. s \ {m + 1} \in SUBSET (1..m + 1) /\ m + 1 \notin s \ {m + 1} OBVIOUS
        <4>3. g[s \ {m + 1}] = h[s \ {m + 1}] BY <4>2
        <4> QED BY <4>1, <4>3, <3>2
      <3>3. CASE m + 1 \notin s
        <4>1. s \in SUBSET (1..m) BY <2>3, <3>3
        <4>2. g[s] = Step(h[s \ {Max(s)}], line[Max(s)]) BY <2>1, <2>5, <3>3, <4>1 DEF IsFold
        <4>3. s \ {Max(s)} \in SUBSET (1..m + 1) /\ m + 1 \notin s \ {Max(s)} BY <3>3
        <4>4. g[s \ {Max(s)}] = h[s \ {Max(s)}] BY <4>3
        <4> QED BY <4>2, <4>4
      <3> QED BY <3>2, <3>3
    <2>6. g[{}] = Nil
      <3>1. h[{}] = Nil BY <2>1 DEF IsFold
      <3> QED BY <3>1
    <2> HIDE DEF g
    <2>7. IsFold(g, line, m + 1) BY <2>4, <2>5, <2>6 DEF IsFold
    <2> QED BY <2>4, <2>7
  <1> HIDE DEF good
  <1>3. Len(line) \in Nat OBVIOUS
  <1>4. Len(line) \in good
    <2>1. PICK n \in Nat : n = Len(line) BY <1>3
    <2>2. \A i \in 0..n - 1 : i \in good => i + 1 \in good BY <1>2, <2>1
    <2>3. 0..n \subseteq good BY <1>1, <2>2, Induction
    <2> QED BY <2>1, <2>3
  <1> QED BY <1>4 DEF good

\* Two folds agree on what the sequences share.
LEMMA FoldUnique ==
    ASSUME NEW g, NEW h, NEW line, NEW longer, NEW m \in Nat, NEW n \in Nat, m <= n,
           IsFold(g, line, m), IsFold(h, longer, n), \A i \in 1..m : line[i] = longer[i]
    PROVE  \A s \in SUBSET (1..m) : g[s] = h[s]
  <1> DEFINE good == {k \in 0..m : \A s \in SUBSET (1..k) : g[s] = h[s]}
  <1>1. 0 \in good
    <2>1. \A s \in SUBSET (1..0) : s = {} OBVIOUS
    <2>2. g[{}] = Nil /\ h[{}] = Nil BY DEF IsFold
    <2>3. \A s \in SUBSET (1..0) : g[s] = h[s] BY <2>1, <2>2
    <2> QED BY <2>3
  <1>2. ASSUME NEW k \in 0..m - 1, k \in good
        PROVE  k + 1 \in good
    <2>1. ASSUME NEW s \in SUBSET (1..k + 1), s # {} PROVE g[s] = h[s]
      <3>1. s \in SUBSET (1..m) /\ s \in SUBSET (1..n) /\ k + 1 \in Nat OBVIOUS
      <3>2. Max(s) \in s /\ \A y \in s : y <= Max(s) BY <3>1, <2>1, MaxIn
      <3>3. s \ {Max(s)} \in SUBSET (1..k)
        <4>1. PICK x : x = Max(s) OBVIOUS
        <4>2. x \in 1..k + 1 /\ \A y \in s : y \in 1..k + 1 /\ y <= x BY <3>2, <4>1
        <4>3. \A y \in s \ {x} : y \in 1..k BY <4>2
        <4> QED BY <4>1, <4>3
      <3>4. g[s \ {Max(s)}] = h[s \ {Max(s)}] BY <3>3, <1>2
      <3>5. line[Max(s)] = longer[Max(s)] BY <3>1, <3>2
      <3>6. g[s] = Step(g[s \ {Max(s)}], line[Max(s)]) BY <3>1, <2>1 DEF IsFold
      <3>7. h[s] = Step(h[s \ {Max(s)}], longer[Max(s)]) BY <3>1, <2>1 DEF IsFold
      <3> QED BY <3>4, <3>5, <3>6, <3>7
    <2>2. g[{}] = h[{}] BY DEF IsFold
    <2>3. \A s \in SUBSET (1..k + 1) : g[s] = h[s] BY <2>1, <2>2
    <2> QED BY <2>3
  <1> HIDE DEF good
  <1>3. m \in good BY <1>1, <1>2, Induction
  <1> QED BY <1>3 DEF good

\* The text and the mode at the end of a line; Stripped is its text.
Folded(line) == FoldLeft(Step, Nil, line)

\* Folded is such a fold, of all the indices of the line.
LEMMA FoldedIs ==
    ASSUME NEW line \in Seq(Chars)
    PROVE  \E h : IsFold(h, line, Len(line)) /\ Folded(line) = h[1..Len(line)]
                  /\ h[1..Len(line)] \in Accs
  <1> DEFINE fold(h) == h = [s \in SUBSET (DOMAIN line) |->
                               IF s = {} THEN Nil ELSE Step(h[s \ {Max(s)}], line[Max(s)])]
             iter == CHOOSE h : fold(h)
  <1>1. PICK h \in [SUBSET (1..Len(line)) -> Accs] : IsFold(h, line, Len(line))
    BY FoldExists
  <1>2. DOMAIN line = 1..Len(line) /\ Len(line) \in Nat OBVIOUS
  <1>3. fold(h) BY <1>1, <1>2 DEF IsFold
  <1>4. fold(iter) BY <1>3, Zenon
  <1>5. Folded(line) = iter[DOMAIN line]
    BY Zenon DEF Folded, FoldLeft, MapThenFoldSet
  <1> HIDE DEF iter
  <1>6. IsFold(iter, line, Len(line)) BY <1>2, <1>4 DEF IsFold
  <1> HIDE DEF fold
  <1>7. PICK g : g = iter OBVIOUS
  <1>8. g[1..Len(line)] \in Accs
    <2>1. PICK n \in Nat : n = Len(line) BY <1>2
    <2>2. IsFold(g, line, n) /\ IsFold(h, line, n) BY <1>1, <1>6, <1>7, <2>1
    <2>3. n <= n /\ \A i \in 1..n : line[i] = line[i] OBVIOUS
    <2>4. PICK k : k = h OBVIOUS
    <2>5. IsFold(k, line, n) BY <2>2, <2>4
    <2> HIDE <1>2
    <2>6. \A s \in SUBSET (1..n) : g[s] = k[s] BY ONLY <2>2, <2>3, <2>5, FoldUnique, n \in Nat
    <2> QED BY <2>1, <2>4, <2>6
  <1> QED BY <1>2, <1>5, <1>6, <1>7, <1>8

\* Stripping of a line, character by character.
LEMMA FoldedType == \A line \in Seq(Chars) : Folded(line) \in Accs
  BY FoldedIs

\* Nothing is stripped to nothing.
LEMMA FoldedNone == Folded(<< >>) = Nil
  <1>1. << >> \in Seq(Chars) /\ Len(<< >>) = 0 /\ 1..0 = {} OBVIOUS
  <1>2. PICK h : IsFold(h, << >>, 0) /\ Folded(<< >>) = h[1..0] BY <1>1, FoldedIs
  <1>3. h[{}] = Nil BY <1>2 DEF IsFold
  <1> QED BY <1>1, <1>2, <1>3

\* The last character is the last step.
LEMMA FoldedAppend ==
    ASSUME NEW line \in Seq(Chars), NEW c \in Chars
    PROVE  Folded(Append(line, c)) = Step(Folded(line), c)
  <1> DEFINE longer == Append(line, c)
  <1>1. PICK n \in Nat : n = Len(line) OBVIOUS
  <1>2. /\ longer \in Seq(Chars) /\ Len(longer) = n + 1
        /\ longer[n + 1] = c /\ \A i \in 1..n : line[i] = longer[i]
    BY <1>1
  <1> HIDE DEF longer
  <1>3. PICK g : IsFold(g, line, n) /\ Folded(line) = g[1..n] BY <1>1, FoldedIs
  <1>4. PICK h : IsFold(h, longer, n + 1) /\ Folded(longer) = h[1..n + 1] BY <1>2, FoldedIs
  <1>5. \A s \in SUBSET (1..n) : g[s] = h[s]
    <2>1. n + 1 \in Nat /\ n <= n + 1 OBVIOUS
    <2> QED BY <1>2, <1>3, <1>4, <2>1, FoldUnique
  <1>6. 1..n + 1 # {} /\ 1..n + 1 \in SUBSET (1..n + 1) /\ n + 1 \in Nat
    <2>1. n + 1 \in 1..n + 1 /\ n + 1 \in Nat OBVIOUS
    <2>2. 1..n + 1 \in SUBSET (1..n + 1) OBVIOUS
    <2>3. 1..n + 1 # {} BY <2>1
    <2> QED BY <2>1, <2>2, <2>3
  <1>7. Max(1..n + 1) = n + 1
    <2>1. PICK x : x = Max(1..n + 1) OBVIOUS
    <2>2. x \in 1..n + 1 /\ \A y \in 1..n + 1 : y <= x BY <1>6, <2>1, MaxIn
    <2>4. n + 1 \in 1..n + 1 OBVIOUS
    <2>3. x = n + 1 BY <2>2, <2>4
    <2> QED BY <2>1, <2>3
  <1>8. (1..n + 1) \ {n + 1} = 1..n OBVIOUS
  <1>9. h[1..n + 1] = Step(h[1..n], longer[n + 1])
    <2>1. h[1..n + 1] = Step(h[(1..n + 1) \ {Max(1..n + 1)}], longer[Max(1..n + 1)])
      BY <1>4, <1>6 DEF IsFold
    <2> QED BY <2>1, <1>7, <1>8
  <1> QED BY <1>2, <1>3, <1>4, <1>5, <1>9 DEF longer

\* What a character adds to the text, and whether it begins or ends a sequence.
LEMMA FoldedFields ==
    ASSUME NEW acc \in Accs, NEW c \in Chars
    PROVE  /\ acc.skip => Step(acc, c).dst = acc.dst /\ Step(acc, c).skip = (c # "letter")
           /\ ~acc.skip /\ c = "ESC" => Step(acc, c).dst = acc.dst /\ Step(acc, c).skip = TRUE
           /\ ~acc.skip /\ c # "ESC" =>
                 Step(acc, c).dst = Append(acc.dst, c) /\ Step(acc, c).skip = FALSE
  <1>1. acc.dst \in Seq(Chars) /\ acc.skip \in BOOLEAN BY DEF Accs
  <1>2. CASE acc.skip
    <2>1. Step(acc, c) = [acc EXCEPT !.skip = c # "letter"] BY <1>2 DEF Step
    <2> QED BY <1>2, <2>1 DEF Accs
  <1>3. CASE ~acc.skip /\ c = "ESC"
    <2>1. Step(acc, c) = [acc EXCEPT !.skip = TRUE] BY <1>3 DEF Step
    <2> QED BY <1>3, <2>1 DEF Accs
  <1>4. CASE ~acc.skip /\ c # "ESC"
    <2>1. Step(acc, c) = [acc EXCEPT !.dst = Append(acc.dst, c)] BY <1>4 DEF Step
    <2> QED BY <1>4, <2>1 DEF Accs
  <1> QED BY <1>1, <1>2, <1>3, <1>4

\* An escape sequence runs on to the end of the line.
Open(line) ==
    \E j \in DOMAIN line : line[j] = "ESC" /\ \A k \in j..Len(line) : line[k] # "letter"

\* What the stripped line is, and what the next character would be.
StrippedRight(line) ==
    LET acc == Folded(line)
    IN  /\ acc.skip <=> Open(line)
        /\ Len(acc.dst) <= Len(line)
        /\ Shows(acc.dst, line)

\* The line with one character more, and what that changes.
Extends(longer, line, n, c) ==
    /\ longer \in Seq(Chars) /\ Len(longer) = n + 1 /\ longer[n + 1] = c
    /\ \A i \in 1..n : longer[i] = line[i]
    /\ \A i \in 1..n : Hidden(longer, i) <=> Hidden(line, i)
    /\ Hidden(longer, n + 1) <=> c = "ESC" \/ Open(line)
    /\ Open(longer) <=> c = "ESC" \/ (Open(line) /\ c # "letter")

\* One more character hides none of those before it.
LEMMA HiddenAppend ==
    ASSUME NEW line \in Seq(Chars), NEW c \in Chars
    PROVE  Extends(Append(line, c), line, Len(line), c)
  <1>a. PICK n \in Nat : n = Len(line) OBVIOUS
  <1>b. PICK longer : longer = Append(line, c) OBVIOUS
  <1>0. n = Len(line) /\ longer = Append(line, c) BY <1>a, <1>b
  <1>1. /\ longer \in Seq(Chars) /\ Len(longer) = n + 1 /\ longer[n + 1] = c
        /\ \A i \in 1..n : longer[i] = line[i]
    BY <1>0
  <1>2. ASSUME NEW i \in 1..n PROVE Hidden(longer, i) <=> Hidden(line, i)
    <2>1. \A j \in 1..i : j \in 1..n /\ \A k \in j..i - 1 : k \in 1..n OBVIOUS
    <2> QED BY ONLY <1>1, <2>1 DEF Hidden
  <1>3. Hidden(longer, n + 1) <=> c = "ESC" \/ Open(line)
    <2>1. DOMAIN line = 1..n BY <1>0
    <2>2. Open(line) <=> \E j \in 1..n : longer[j] = "ESC" /\ \A k \in j..n : longer[k] # "letter"
      BY <1>1, <2>1 DEF Open
    <2>3. Hidden(longer, n + 1)
            <=> \E j \in 1..n + 1 : longer[j] = "ESC" /\ \A k \in j..n : longer[k] # "letter"
      BY DEF Hidden
    <2>4. 1..n + 1 = (1..n) \cup {n + 1} /\ (n + 1)..n = {} OBVIOUS
    <2> QED BY ONLY <1>1, <2>2, <2>3, <2>4
  <1>4. Open(longer) <=> c = "ESC" \/ (Open(line) /\ c # "letter")
    <2>1. DOMAIN line = 1..n /\ DOMAIN longer = 1..n + 1 BY <1>0, <1>1
    <2>2. Open(line) <=> \E j \in 1..n : longer[j] = "ESC" /\ \A k \in j..n : longer[k] # "letter"
      BY <1>1, <2>1 DEF Open
    <2>3. Open(longer)
            <=> \E j \in 1..n + 1 : longer[j] = "ESC" /\ \A k \in j..n + 1 : longer[k] # "letter"
      BY <1>1, <2>1 DEF Open
    <2>4. /\ 1..n + 1 = (1..n) \cup {n + 1} /\ (n + 1)..(n + 1) = {n + 1}
          /\ \A j \in 1..n : j..n + 1 = (j..n) \cup {n + 1}
      OBVIOUS
    <2> QED BY ONLY <1>1, <2>2, <2>3, <2>4
  <1>5. Extends(longer, line, n, c)
    BY <1>1, <1>2, <1>3, <1>4 DEF Extends
  <1> QED BY <1>0, <1>5

\* One more character is stripped or shown, as it stands in a sequence or not.
LEMMA StrippedAppend ==
    ASSUME NEW line \in Seq(Chars), NEW c \in Chars, NEW longer, longer = Append(line, c),
           StrippedRight(line)
    PROVE  StrippedRight(longer)
  <1>1. PICK n \in Nat : n = Len(line) OBVIOUS
  <1>2. PICK acc \in Accs : acc = Folded(line) BY FoldedType
  <1>3. PICK next : next = Folded(longer) OBVIOUS
  <1>4. /\ acc.skip => next.dst = acc.dst /\ next.skip = (c # "letter")
        /\ ~acc.skip /\ c = "ESC" => next.dst = acc.dst /\ next.skip = TRUE
        /\ ~acc.skip /\ c # "ESC" => next.dst = Append(acc.dst, c) /\ next.skip = FALSE
    <2>1. next = Step(acc, c) BY <1>2, <1>3, FoldedAppend
    <2>2. /\ acc.skip => Step(acc, c).dst = acc.dst /\ Step(acc, c).skip = (c # "letter")
          /\ ~acc.skip /\ c = "ESC" => Step(acc, c).dst = acc.dst /\ Step(acc, c).skip = TRUE
          /\ ~acc.skip /\ c # "ESC" =>
                Step(acc, c).dst = Append(acc.dst, c) /\ Step(acc, c).skip = FALSE
      BY ONLY FoldedFields, acc \in Accs, c \in Chars
    <2> QED BY ONLY <2>1, <2>2
  <1>5. /\ longer \in Seq(Chars) /\ Len(longer) = n + 1 /\ longer[n + 1] = c
        /\ \A i \in 1..n : longer[i] = line[i]
        /\ \A i \in 1..n : Hidden(longer, i) <=> Hidden(line, i)
        /\ Hidden(longer, n + 1) <=> c = "ESC" \/ Open(line)
        /\ Open(longer) <=> c = "ESC" \/ (Open(line) /\ c # "letter")
    BY <1>1, HiddenAppend DEF Extends
  <1>6. /\ acc.skip <=> Open(line)
        /\ Len(acc.dst) <= n
        /\ Shows(acc.dst, line)
    BY <1>1, <1>2 DEF StrippedRight
  <1>7. acc.dst \in Seq(Chars) /\ acc.skip \in BOOLEAN BY DEF Accs
  <1>8. next.skip <=> Open(longer)
    BY <1>4, <1>5, <1>6, <1>7
  <1>9. DOMAIN line = 1..n /\ DOMAIN longer = (1..n) \cup {n + 1} BY <1>1, <1>5
  <1>10. Visible(longer) = Visible(line) \cup (IF Hidden(longer, n + 1) THEN {} ELSE {n + 1})
    BY <1>5, <1>9 DEF Visible
  <1>11. PICK at \in [DOMAIN acc.dst -> Visible(line)] :
            /\ \A i, j \in DOMAIN acc.dst : i < j => at[i] < at[j]
            /\ \A v \in Visible(line) : \E i \in DOMAIN acc.dst : at[i] = v
            /\ \A i \in DOMAIN acc.dst : acc.dst[i] = line[at[i]]
    BY <1>6 DEF Shows
  <1>12. Visible(line) \subseteq 1..n BY <1>9 DEF Visible
  <1>13. CASE acc.skip \/ c = "ESC"
    <2>1. next.dst = acc.dst BY <1>4, <1>7, <1>13
    <2>2. Visible(longer) = Visible(line) BY <1>5, <1>6, <1>10, <1>13
    <2>3. \A i \in DOMAIN acc.dst : acc.dst[i] = longer[at[i]] BY <1>5, <1>11, <1>12
    <2>4. Shows(acc.dst, longer)
      <3>1. at \in [DOMAIN acc.dst -> Visible(longer)] BY <2>2
      <3>2. \A v \in Visible(longer) : \E i \in DOMAIN acc.dst : at[i] = v BY <1>11, <2>2
      <3> QED BY ONLY <1>11, <2>3, <3>1, <3>2 DEF Shows
    <2>5. Len(next.dst) <= Len(longer) BY <1>5, <1>6, <1>7, <2>1
    <2> QED BY <1>3, <1>8, <2>1, <2>4, <2>5 DEF StrippedRight
  <1>14. CASE ~acc.skip /\ c # "ESC"
    <2>1. PICK m \in Nat : m = Len(acc.dst) BY <1>7
    <2>2. /\ next.dst \in Seq(Chars) /\ Len(next.dst) = m + 1 /\ next.dst[m + 1] = c
          /\ DOMAIN acc.dst = 1..m /\ DOMAIN next.dst = 1..m + 1
          /\ \A i \in 1..m : next.dst[i] = acc.dst[i]
      <3>1. next.dst = Append(acc.dst, c) BY <1>4, <1>7, <1>14
      <3>2. PICK dst \in Seq(Chars) : dst = acc.dst BY <1>7
      <3> QED BY <2>1, <3>1, <3>2
    <2>3. Visible(longer) = Visible(line) \cup {n + 1} BY <1>5, <1>6, <1>10, <1>14
    <2> DEFINE to == [i \in 1..m + 1 |-> IF i = m + 1 THEN n + 1 ELSE at[i]]
    <2>4. at \in [1..m -> Visible(line)] BY <2>2
    <2>5. to[m + 1] = n + 1 /\ \A i \in 1..m : to[i] = at[i] OBVIOUS
    <2>6. to \in [DOMAIN next.dst -> Visible(longer)] BY <2>2, <2>3, <2>4
    <2> HIDE DEF to
    <2>7. \A i \in 1..m : to[i] \in 1..n BY <1>12, <2>4, <2>5
    <2>8. ASSUME NEW i \in 1..m + 1, NEW j \in 1..m + 1, i < j PROVE to[i] < to[j]
      <3>1. CASE j = m + 1 BY <2>5, <2>7, <2>8, <3>1
      <3>2. CASE j # m + 1
        <4>1. i \in 1..m /\ j \in 1..m BY <2>8, <3>2
        <4> QED BY <4>1, <1>11, <2>2, <2>5, <2>8
      <3> QED BY <3>1, <3>2
    <2>9. ASSUME NEW v \in Visible(longer) PROVE \E i \in 1..m + 1 : to[i] = v
      <3>1. CASE v = n + 1 BY <2>5, <3>1
      <3>2. CASE v \in Visible(line)
        <4>1. PICK i \in 1..m : at[i] = v BY <1>11, <2>2, <3>2
        <4> QED BY <4>1, <2>5
      <3> QED BY <2>3, <3>1, <3>2
    <2>10. ASSUME NEW i \in 1..m + 1 PROVE next.dst[i] = longer[to[i]]
      <3>1. CASE i = m + 1 BY <1>5, <2>2, <2>5, <3>1
      <3>2. CASE i # m + 1
        <4>1. i \in 1..m BY <3>2
        <4>2. next.dst[i] = line[at[i]] BY <1>11, <2>2, <4>1
        <4> QED BY <4>1, <4>2, <1>5, <2>5, <2>7
      <3> QED BY <3>1, <3>2
    <2>11. Shows(next.dst, longer)
      <3>1. DOMAIN next.dst = 1..m + 1 BY <2>2
      <3> QED BY ONLY <2>6, <2>8, <2>9, <2>10, <3>1, SMTT(30) DEF Shows
    <2>12. Len(next.dst) <= Len(longer) BY <1>5, <1>6, <2>1, <2>2
    <2> QED BY <1>3, <1>8, <2>11, <2>12 DEF StrippedRight
  <1> QED BY <1>7, <1>13, <1>14

\* Stripping leaves the characters no escape sequence holds, of every line.
LEMMA StrippedLine == \A line \in Seq(Chars) : StrippedRight(line)
  <1> SUFFICES ASSUME NEW n \in Nat
               PROVE  \A line \in Seq(Chars) : Len(line) = n => StrippedRight(line)
    OBVIOUS
  <1> DEFINE good == {m \in 0..n : \A line \in Seq(Chars) : Len(line) = m => StrippedRight(line)}
  <1>1. 0 \in good
    <2>1. StrippedRight(<< >>)
      <3>1. Folded(<< >>).dst = << >> /\ Folded(<< >>).skip = FALSE BY FoldedNone DEF Nil
      <3>2. ~Open(<< >>) BY DEF Open
      <3>3. DOMAIN << >> = {} /\ Visible(<< >>) = {} BY DEF Visible
      <3>4. [i \in {} |-> 0] \in [{} -> {}] OBVIOUS
      <3>5. Shows(<< >>, << >>) BY <3>3, <3>4 DEF Shows
      <3> QED BY <3>1, <3>2, <3>5 DEF StrippedRight
    <2>2. \A line \in Seq(Chars) : Len(line) = 0 => line = << >> OBVIOUS
    <2> QED BY <2>1, <2>2
  <1>2. ASSUME NEW m \in 0..n - 1, m \in good
        PROVE  m + 1 \in good
    <2>1. ASSUME NEW line \in Seq(Chars), Len(line) = m + 1 PROVE StrippedRight(line)
      <3>1. line # << >> BY <2>1
      <3>2. PICK front \in Seq(Chars), c \in Chars : line = Append(front, c)
        BY <3>1, SequenceEmptyOrAppend
      <3>3. Len(front) = m BY <2>1, <3>2
      <3>4. StrippedRight(front) BY <1>2, <3>3
      <3> QED BY <3>2, <3>4, StrippedAppend
    <2> QED BY <2>1
  <1> HIDE DEF good
  <1>3. n \in good BY <1>1, <1>2, Induction
  <1> QED BY <1>3 DEF good

-----------------------------------------------------------------------------
(* Texts run together, one after the other. *)

\* The texts of the first lines, run together, for each number of them.
Flattened(f, lines, n) ==
    /\ f[0] = << >>
    /\ \A i \in 1..n : f[i] = f[i - 1] \o lines[i]
    /\ \A k \in 0..n : FlattenSeq([i \in 1..k |-> lines[i]]) = f[k]

\* The lines of a copy, run together one after the other.
LEMMA FlattenIs ==
    ASSUME NEW S, NEW n \in Nat, NEW lines \in [1..n -> Seq(S)]
    PROVE  \E f \in [0..n -> Seq(S)] : Flattened(f, lines, n)
  <1> DEFINE step == [p \in (1..n) \X Seq(S) |-> p[2] \o lines[p[1]]]
  <1>1. step \in [(1..n) \X Seq(S) -> Seq(S)] OBVIOUS
  <1>2. \A i \in 1..n, s \in Seq(S) : step[<<i, s>>] = s \o lines[i] OBVIOUS
  <1> HIDE DEF step
  <1>3. PICK f \in [0..n -> Seq(S)] :
           f[0] = << >> /\ \A i \in 1..n : f[i] = step[<<i, f[i - 1]>>]
    <2> SUFFICES \E f \in [0..n -> Seq(S)] : Recursive(f, << >>, n, step)
      BY DEF Recursive
    <2>1. PICK T, nil : T = Seq(S) /\ nil = << >> OBVIOUS
    <2>2. nil \in T /\ step \in [(1..n) \X T -> T] BY <1>1, <2>1
    <2>3. \E f \in [0..n -> T] : Recursive(f, nil, n, step)
      BY <2>2, RecursionExists
    <2> QED BY <2>1, <2>3
  <1>4. \A i \in 1..n : f[i] = f[i - 1] \o lines[i]
    <2>1. \A i \in 1..n : f[i - 1] \in Seq(S) OBVIOUS
    <2> QED BY <1>2, <1>3, <2>1
  <1>5. ASSUME NEW k \in 0..n
        PROVE  FlattenSeq([i \in 1..k |-> lines[i]]) = f[k]
    <2> DEFINE seqs == [i \in 1..k |-> lines[i]]
    <2>1. Len(seqs) = k /\ \A i \in 1..k : seqs[i] = lines[i] OBVIOUS
    <2>2. CASE k = 0
      <3>1. seqs = << >> BY <2>2
      <3> QED BY <1>3, <2>1, <2>2, <3>1 DEF FlattenSeq
    <2>3. CASE k # 0
      <3> DEFINE recursive(h) == h = [i \in 1..k |-> IF i = 1 THEN seqs[i] ELSE h[i - 1] \o seqs[i]]
                 flatten == CHOOSE h : recursive(h)
      <3>1. recursive([i \in 1..k |-> f[i]])
        <4>1. f[1] = lines[1]
          <5>1. lines[1] \in Seq(S) /\ 1 \in 1..n BY <2>3
          <5>2. f[1] = f[1 - 1] \o lines[1] BY <1>4, <5>1
          <5>3. 1 - 1 = 0 OBVIOUS
          <5>4. PICK l \in Seq(S) : l = lines[1] BY <5>1
          <5>5. << >> \o l = l OBVIOUS
          <5> QED BY <1>3, <5>2, <5>3, <5>4, <5>5
        <4>2. \A i \in 1..k : i # 1 => i - 1 \in 1..k /\ f[i] = f[i - 1] \o lines[i]
          <5> SUFFICES ASSUME NEW i \in 1..k, i # 1
                       PROVE  i - 1 \in 1..k /\ f[i] = f[i - 1] \o lines[i]
            OBVIOUS
          <5>1. i \in 1..n OBVIOUS
          <5>2. f[i] = f[i - 1] \o lines[i] BY <1>4, <5>1
          <5>3. i - 1 \in 1..k OBVIOUS
          <5> QED BY <5>2, <5>3
        <4> QED BY <2>1, <4>1, <4>2
      <3>2. recursive(flatten) BY <3>1, Zenon
      <3>3. FlattenSeq(seqs) = flatten[k]
        <4> HIDE DEF seqs
        <4>1. Len(seqs) # 0 BY <2>1, <2>3
        <4>2. FlattenSeq(seqs) = LET flat[i \in 1..Len(seqs)] ==
                                       IF i = 1 THEN seqs[i] ELSE flat[i-1] \o seqs[i]
                                 IN flat[Len(seqs)]
          BY <4>1, Zenon DEF FlattenSeq
        <4> QED BY <2>1, <4>2
      <3> HIDE DEF flatten
      <3>4. PICK g : g = flatten OBVIOUS
      <3>5. recursive(g) BY <3>2, <3>4
      <3> DEFINE good == {i \in 0..k : i # 0 => g[i] = f[i]}
      <3>6. 0 \in good OBVIOUS
      <3>7. ASSUME NEW i \in 0..k - 1, i \in good PROVE i + 1 \in good
        <4>1. i + 1 \in 1..k /\ i + 1 \in 1..n /\ (i + 1) - 1 = i OBVIOUS
        <4>2. g[i + 1] = IF i + 1 = 1 THEN seqs[i + 1] ELSE g[i] \o seqs[i + 1] BY <3>5, <4>1
        <4>3. f[i + 1] = f[i] \o lines[i + 1] BY <1>4, <4>1
        <4>4. CASE i = 0
          <5>1. PICK l \in Seq(S) : l = lines[1] BY <4>1, <4>4
          <5>2. << >> \o l = l OBVIOUS
          <5>3. g[1] = lines[1] BY <2>1, <4>1, <4>2, <4>4
          <5>4. f[1] = lines[1]
            <6>1. f[0 + 1] = f[0] \o lines[0 + 1] BY <4>3, <4>4
            <6>2. 0 + 1 = 1 OBVIOUS
            <6> QED BY ONLY <1>3, <5>1, <5>2, <6>1, <6>2
          <5>5. i + 1 = 1 BY <4>4
          <5> QED BY <4>1, <5>3, <5>4, <5>5
        <4>5. CASE i # 0
          <5>1. g[i] = f[i] BY <3>7, <4>5
          <5>2. i + 1 # 1 BY <4>5
          <5>3. g[i + 1] = f[i + 1] BY <2>1, <4>1, <4>2, <4>3, <5>1, <5>2
          <5> QED BY <4>1, <5>3
        <4> QED BY <4>4, <4>5
      <3> HIDE DEF good
      <3>8. k \in Nat /\ k \in 0..k OBVIOUS
      <3>9. k \in good BY <3>6, <3>7, <3>8, Induction
      <3> QED BY <2>3, <3>3, <3>4, <3>9 DEF good
    <2> QED BY <2>2, <2>3
  <1> QED BY <1>3, <1>4, <1>5 DEF Flattened

\* A copy is never shorter for one more line.
LEMMA FlattenGrows ==
    ASSUME NEW S, NEW n \in Nat, NEW lines \in [1..n -> Seq(S)], NEW f \in [0..n -> Seq(S)],
           \A i \in 1..n : f[i] = f[i - 1] \o lines[i], NEW m \in 0..n
    PROVE  \A k \in 0..m : Len(f[k]) <= Len(f[m])
  <1> DEFINE good == {j \in 0..n : \A k \in 0..j : Len(f[k]) <= Len(f[j])}
  <1>1. 0 \in good
    <2>1. f[0] \in Seq(S) OBVIOUS
    <2>2. Len(f[0]) \in Nat BY <2>1
    <2> QED BY <2>2
  <1>2. ASSUME NEW j \in 0..n - 1, j \in good PROVE j + 1 \in good
    <2>1. /\ j + 1 \in 1..n /\ f[j] \in Seq(S) /\ lines[j + 1] \in Seq(S)
          /\ f[j + 1] = f[j] \o lines[j + 1]
      <3>1. j + 1 \in 1..n /\ j \in 0..n /\ (j + 1) - 1 = j OBVIOUS
      <3>2. f[j] \in Seq(S) /\ lines[j + 1] \in Seq(S) BY <3>1
      <3> QED BY <3>1, <3>2
    <2>2. Len(f[j + 1]) = Len(f[j]) + Len(lines[j + 1]) BY <2>1
    <2>3. Len(f[j]) \in Nat /\ Len(lines[j + 1]) \in Nat BY <2>1
    <2>4. ASSUME NEW k \in 0..j + 1 PROVE Len(f[k]) <= Len(f[j + 1])
      <3>0. Len(f[k]) \in Nat
        <4>1. k \in 0..n OBVIOUS
        <4>2. f[k] \in Seq(S) BY <4>1
        <4> QED BY <4>2
      <3>1. CASE k = j + 1 BY <3>0, <3>1
      <3>2. CASE k # j + 1
        <4>1. k \in 0..j BY <3>2
        <4>2. Len(f[k]) <= Len(f[j]) BY <1>2, <4>1
        <4>3. PICK a, b, c, d : a = Len(f[k]) /\ b = Len(f[j]) /\ c = Len(lines[j + 1])
                                /\ d = Len(f[j + 1])
          OBVIOUS
        <4>4. a \in Nat /\ b \in Nat /\ c \in Nat
          BY ONLY <2>3, <3>0, <4>3
        <4>5. d = b + c
          BY ONLY <2>2, <4>3
        <4>6. a <= b
          BY ONLY <4>2, <4>3
        <4>7. a <= d
          BY ONLY <4>4, <4>5, <4>6
        <4> QED BY ONLY <4>3, <4>7
      <3> QED BY <3>1, <3>2
    <2>5. j + 1 \in 0..n OBVIOUS
    <2> QED BY ONLY <2>4, <2>5
  <1> HIDE DEF good
  <1>3. m \in good
    <2>1. 0..n \subseteq good BY <1>1, <1>2, Induction
    <2> QED BY <2>1
  <1> QED BY <1>3 DEF good

-----------------------------------------------------------------------------
(* The invariant of the ring and of the lengths of its lines. *)

\* The ring, and the lengths of what it holds.
LogInv == RingInv /\ TypeOK

\* A stripped line is no longer than the line, and shows what no sequence holds.
LEMMA StrippedIs ==
    ASSUME NEW line \in Seq(Chars)
    PROVE  /\ Stripped(line) \in Seq(Chars)
           /\ Len(Stripped(line)) <= Len(line)
           /\ Shows(Stripped(line), line)
  <1>1. PICK acc \in Accs : acc = Folded(line) BY FoldedType
  <1>2. Stripped(line) = acc.dst BY <1>1 DEF Stripped, Folded, Nil
  <1>3. StrippedRight(line) BY StrippedLine
  <1> QED BY <1>1, <1>2, <1>3 DEF StrippedRight, Accs

\* The lines are empty at the start.
LEMMA LogInit == Init => LogInv
  <1> SUFFICES ASSUME Init PROVE TypeOK
    BY RingInit DEF LogInv
  <1>1. << >> \in Seq(Chars) /\ Len(<< >>) < LOG_LINE_LEN BY LogAssumption
  <1>2. \A line \in {s_lines[i] : i \in Slots} \cup {s_cur_line} : line = << >>
    BY DEF Init
  <1>3. \A line \in {s_lines[i] : i \in Slots} \cup {s_cur_line} :
           line \in Seq(Chars) /\ Len(line) < LOG_LINE_LEN
    BY ONLY <1>1, <1>2
  <1>4. s_head \in Slots /\ s_count \in 0..LOG_LINES /\ DOMAIN s_lines = Slots
    BY LogAssumption DEF Init, Slots
  <1> QED BY <1>3, <1>4 DEF TypeOK

\* No step makes a line as long as its slot.
LEMMA LogNext == LogInv /\ [Next]_vars => LogInv'
  <1> SUFFICES ASSUME LogInv, [Next]_vars PROVE TypeOK'
    BY RingNext DEF LogInv
  <1>1. RingInv' BY RingNext DEF LogInv
  <1>2. s_head' \in Slots /\ s_count' \in 0..LOG_LINES BY <1>1 DEF RingInv, Slots
  <1>3. DOMAIN s_lines' = Slots BY <1>1 DEF RingInv, Slots
  <1>4. /\ \A i \in Slots : s_lines[i] \in Seq(Chars) /\ Len(s_lines[i]) < LOG_LINE_LEN
        /\ s_cur_line \in Seq(Chars) /\ Len(s_cur_line) < LOG_LINE_LEN
    BY DEF LogInv, TypeOK
  <1>5. /\ \A i \in Slots : s_lines'[i] \in Seq(Chars) /\ Len(s_lines'[i]) < LOG_LINE_LEN
        /\ s_cur_line' \in Seq(Chars) /\ Len(s_cur_line') < LOG_LINE_LEN
    <2>1. CASE OutChar
      <3>1. PICK c \in Chars \cup {"CR"} :
               s_cur_line' = IF c # "CR" /\ HasRoom(s_cur_line)
                             THEN Append(s_cur_line, c) ELSE s_cur_line
        BY <2>1 DEF OutChar
      <3>2. s_cur_line' \in Seq(Chars) /\ Len(s_cur_line') < LOG_LINE_LEN
        <4>1. CASE c # "CR" /\ HasRoom(s_cur_line)
          <5>1. c \in Chars /\ Len(s_cur_line) < LOG_LINE_LEN - 1 BY <4>1 DEF HasRoom
          <5>2. Append(s_cur_line, c) \in Seq(Chars)
                /\ Len(Append(s_cur_line, c)) = Len(s_cur_line) + 1
            BY <1>4, <5>1
          <5>3. Len(s_cur_line) \in Nat BY <1>4
          <5> QED BY <3>1, <4>1, <5>1, <5>2, <5>3, LogAssumption
        <4>2. CASE ~(c # "CR" /\ HasRoom(s_cur_line)) BY <1>4, <3>1, <4>2
        <4> QED BY <4>1, <4>2
      <3>3. s_lines' = s_lines BY <2>1 DEF OutChar
      <3> QED BY <1>4, <3>2, <3>3
    <2>2. CASE OutNewline
      <3>1. PICK line : line = Stripped(s_cur_line) OBVIOUS
      <3>2. line \in Seq(Chars) /\ Len(line) <= Len(s_cur_line) BY <1>4, <3>1, StrippedIs
      <3>3. Len(line) \in Nat /\ Len(s_cur_line) \in Nat BY <1>4, <3>2
      <3>4. Len(line) < LOG_LINE_LEN BY <1>4, <3>2, <3>3, LogAssumption
      <3>5. s_lines' = [s_lines EXCEPT ![s_head] = line] BY <2>2, <3>1 DEF OutNewline
      <3>6. DOMAIN s_lines = Slots BY DEF LogInv, TypeOK
      <3>7. \A i \in Slots : s_lines'[i] = line \/ s_lines'[i] = s_lines[i] BY <3>5, <3>6
      <3>8. s_cur_line' = << >> BY <2>2 DEF OutNewline
      <3>9. s_cur_line' \in Seq(Chars) /\ Len(s_cur_line') < LOG_LINE_LEN
        BY <3>8, LogAssumption
      <3> QED BY <1>4, <3>2, <3>4, <3>7, <3>9
    <2>3. CASE UNCHANGED vars
      BY <1>4, <2>3 DEF vars
    <2> QED BY <2>1, <2>2, <2>3 DEF Next
  <1>6. \A line \in {s_lines'[i] : i \in Slots} \cup {s_cur_line'} :
           line \in Seq(Chars) /\ Len(line) < LOG_LINE_LEN
    BY <1>5
  <1> QED BY <1>2, <1>3, <1>6 DEF TypeOK, Slots

\* What get_lines copies is as many lines as the ring holds, each shorter than its slot.
LEMMA KeptTyped ==
    ASSUME LogInv
    PROVE  /\ s_count \in 0..LOG_LINES
           /\ Kept \in [1..s_count -> Seq(Chars)]
           /\ \A i \in 1..s_count : Len(Kept[i]) < LOG_LINE_LEN
  <1>1. s_count \in 0..LOG_LINES BY DEF LogInv, RingInv
  <1>2. ASSUME NEW i \in 1..s_count PROVE (Start + (i - 1)) % LOG_LINES \in Slots
    <2>1. Start + (i - 1) \in 0..2 * LOG_LINES - 1
      BY LogAssumption, SMTT(30) DEF Start, LogInv, RingInv, Slots
    <2> QED BY <2>1, LogAssumption, SlotMod DEF Slots
  <1>3. \A i \in Slots : s_lines[i] \in Seq(Chars) /\ Len(s_lines[i]) < LOG_LINE_LEN
    BY DEF LogInv, TypeOK
  <1> QED BY <1>1, <1>2, <1>3 DEF Kept

-----------------------------------------------------------------------------
(* get_lines: the loop over the lines, and what it leaves. *)

\* What a copy holds: characters of lines, and newlines.
Printed == Chars \cup {"\n"}
Copies == [buf : Seq(Printed), remain : Int, ended : BOOLEAN]

\* A line more is copied, or the copy has ended.
LEMMA CopyIs ==
    ASSUME NEW acc \in Copies, NEW line \in Seq(Chars)
    PROVE  /\ Copy(acc, line) \in Copies
           /\ acc.ended \/ Len(line) + 1 > acc.remain =>
                 Copy(acc, line) = [acc EXCEPT !.ended = TRUE]
           /\ ~acc.ended /\ Len(line) + 1 <= acc.remain =>
                 Copy(acc, line) = [buf |-> acc.buf \o (line \o <<"\n">>),
                                    remain |-> acc.remain - (Len(line) + 1),
                                    ended |-> FALSE]
  <1>1. acc.buf \in Seq(Printed) /\ acc.remain \in Int /\ acc.ended \in BOOLEAN
    BY DEF Copies
  <1>2. line \in Seq(Printed) /\ <<"\n">> \in Seq(Printed) /\ Len(line) \in Nat
    BY DEF Printed
  <1>3. CASE acc.ended \/ Len(line) + 1 > acc.remain
    <2>1. Copy(acc, line) = [acc EXCEPT !.ended = TRUE] BY <1>3 DEF Copy
    <2>2. Copy(acc, line) \in Copies BY <2>1 DEF Copies
    <2>3. ~(~acc.ended /\ Len(line) + 1 <= acc.remain) BY <1>1, <1>2, <1>3
    <2> QED BY ONLY <2>1, <2>2, <2>3
  <1>4. CASE ~acc.ended /\ Len(line) + 1 <= acc.remain
    <2>1. Copy(acc, line) = [acc EXCEPT !.buf = (acc.buf \o line) \o <<"\n">>,
                                        !.remain = acc.remain - (Len(line) + 1)]
      BY <1>1, <1>2, <1>4 DEF Copy
    <2>2. (acc.buf \o line) \o <<"\n">> = acc.buf \o (line \o <<"\n">>)
      <3>1. PICK s \in Seq(Printed) : s = acc.buf BY <1>1
      <3>2. PICK t \in Seq(Printed) : t = line BY <1>2
      <3>3. PICK u \in Seq(Printed) : u = <<"\n">> BY <1>2
      <3>4. (s \o t) \o u = s \o (t \o u) BY ConcatAssociative
      <3> QED BY ONLY <3>1, <3>2, <3>3, <3>4
    <2>3. acc.buf \o (line \o <<"\n">>) \in Seq(Printed) BY <1>1, <1>2
    <2>4. PICK new : new = acc.buf \o (line \o <<"\n">>) OBVIOUS
    <2>5. new \in Seq(Printed) BY <2>3, <2>4
    <2>6. Copy(acc, line) = [acc EXCEPT !.buf = new, !.remain = acc.remain - (Len(line) + 1)]
      BY <2>1, <2>2, <2>4
    <2>7. Copy(acc, line) = [buf |-> new, remain |-> acc.remain - (Len(line) + 1),
                             ended |-> FALSE]
      BY <1>4, <2>6 DEF Copies
    <2>8. Copy(acc, line) \in Copies BY <1>1, <1>2, <2>5, <2>7 DEF Copies
    <2>9. ~(acc.ended \/ Len(line) + 1 > acc.remain) BY <1>1, <1>2, <1>4
    <2> QED BY ONLY <2>4, <2>7, <2>8, <2>9
  <1>5. acc.ended \/ Len(line) + 1 > acc.remain \/ Len(line) + 1 <= acc.remain
    BY <1>1, <1>2
  <1> QED BY ONLY <1>3, <1>4, <1>5

\* Line by line, what get_lines has copied.
LEMMA CopiedExists ==
    ASSUME NEW n \in Nat, NEW lines \in [1..n -> Seq(Chars)], NEW size \in Int
    PROVE  \E f \in [0..n -> Copies] :
              /\ f[0] = [buf |-> << >>, remain |-> size - 1, ended |-> FALSE]
              /\ \A i \in 1..n : f[i] = Copy(f[i - 1], lines[i])
  <1> DEFINE step == [p \in (1..n) \X Copies |-> Copy(p[2], lines[p[1]])]
  <1>1. step \in [(1..n) \X Copies -> Copies] BY CopyIs
  <1>2. \A i \in 1..n, s \in Copies : step[<<i, s>>] = Copy(s, lines[i]) OBVIOUS
  <1> HIDE DEF step
  <1>3. PICK base : base = [buf |-> << >>, remain |-> size - 1, ended |-> FALSE] OBVIOUS
  <1>4. base \in Copies BY <1>3 DEF Copies
  <1>5. PICK f \in [0..n -> Copies] : Recursive(f, base, n, step)
    BY <1>1, <1>4, RecursionExists
  <1>6. ASSUME NEW i \in 1..n PROVE f[i] = Copy(f[i - 1], lines[i])
    <2>1. f[i - 1] \in Copies OBVIOUS
    <2> QED BY <1>2, <1>5, <2>1 DEF Recursive
  <1> QED BY <1>3, <1>5, <1>6 DEF Recursive

\* The loop of get_lines, unrolled: what is copied after each line.
LEMMA GetLinesIs ==
    ASSUME LogInv, NEW size \in Int
    PROVE  \E f :
              /\ GetLines(size) = f[s_count].buf
              /\ f[0] = [buf |-> << >>, remain |-> size - 1, ended |-> FALSE]
              /\ \A i \in 1..s_count : f[i] = Copy(f[i - 1], Kept[i])
  <1> DEFINE recursive(h) ==
                 h = [n \in 0..s_count |->
                         IF n = 0 THEN [buf |-> << >>, remain |-> size - 1, ended |-> FALSE]
                         ELSE Copy(h[n - 1], Kept[n])]
             copied == CHOOSE h : recursive(h)
  <1>1. s_count \in Nat /\ Kept \in [1..s_count -> Seq(Chars)] BY KeptTyped
  <1>2. PICK f \in [0..s_count -> Copies] :
           /\ f[0] = [buf |-> << >>, remain |-> size - 1, ended |-> FALSE]
           /\ \A i \in 1..s_count : f[i] = Copy(f[i - 1], Kept[i])
    BY <1>1, CopiedExists
  <1>3. recursive(f)
    <2>1. \A i \in 0..s_count : i # 0 => i \in 1..s_count BY <1>1
    <2> QED BY <1>2, <2>1
  <1>4. recursive(copied) BY <1>3, Zenon
  <1>5. GetLines(size) = copied[s_count].buf BY Zenon DEF GetLines
  <1> HIDE DEF copied
  <1>6. PICK g : g = copied OBVIOUS
  <1>7. recursive(g) BY <1>4, <1>6
  <1>8. \A i \in 1..s_count : i \in 0..s_count /\ i # 0 BY <1>1
  <1>9. 0 \in 0..s_count BY <1>1
  <1>10. g[0] = [buf |-> << >>, remain |-> size - 1, ended |-> FALSE]
    BY <1>7, <1>9
  <1>11. \A i \in 1..s_count : g[i] = Copy(g[i - 1], Kept[i]) BY <1>7, <1>8
  <1> QED BY <1>5, <1>6, <1>10, <1>11

\* The text of k lines: the k lines, and a newline after each.
LEMMA TextIs ==
    ASSUME LogInv
    PROVE  \E f \in [0..s_count -> Seq(Printed)] :
              /\ f[0] = << >>
              /\ \A i \in 1..s_count : f[i] = f[i - 1] \o (Kept[i] \o <<"\n">>)
              /\ \A i \in 1..s_count : Len(f[i]) = Len(f[i - 1]) + Len(Kept[i]) + 1
              /\ \A k \in 0..s_count : Text(k) = f[k]
              /\ \A m \in 0..s_count : \A k \in 0..m : Len(f[k]) <= Len(f[m])
  <1>1. PICK n \in Nat : n = s_count BY KeptTyped
  <1>2. Kept \in [1..n -> Seq(Chars)] BY <1>1, KeptTyped
  <1>3. PICK lines : lines = [i \in 1..n |-> Kept[i] \o <<"\n">>] OBVIOUS
  <1>4. lines \in [1..n -> Seq(Printed)]
    <2> SUFFICES ASSUME NEW i \in 1..n PROVE Kept[i] \o <<"\n">> \in Seq(Printed)
      BY <1>3
    <2>1. Kept[i] \in Seq(Printed) /\ <<"\n">> \in Seq(Printed) BY <1>2 DEF Printed
    <2> QED BY <2>1
  <1>5. PICK f \in [0..n -> Seq(Printed)] :
           /\ f[0] = << >>
           /\ \A i \in 1..n : f[i] = f[i - 1] \o lines[i]
           /\ \A k \in 0..n : FlattenSeq([i \in 1..k |-> lines[i]]) = f[k]
    <2>1. PICK f \in [0..n -> Seq(Printed)] : Flattened(f, lines, n) BY <1>4, FlattenIs
    <2> QED BY <2>1 DEF Flattened
  <1>6. ASSUME NEW k \in 0..n PROVE Text(k) = f[k]
    <2>1. \A i \in 1..k : lines[i] = Kept[i] \o <<"\n">> BY <1>3
    <2>2. [i \in 1..k |-> lines[i]] = [i \in 1..k |-> Kept[i] \o <<"\n">>] BY <2>1
    <2> QED BY <1>5, <2>2 DEF Text
  <1>7. ASSUME NEW i \in 1..n
        PROVE  /\ f[i] = f[i - 1] \o (Kept[i] \o <<"\n">>)
               /\ Len(f[i]) = Len(f[i - 1]) + Len(Kept[i]) + 1
    <2>1. f[i] = f[i - 1] \o (Kept[i] \o <<"\n">>) BY <1>3, <1>5
    <2>2. PICK s \in Seq(Printed) : s = f[i - 1] OBVIOUS
    <2>3. PICK l \in Seq(Printed) : l = Kept[i] BY <1>2 DEF Printed
    <2>4. <<"\n">> \in Seq(Printed) BY DEF Printed
    <2>5. Len(l \o <<"\n">>) = Len(l) + 1 /\ l \o <<"\n">> \in Seq(Printed) BY <2>4
    <2>6. Len(s \o (l \o <<"\n">>)) = Len(s) + Len(l \o <<"\n">>) BY <2>5
    <2>7. Len(s) \in Nat /\ Len(l) \in Nat OBVIOUS
    <2>8. Len(s \o (l \o <<"\n">>)) = Len(s) + Len(l) + 1 BY ONLY <2>5, <2>6, <2>7
    <2> QED BY ONLY <2>1, <2>2, <2>3, <2>8
  <1>8. ASSUME NEW m \in 0..n PROVE \A k \in 0..m : Len(f[k]) <= Len(f[m])
    BY <1>4, <1>5, FlattenGrows
  <1> QED BY <1>1, <1>5, <1>6, <1>7, <1>8

\* A text of k lines has a newline after each of them and no line is longer than
\* its slot.
LEMMA TextFits ==
    ASSUME LogInv
    PROVE  Len(Text(s_count)) < LogsBuf
  <1>1. PICK n \in Nat : n = s_count BY KeptTyped
  <1>2. PICK f \in [0..n -> Seq(Printed)] :
           /\ f[0] = << >>
           /\ \A i \in 1..n : Len(f[i]) = Len(f[i - 1]) + Len(Kept[i]) + 1
           /\ \A k \in 0..n : Text(k) = f[k]
    BY <1>1, TextIs
  <1>3. \A i \in 1..n : Kept[i] \in Seq(Chars) /\ Len(Kept[i]) < LOG_LINE_LEN
    BY <1>1, KeptTyped
  <1> DEFINE good == {k \in 0..n : Len(f[k]) <= k * LOG_LINE_LEN}
  <1>4. 0 \in good
    <2>1. Len(f[0]) = 0 BY <1>2
    <2> QED BY <2>1, LogAssumption
  <1>5. ASSUME NEW k \in 0..n - 1, k \in good PROVE k + 1 \in good
    <2>1. k + 1 \in 1..n /\ (k + 1) - 1 = k /\ k \in Nat OBVIOUS
    <2>2. Len(f[k + 1]) = Len(f[k]) + Len(Kept[k + 1]) + 1 BY <1>2, <2>1
    <2>3. f[k] \in Seq(Printed) /\ Kept[k + 1] \in Seq(Chars) BY <1>3, <2>1
    <2>4. PICK a \in Nat : a = Len(f[k]) BY <2>3
    <2>5. PICK b \in Nat : b = Len(Kept[k + 1]) BY <2>3
    <2>6. a <= k * LOG_LINE_LEN BY <1>5, <2>4
    <2>7. b < LOG_LINE_LEN BY <1>3, <2>1, <2>5
    <2>8. a + b + 1 <= (k + 1) * LOG_LINE_LEN BY ONLY <2>1, <2>6, <2>7, LogAssumption,
                                                      a \in Nat, b \in Nat
    <2>9. Len(f[k + 1]) <= (k + 1) * LOG_LINE_LEN BY ONLY <2>2, <2>4, <2>5, <2>8
    <2>10. k + 1 \in 0..n BY ONLY <2>1
    <2> QED BY ONLY <2>9, <2>10
  <1> HIDE DEF good
  <1>6. n \in good
    <2>1. n \in 0..n OBVIOUS
    <2> QED BY <1>4, <1>5, <2>1, Induction
  <1>7. Len(f[n]) <= n * LOG_LINE_LEN BY <1>6 DEF good
  <1>8. n <= LOG_LINES BY <1>1, KeptTyped
  <1>9. n * LOG_LINE_LEN <= LOG_LINES * LOG_LINE_LEN BY ONLY <1>8, LogAssumption, n \in Nat
  <1>10. PICK a \in Nat : a = Len(f[n])
    <2>1. f[n] \in Seq(Printed) OBVIOUS
    <2> QED BY <2>1
  <1>11. a < LogsBuf
    <2>1. PICK p, q : p = n * LOG_LINE_LEN /\ q = LOG_LINES * LOG_LINE_LEN OBVIOUS
    <2>2. a \in Nat /\ p \in Int /\ q \in Int /\ LogsBuf \in Nat BY <2>1, LogAssumption
    <2>3. a <= p /\ p <= q /\ q < LogsBuf BY <1>7, <1>9, <1>10, <2>1, LogAssumption
    <2> QED BY ONLY <2>2, <2>3
  <1>12. n \in 0..n OBVIOUS
  <1> QED BY <1>1, <1>2, <1>10, <1>11, <1>12

\* A buffer with room for the first n lines, and not for one more, is left with
\* these: get_lines copies each of them, and then nothing.
LEMMA CopyOf ==
    ASSUME LogInv, NEW n \in 0..s_count, NEW size \in Int,
           Len(Text(n)) + 1 <= size,
           n < s_count => size <= Len(Text(n)) + Len(Kept[n + 1]) + 1
    PROVE  GetLines(size) = Text(n)
  <1>1. PICK t \in [0..s_count -> Seq(Printed)] :
           /\ t[0] = << >>
           /\ \A i \in 1..s_count : t[i] = t[i - 1] \o (Kept[i] \o <<"\n">>)
           /\ \A i \in 1..s_count : Len(t[i]) = Len(t[i - 1]) + Len(Kept[i]) + 1
           /\ \A k \in 0..s_count : Text(k) = t[k]
           /\ \A m \in 0..s_count : \A k \in 0..m : Len(t[k]) <= Len(t[m])
    BY TextIs
  <1>2. PICK f :
           /\ GetLines(size) = f[s_count].buf
           /\ f[0] = [buf |-> << >>, remain |-> size - 1, ended |-> FALSE]
           /\ \A i \in 1..s_count : f[i] = Copy(f[i - 1], Kept[i])
    BY GetLinesIs
  <1>3. s_count \in Nat /\ \A i \in 1..s_count : Kept[i] \in Seq(Chars) BY KeptTyped
  <1>4. Text(n) = t[n] BY <1>1
  <1> DEFINE copied == {k \in 0..n :
                 f[k] = [buf |-> t[k], remain |-> size - 1 - Len(t[k]), ended |-> FALSE]}
  <1>5. 0 \in copied
    <2>1. Len(t[0]) = 0 BY <1>1
    <2>2. size - 1 - 0 = size - 1 OBVIOUS
    <2>3. 0 \in 0..n BY <1>3
    <2>4. f[0] = [buf |-> t[0], remain |-> size - 1 - Len(t[0]), ended |-> FALSE]
      BY ONLY <1>1, <1>2, <2>1, <2>2, size \in Int
    <2> QED BY <2>3, <2>4
  <1>6. ASSUME NEW k \in 0..n - 1, k \in copied PROVE k + 1 \in copied
    <2>1. /\ k + 1 \in 1..s_count /\ k + 1 \in 0..n /\ (k + 1) - 1 = k
          /\ k \in 0..s_count /\ k + 1 \in 0..s_count
      BY <1>3
    <2>2. t[k] \in Seq(Printed) /\ t[k + 1] \in Seq(Printed) /\ Kept[k + 1] \in Seq(Chars)
          /\ t[n] \in Seq(Printed)
      BY <1>3, <2>1
    <2>3. PICK a \in Nat : a = Len(t[k]) BY <2>2
    <2>4. PICK b \in Nat : b = Len(Kept[k + 1]) BY <2>2
    <2>5. PICK c \in Nat : c = Len(t[n]) BY <2>2
    <2>6. Len(t[k + 1]) = a + b + 1 BY <1>1, <2>1, <2>3, <2>4
    <2>7. a + b + 1 <= c
      <3>1. Len(t[k + 1]) <= Len(t[n]) BY <1>1, <2>1
      <3> QED BY <2>5, <2>6, <3>1
    <2>8. b + 1 <= size - 1 - a BY <1>4, <2>5, <2>7
    <2>9. PICK acc : acc = [buf |-> t[k], remain |-> size - 1 - a, ended |-> FALSE] OBVIOUS
    <2>10. acc \in Copies BY <2>2, <2>9 DEF Copies
    <2>11. acc.buf = t[k] /\ acc.remain = size - 1 - a /\ acc.ended = FALSE BY <2>9
    <2>12. Copy(acc, Kept[k + 1]) = [buf |-> acc.buf \o (Kept[k + 1] \o <<"\n">>),
                                     remain |-> acc.remain - (b + 1), ended |-> FALSE]
      BY <2>2, <2>4, <2>8, <2>10, <2>11, CopyIs, ZenonT(30)
    <2>13. f[k] = acc BY <1>6, <2>3, <2>9
    <2>14. f[k + 1] = Copy(acc, Kept[k + 1]) BY <1>2, <2>1, <2>13
    <2>15. t[k + 1] = acc.buf \o (Kept[k + 1] \o <<"\n">>) BY <1>1, <2>1, <2>11
    <2>16. acc.remain - (b + 1) = size - 1 - Len(t[k + 1]) BY <2>6, <2>11
    <2>17. f[k + 1] = [buf |-> t[k + 1], remain |-> size - 1 - Len(t[k + 1]), ended |-> FALSE]
      BY <2>12, <2>14, <2>15, <2>16
    <2> QED BY <2>1, <2>17
  <1> HIDE DEF copied
  <1>7. n \in Nat /\ n \in 0..n BY <1>3
  <1>8. n \in copied BY <1>5, <1>6, <1>7, Induction
  <1>9. f[n] = [buf |-> t[n], remain |-> size - 1 - Len(t[n]), ended |-> FALSE]
    BY <1>8 DEF copied
  <1>10. t[n] \in Seq(Printed) OBVIOUS
  <1>11. CASE n = s_count
    BY <1>2, <1>4, <1>9, <1>11
  <1>12. CASE n < s_count
    <2> DEFINE over == {j \in 0..s_count : j > n => /\ f[j] \in Copies
                                                    /\ f[j].buf = t[n] /\ f[j].ended}
    <2>1. 0 \in over BY <1>3, <1>7
    <2>2. ASSUME NEW j \in 0..s_count - 1, j \in over PROVE j + 1 \in over
      <3>1. j + 1 \in 1..s_count /\ j + 1 \in 0..s_count /\ (j + 1) - 1 = j BY <1>3
      <3>2. Kept[j + 1] \in Seq(Chars) BY <1>3, <3>1
      <3>3. f[j + 1] = Copy(f[j], Kept[j + 1]) BY <1>2, <3>1
      <3>4. CASE j > n
        <4>1. f[j] \in Copies /\ f[j].buf = t[n] /\ f[j].ended BY <2>2, <3>4
        <4>2. f[j + 1] \in Copies /\ f[j + 1] = [f[j] EXCEPT !.ended = TRUE]
          BY <3>2, <3>3, <4>1, CopyIs
        <4> QED BY <3>1, <4>1, <4>2 DEF Copies
      <3>5. CASE j = n
        <4>1. PICK a \in Nat : a = Len(t[n]) BY <1>10
        <4>2. PICK b \in Nat : b = Len(Kept[n + 1]) BY <3>2, <3>5
        <4>3. size - 1 - a < b + 1 BY <1>4, <1>12, <4>1, <4>2
        <4>4. PICK acc : acc = [buf |-> t[n], remain |-> size - 1 - a, ended |-> FALSE] OBVIOUS
        <4>5. acc \in Copies BY <1>10, <4>4 DEF Copies
        <4>6. acc.remain = size - 1 - a /\ acc.buf = t[n] BY <4>4
        <4>7. Len(Kept[n + 1]) + 1 > acc.remain BY <4>2, <4>3, <4>6
        <4>8. Kept[n + 1] \in Seq(Chars) BY <3>2, <3>5
        <4>9. Copy(acc, Kept[n + 1]) \in Copies
              /\ Copy(acc, Kept[n + 1]) = [acc EXCEPT !.ended = TRUE]
          BY <4>5, <4>7, <4>8, CopyIs
        <4>10. f[j + 1] = Copy(acc, Kept[n + 1]) BY <1>9, <3>3, <3>5, <4>1, <4>4
        <4> QED BY <3>1, <4>5, <4>6, <4>9, <4>10 DEF Copies
      <3>6. CASE j < n BY <3>1, <3>6
      <3> QED BY <1>7, <3>4, <3>5, <3>6
    <2> HIDE DEF over
    <2>3. s_count \in 0..s_count BY <1>3
    <2>4. s_count \in over BY <1>3, <2>1, <2>2, <2>3, Induction
    <2> QED BY <1>2, <1>4, <1>12, <2>4 DEF over
  <1> QED BY <1>3, <1>11, <1>12

\* Every size of a buffer lies between two texts.
LEMMA LogExact == LogInv => CopyExact
  <1> SUFFICES ASSUME LogInv, NEW n \in 0..s_count,
                      NEW size \in Len(Text(n)) + 1..
                                   (IF n < s_count THEN Len(Text(n)) + Len(Kept[n + 1]) + 1
                                    ELSE LogsBuf)
               PROVE  GetLines(size) = Text(n)
    BY DEF CopyExact
  <1>1. size \in Int /\ Len(Text(n)) + 1 <= size
        /\ size <= IF n < s_count THEN Len(Text(n)) + Len(Kept[n + 1]) + 1 ELSE LogsBuf
    OBVIOUS
  <1> QED BY ONLY <1>1, LogInv, n \in 0..s_count, CopyOf

\* The buffer of the page is one of the sizes the whole text fits in.
LEMMA LogShown == LogInv => AllShown
  <1> SUFFICES ASSUME LogInv PROVE GetLines(LogsBuf) = Text(s_count)
    BY DEF AllShown
  <1>1. Len(Text(s_count)) < LogsBuf BY TextFits
  <1>2. s_count \in 0..s_count BY KeptTyped
  <1>3. Text(s_count) \in Seq(Printed) BY <1>2, TextIs
  <1>4. PICK a \in Nat : a = Len(Text(s_count)) BY <1>3
  <1>5. LogsBuf \in Int /\ Len(Text(s_count)) + 1 <= LogsBuf BY <1>1, <1>4, LogAssumption
  <1>6. ~(s_count < s_count) BY <1>2
  <1> QED BY ONLY <1>2, <1>5, <1>6, LogInv, CopyOf

\* The line being printed is one of all lines.
LEMMA LogVisible == LogInv => ShownIsVisible
  BY StrippedIs DEF LogInv, RingInv, ShownIsVisible

\* Every variable has its type at every step, and every line is shorter than its
\* slot: log_out_chars never writes past s_cur_line, flush_line never past a slot.
THEOREM LogTyped == Spec => []TypeOK
  <1>1. LogInv => TypeOK BY DEF LogInv
  <1> QED BY <1>1, LogInit, LogNext, PTL DEF Spec

\* Whatever is printed, flush_line leaves exactly the characters that no escape
\* sequence holds, once each and in their order.
THEOREM Visibility == Spec => []ShownIsVisible
  BY LogInit, LogNext, LogVisible, PTL DEF Spec

\* Whatever the ring holds and whatever the size of the buffer, get_lines copies
\* the oldest lines, whole, as many as fit, and nothing after them.
THEOREM Exact == Spec => []CopyExact
  BY LogInit, LogNext, LogExact, PTL DEF Spec

\* The page is never short of a line, whenever its buffer has more characters
\* than all slots together (LogAssumption).
THEOREM Whole == Spec => []AllShown
  BY LogInit, LogNext, LogShown, PTL DEF Spec
=============================================================================
