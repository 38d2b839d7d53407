----------------------------- MODULE DhcpProofs -----------------------------
(***************************************************************************)
(* What holds of DhcpServer for every pool, every number of clients and    *)
(* every width of the clock: an address is never given away before the     *)
(* lease of its holder ends.                                               *)
(***************************************************************************)
EXTENDS DhcpServer, TLAPS

(* Arithmetic of a clock that wraps. *)

\* The remainder and the quotient of a division.
LEMMA ModDef ==
    ASSUME NEW N \in Nat \ {0}, NEW x \in Int
    PROVE  /\ x % N \in 0..N-1
           /\ x = N * (x \div N) + (x % N)
           /\ x \div N \in Int
  OBVIOUS

\* They are unique.
LEMMA ModUnique ==
    ASSUME NEW N \in Nat \ {0}, NEW q \in Int, NEW r \in 0..N-1, NEW x \in Int, x = N * q + r
    PROVE  x % N = r
  OBVIOUS

\* A tick takes one from a remainder that is not zero yet.
LEMMA ModStep ==
    ASSUME NEW N \in Nat \ {0}, NEW x \in Int, x % N >= 1
    PROVE  (x - 1) % N = (x % N) - 1
  <1> DEFINE q == x \div N
             r == (x % N) - 1
             y == x - 1
  <1>1. y = N * q + r
    BY ModDef
  <1>2. r \in 0..N-1 /\ q \in Int /\ y \in Int
    BY ModDef
  <1> HIDE DEF q, r, y
  <1>3. y % N = r
    BY <1>1, <1>2, ModUnique
  <1> QED
    BY <1>3 DEF r, y

\* A remainder may be taken before a subtraction.
LEMMA ModShift ==
    ASSUME NEW N \in Nat \ {0}, NEW a \in Int, NEW b \in Int
    PROVE  (a - (b % N)) % N = (a - b) % N
  <1> DEFINE q == b \div N
             p == (a - b) \div N
             r == (a - b) % N
  <1>1. b % N = b - N * q /\ q \in Int
    BY ModDef
  <1>2. a - b = N * p + r /\ p \in Int /\ r \in 0..N-1
    BY ModDef
  <1> HIDE DEF p, q, r
  <1>7. N * (p + q) = N * p + N * q
    BY <1>1, <1>2
  <1>3. a - (b % N) = N * (p + q) + r
    BY <1>1, <1>2, <1>7
  <1>4. a - (b % N) \in Int /\ p + q \in Int
    BY <1>1, <1>2
  <1> DEFINE y == a - (b % N)
             t == p + q
  <1>5. y = N * t + r /\ y \in Int /\ t \in Int
    BY <1>3, <1>4
  <1> HIDE DEF y, t
  <1>6. y % N = r
    BY <1>2, <1>5, ModUnique
  <1> QED
    BY <1>6 DEF r, y

\* Filling the low part of a number with ones rounds it up by less than a unit.
LEMMA RoundUp ==
    ASSUME NEW U \in Nat \ {0}, NEW x \in Nat
    PROVE  (x \div U) * U + U - 1 \in x..x + U - 1 /\ x \div U \in Nat
  <1>1. x = U * (x \div U) + (x % U) /\ x % U \in 0..U-1 /\ x \div U \in Int
    BY ModDef
  <1>2. x \div U \in Nat
    OBVIOUS
  <1> DEFINE q == x \div U
             r == x % U
  <1> HIDE DEF q, r
  <1>3. x = U * q + r /\ r \in 0..U-1 /\ q \in Nat
    BY <1>1, <1>2 DEF q, r
  <1>4. q * U = U * q /\ U * q \in Nat
    BY <1>3
  <1>5. q * U + U - 1 \in x..x + U - 1
    BY <1>3, <1>4
  <1> QED
    BY <1>5, <1>3 DEF q

\* The upper half of a number below a multiple of the unit.
LEMMA UpperHalf ==
    ASSUME NEW U \in Nat \ {0}, NEW N \in Nat \ {0}, N % U = 0, NEW x \in 0..N-1
    PROVE  x \div U \in 0..(N \div U) - 1
  <1> DEFINE q == x \div U
             r == x % U
             m == N \div U
  <1>5. x \in Nat /\ x \div U \in Nat
    OBVIOUS
  <1>1. x = U * q + r /\ r \in 0..U-1 /\ q \in Nat
    <2>1. x = U * (x \div U) + (x % U) /\ x % U \in 0..U-1
      BY <1>5, ModDef
    <2> QED
      BY <2>1, <1>5
  <1>2. N = U * m /\ m \in Int
    BY ModDef
  <1> HIDE DEF q, r, m
  <1>3. ASSUME q >= m PROVE FALSE
    <2>1. U * q >= U * m
      BY <1>1, <1>2, <1>3
    <2> QED
      BY <2>1, <1>1, <1>2
  <1>4. q \in 0..m-1
    BY <1>1, <1>2, <1>3
  <1> QED
    BY <1>4 DEF q, m

\* The expiry a lease is given is read back, at the same moment, as the lease
\* time and less than a unit more.
LEMMA FreshLease ==
    ASSUME NEW U \in Nat \ {0}, NEW N \in Nat \ {0}, NEW L \in Nat, L + U < N \div 2,
           NEW n \in 0..N-1
    PROVE  ((((n + L) % N) \div U) * U + U - 1 - n) % N \in L..L + U - 1
  <1> DEFINE z == n + L
             x == z % N
             q == z \div N
             e == (x \div U) * U + U - 1
             k == e - x
  <1>9. z \in Int /\ z = n + L
    OBVIOUS
  <1> HIDE DEF z
  <1>1. z = N * q + x /\ q \in Int /\ x \in 0..N-1
    BY <1>9, ModDef
  <1> HIDE DEF x, q
  <1>2. e \in x..x + U - 1
    <2>1. x \in Nat
      BY <1>1
    <2> QED
      BY <2>1, RoundUp
  <1>3. N \div 2 <= N
    OBVIOUS
  <1> HIDE DEF e
  <1>4. k \in 0..U-1 /\ L + k \in 0..N-1
    BY <1>1, <1>2, <1>3
  <1> DEFINE p == -q
             y == e - n
             r == L + k
  <1>5. N * p = -(N * q) /\ p \in Int
    BY <1>1
  <1>6. y = N * p + r /\ y \in Int
    BY <1>1, <1>2, <1>4, <1>5, <1>9
  <1>7. r \in 0..N-1 /\ r \in L..L + U - 1
    BY <1>4
  <1> HIDE DEF k, p, y, r
  <1>8. y % N = r
    BY <1>5, <1>6, <1>7, ModUnique
  <1> QED
    BY <1>7, <1>8 DEF y, e, x, z

-----------------------------------------------------------------------------
(* The inductive invariant. *)

\* A client that counts a lease has some of it left ...
Counting(c) == client[c].phase \in {"requesting", "bound"} => client[c].left >= 1

\* ... and for as long as a client has an address, the server has the client in
\* that slot, with at least as much of the lease left, and not so much that the
\* signed difference takes the lease for an expired one.
Backed(c) ==
    client[c].phase = "bound" =>
        /\ client[c].addr \in Slots
        /\ lease[client[c].addr].mac = c
        /\ (ExpiresAt(client[c].addr) - now) % Ticks \in client[c].left..LeaseTime + Unit - 1

LeaseInv == TypeOK /\ \A c \in Clients : Counting(c) /\ Backed(c)

LEMMA LeaseInit == Init => LeaseInv
  BY DhcpAssumption DEF Init, LeaseInv, TypeOK, Counting, Backed, Free, Idle, Foreign, Slots

\* A slot a client has an address from is not expired.
LEMMA NotExpired ==
    ASSUME LeaseInv, NEW c \in Clients, client[c].phase = "bound"
    PROVE  ~Expired(client[c].addr)
  <1>1. (ExpiresAt(client[c].addr) - now) % Ticks <= LeaseTime + Unit - 1
    BY DhcpAssumption DEF LeaseInv, Backed, TypeOK
  <1> DEFINE d == (ExpiresAt(client[c].addr) - now) % Ticks
  <1>2. d \in Int
    BY DhcpAssumption DEF LeaseInv, Backed, TypeOK
  <1>3. Ticks \div 2 \in Int
    BY DhcpAssumption
  <1> HIDE DEF d
  <1>4. ~(d >= Ticks \div 2)
    BY <1>1, <1>2, <1>3, DhcpAssumption DEF d
  <1> QED
    BY <1>4 DEF Expired, d

-----------------------------------------------------------------------------
(* Every step keeps the invariant. *)

\* Nobody's lease is lost by what another slot, or an expired one, goes through.
LEMMA DiscoverStep ==
    ASSUME LeaseInv, NEW d \in Clients, Discover(d)
    PROVE  LeaseInv'
  <1> USE DEF LeaseInv
  <1>1. now' = now /\ \A i \in Slots : lease'[i] = lease[i] \/ (Expired(i) /\
            lease'[i] = [lease[i] EXCEPT !.mac = Nobody])
    BY DEF Discover
  <1>2. \A c \in Clients : client'[c] = client[c] \/ client'[c].phase = "offered"
    BY DEF Discover, TypeOK
  <1>3. TypeOK'
    <2>1. lease' \in [Slots -> [mac : Clients \cup {Nobody}, expiry : 0..(Ticks \div Unit) - 1]]
      BY DEF Discover, TypeOK
    <2>2. client' \in [Clients -> [phase : {"idle", "offered", "requesting", "bound"},
                                   addr : 0..MaxIp, left : 0..LeaseTime]]
      <3>1. PICK a \in First(IF Own(d) # {} THEN Own(d) ELSE Usable(d)) :
               \/ client' = [client EXCEPT ![d].phase = "offered", ![d].addr = a]
               \/ UNCHANGED client
        BY DEF Discover
      <3>2. a \in 0..MaxIp
        BY DhcpAssumption DEF First, Own, Usable, Before, Slots
      <3> QED
        BY <3>1, <3>2 DEF TypeOK
    <2> QED
      BY <1>1, <2>1, <2>2 DEF TypeOK
  <1>4. ASSUME NEW c \in Clients PROVE Counting(c)' /\ Backed(c)'
    <2>1. CASE client'[c].phase # "bound"
      BY <1>2, <2>1 DEF Counting, Backed
    <2>2. CASE client'[c].phase = "bound"
      <3>1. client'[c] = client[c] /\ client[c].phase = "bound"
        BY <1>2, <2>2
      <3>2. client[c].addr \in Slots /\ ~Expired(client[c].addr)
        BY <3>1, NotExpired DEF Backed
      <3>3. lease'[client[c].addr] = lease[client[c].addr]
        BY <1>1, <3>2
      <3> QED
        BY <1>1, <3>1, <3>3 DEF Counting, Backed, ExpiresAt
    <2> QED
      BY <2>1, <2>2
  <1> QED
    BY <1>3, <1>4

\* The slot that is granted was the client's own, or free.
LEMMA RequestStep ==
    ASSUME LeaseInv, NEW d \in Clients, Request(d)
    PROVE  LeaseInv'
  <1> USE DEF LeaseInv
  <1> DEFINE a == client[d].addr
  <1>1. a \in Slots /\ lease[a].mac \in {d, Nobody} /\ client[d].phase = "requesting"
    BY DEF Request, Grants
  <1>2. lease' = [lease EXCEPT ![a] = [mac |-> d, expiry |-> Expiry(now)]] /\ now' = now
    BY DEF Request
  <1>3. \/ client' = [client EXCEPT ![d].phase = "bound"]
        \/ client' = client
    BY DEF Request
  <1>4. Expiry(now) \in 0..(Ticks \div Unit) - 1
    <2>1. Ticks \in Nat \ {0}
      BY DhcpAssumption DEF TypeOK
    <2>2. now + LeaseTime \in Int
      BY DhcpAssumption DEF TypeOK
    <2>3. (now + LeaseTime) % Ticks \in 0..Ticks - 1
      BY <2>1, <2>2, ModDef
    <2> QED
      BY <2>1, <2>3, UpperHalf, DhcpAssumption DEF Expiry
  <1>5. TypeOK'
    BY <1>1, <1>2, <1>3, <1>4 DEF TypeOK
  <1>6. (lease'[a].expiry * Unit + Unit - 1 - now') % Ticks \in LeaseTime..LeaseTime + Unit - 1
    <2>1. Ticks \in Nat \ {0} /\ now \in 0..Ticks - 1
      BY DhcpAssumption DEF TypeOK
    <2>2. lease'[a].expiry = ((now + LeaseTime) % Ticks) \div Unit
      BY <1>1, <1>2 DEF Expiry, TypeOK
    <2>3. ((((now + LeaseTime) % Ticks) \div Unit) * Unit + Unit - 1 - now) % Ticks
             \in LeaseTime..LeaseTime + Unit - 1
      BY <2>1, DhcpAssumption, FreshLease
    <2> QED
      BY <1>2, <2>2, <2>3
  <1>7. ASSUME NEW c \in Clients PROVE Counting(c)' /\ Backed(c)'
    <2>1. CASE c = d
      <3>1. client[d].left \in 1..LeaseTime
        BY <1>1 DEF Counting, TypeOK
      <3>2. client'[d].addr = a /\ client'[d].left = client[d].left
        BY <1>3 DEF TypeOK
      <3>3. lease'[a].mac = d
        BY <1>1, <1>2 DEF TypeOK
      <3> DEFINE left == (lease'[a].expiry * Unit + Unit - 1 - now') % Ticks
      <3>4. left \in client[d].left..LeaseTime + Unit - 1
        <4> HIDE DEF left
        <4>1. left \in LeaseTime..LeaseTime + Unit - 1
          BY <1>6 DEF left
        <4> QED
          BY <4>1, <3>1, DhcpAssumption
      <3>5. client'[d].left >= 1
        BY <3>1, <3>2
      <3> HIDE DEF a
      <3>6. Counting(d)'
        BY <3>5 DEF Counting
      <3>7. Backed(d)'
        <4> DEFINE b == client'[d].addr
                   held == (lease'[b].expiry * Unit + Unit - 1 - now') % Ticks
        <4>1. a \in Slots
          BY <1>1 DEF a
        <4>2. b \in Slots /\ lease'[b].mac = d
          BY <3>2, <3>3, <4>1
        <4>3. held \in client'[d].left..LeaseTime + Unit - 1
          <5>1. held = left
            BY <3>2
          <5> HIDE DEF held, left
          <5> QED
            BY <5>1, <3>2, <3>4
        <4>4. (client[d].addr \in Slots)' /\ (lease[client[d].addr].mac = d)'
          BY <4>2
        <4>5. ((ExpiresAt(client[d].addr) - now) % Ticks)' = held
          <5>1. lease'[b].expiry \in Int /\ now' \in Int /\ Unit \in Int
            BY <1>5, <4>2, DhcpAssumption DEF TypeOK
          <5> DEFINE p == lease'[b].expiry * Unit
          <5>2. p \in Int
            BY <5>1
          <5>3. ExpiresAt(client[d].addr)' = p + Unit - 1 /\ held = (p + Unit - 1 - now') % Ticks
            BY DEF ExpiresAt
          <5> HIDE DEF p, held
          <5>4. (p + Unit - 1) - now' = p + Unit - 1 - now'
            BY <5>1, <5>2
          <5> QED
            BY <5>3, <5>4
        <4>6. ((ExpiresAt(client[d].addr) - now) % Ticks
                 \in client[d].left..LeaseTime + Unit - 1)'
          BY <4>3, <4>5
        <4> QED
          BY <4>4, <4>6 DEF Backed
      <3> QED
        BY <2>1, <3>6, <3>7
    <2>2. CASE c # d
      <3>1. client'[c] = client[c]
        BY <1>3, <2>2 DEF TypeOK
      <3>2. client[c].phase = "bound" => client[c].addr \in Slots /\ client[c].addr # a
        BY <1>1, <2>2, DhcpAssumption DEF Backed
      <3>3. client[c].phase = "bound" => lease'[client[c].addr] = lease[client[c].addr]
        BY <1>2, <3>2 DEF TypeOK
      <3> QED
        BY <1>2, <3>1, <3>2, <3>3 DEF Counting, Backed, ExpiresAt
    <2> QED
      BY <2>1, <2>2
  <1> QED
    BY <1>5, <1>7

\* Client and server lose a tick each.
LEMMA TickStep ==
    ASSUME LeaseInv, Tick
    PROVE  LeaseInv'
  <1> DEFINE Client == [phase : {"idle", "offered", "requesting", "bound"},
                        addr : 0..MaxIp, left : 0..LeaseTime]
             Lesser(r) == IF r.left = 0 THEN r
                          ELSE IF r.left = 1 THEN [r EXCEPT !.phase = "idle", !.left = 0]
                          ELSE [r EXCEPT !.left = @ - 1]
  <1>1. Ticks \in Nat \ {0} /\ now \in Int /\ LeaseTime \in Nat /\ Unit \in Nat \ {0}
    BY DhcpAssumption DEF LeaseInv, TypeOK
  <1>2. now' = (now + 1) % Ticks /\ lease' = lease /\ client' = [c \in Clients |-> Lesser(client[c])]
    BY DEF Tick
  <1>3. now' \in 0..Ticks - 1
    <2>1. now + 1 \in Int
      BY <1>1
    <2> QED
      BY <1>1, <1>2, <2>1, ModDef
  \* What a tick does to one client.
  <1>4. ASSUME NEW r \in Client
        PROVE  /\ Lesser(r) \in Client
               /\ Lesser(r).phase = "bound" /\ r.left >= 1 =>
                     /\ r.phase = "bound"
                     /\ r.left >= 2
                     /\ Lesser(r).addr = r.addr
                     /\ Lesser(r).left = r.left - 1
               /\ Lesser(r).phase \in {"requesting", "bound"} /\ r.left >= 1 =>
                     /\ r.phase \in {"requesting", "bound"}
                     /\ Lesser(r).left >= 1
    <2>1. CASE r.left = 0
      BY <2>1
    <2>2. CASE r.left = 1
      <3>1. Lesser(r) = [r EXCEPT !.phase = "idle", !.left = 0]
        BY <2>2
      <3>2. Lesser(r) = [phase |-> "idle", addr |-> r.addr, left |-> 0]
        BY <3>1
      <3>3. 0 \in 0..LeaseTime
        BY <1>1
      <3> HIDE DEF Lesser
      <3>4. Lesser(r) \in Client /\ Lesser(r).phase = "idle"
        BY <3>2, <3>3
      <3> QED
        BY <3>4
    <2>3. CASE r.left >= 2
      BY <2>3, <1>1
    <2> QED
      BY <2>1, <2>2, <2>3, <1>1
  <1>5. \A c \in Clients : client[c] \in Client /\ client'[c] = Lesser(client[c])
    BY <1>2 DEF LeaseInv, TypeOK
  <1> HIDE DEF Lesser, Client
  <1>6. TypeOK'
    <2>1. client' \in [Clients -> Client]
      BY <1>2, <1>4, <1>5
    <2> QED
      BY <1>2, <1>3, <2>1 DEF LeaseInv, TypeOK, Client
  <1>7. ASSUME NEW c \in Clients PROVE Counting(c)' /\ Backed(c)'
    <2> DEFINE r == client[c]
               s == client'[c]
    <2>1. r \in Client /\ s = Lesser(r)
      BY <1>5
    <2>2. Counting(c) /\ Backed(c)
      BY DEF LeaseInv
    <2>3. r.left \in 0..LeaseTime
      BY <2>1 DEF Client
    <2>4. s.phase \in {"requesting", "bound"} => r.phase \in {"requesting", "bound"}
      <3>1. CASE r.left = 0
        BY <2>1, <3>1 DEF Lesser
      <3>2. CASE r.left >= 1
        BY <2>1, <3>2, <1>4
      <3> QED
        BY <2>3, <3>1, <3>2, <1>1
    <2>5. s.phase \in {"requesting", "bound"} => s.left >= 1
      BY <2>1, <2>2, <2>4, <1>4 DEF Counting
    <2>6. ASSUME s.phase = "bound"
          PROVE  /\ s.addr \in Slots
                 /\ lease'[s.addr].mac = c
                 /\ (ExpiresAt(s.addr) - now') % Ticks \in s.left..LeaseTime + Unit - 1
      <3>1. r.phase = "bound" /\ r.left >= 2 /\ s.addr = r.addr /\ s.left = r.left - 1
        BY <2>1, <2>2, <2>4, <2>6, <1>4 DEF Counting
      <3> DEFINE a == r.addr
                 e == ExpiresAt(a) - now
      <3>2. a \in Slots /\ lease[a].mac = c /\ e % Ticks \in r.left..LeaseTime + Unit - 1
        BY <3>1, <2>2 DEF Backed
      <3>3. lease[a].expiry \in Int
        BY <3>2 DEF LeaseInv, TypeOK
      <3>4. ExpiresAt(a) \in Int
        BY <3>3, <1>1 DEF ExpiresAt
      <3> HIDE DEF a
      <3>5. e \in Int /\ now + 1 \in Int /\ ExpiresAt(a) - (now + 1) = e - 1
        BY <3>4, <1>1
      <3>6. (ExpiresAt(a) - now') % Ticks = (ExpiresAt(a) - (now + 1)) % Ticks
        BY <1>1, <1>2, <3>4, <3>5, ModShift
      <3>7. e % Ticks >= 1 /\ e % Ticks \in Int
        BY <3>1, <3>2, <2>3, <1>1
      <3> DEFINE left == e % Ticks
      <3>8. (ExpiresAt(a) - now') % Ticks = left - 1
        <4> HIDE DEF e
        <4> QED
          BY <1>1, <3>5, <3>6, <3>7, ModStep
      <3>9. left \in r.left..LeaseTime + Unit - 1
        BY <3>2
      <3> HIDE DEF left
      <3>10. (ExpiresAt(a) - now') % Ticks \in s.left..LeaseTime + Unit - 1
        BY <3>1, <3>8, <3>9, <2>3, <1>1
      <3> QED
        BY <3>1, <3>2, <3>10, <1>2 DEF a
    <2> QED
      BY <2>5, <2>6, <1>2 DEF Counting, Backed, ExpiresAt
  <1> QED
    BY <1>6, <1>7 DEF LeaseInv

LEMMA LeaseStep == LeaseInv /\ [Next]_vars => LeaseInv'
  <1> SUFFICES ASSUME LeaseInv, [Next]_vars PROVE LeaseInv'
    OBVIOUS
  <1>1. ASSUME NEW c \in Clients, Discover(c) PROVE LeaseInv'
    BY <1>1, DiscoverStep
  <1>2. ASSUME NEW c \in Clients, Request(c) PROVE LeaseInv'
    BY <1>2, RequestStep
  <1>3. ASSUME NEW c \in Clients, Ask(c) \/ GiveUp(c) PROVE LeaseInv'
    <2>1. now' = now /\ lease' = lease
      BY <1>3 DEF Ask, GiveUp
    <2>2. TypeOK'
      BY <1>3, <2>1, DhcpAssumption DEF Ask, GiveUp, LeaseInv, TypeOK
    <2>3. \A d \in Clients : d # c => client'[d] = client[d]
      BY <1>3 DEF Ask, GiveUp, LeaseInv, TypeOK
    <2>4. client'[c].phase = "idle" \/ (client'[c].phase = "requesting" /\ client'[c].left = LeaseTime)
      BY <1>3 DEF Ask, GiveUp, LeaseInv, TypeOK
    <2>5. \A d \in Clients : Counting(d)' /\ Backed(d)'
      BY <2>1, <2>3, <2>4, DhcpAssumption DEF LeaseInv, Counting, Backed, ExpiresAt
    <2> QED
      BY <2>2, <2>5 DEF LeaseInv
  <1>4. CASE Restart
    <2>1. TypeOK'
      <3>1. Free \in [mac : Clients \cup {Nobody}, expiry : 0..(Ticks \div Unit) - 1]
        BY DhcpAssumption DEF Free
      <3>2. client' \in [Clients -> [phase : {"idle", "offered", "requesting", "bound"},
                                     addr : 0..MaxIp, left : 0..LeaseTime]]
        <4> DEFINE Client == [phase : {"idle", "offered", "requesting", "bound"},
                              addr : 0..MaxIp, left : 0..LeaseTime]
        <4>1. ASSUME NEW r \in Client
              PROVE  [r EXCEPT !.phase = "idle", !.left = 0] \in Client
          <5>1. 0 \in 0..LeaseTime
            BY DhcpAssumption
          <5>2. ASSUME NEW s, s = [r EXCEPT !.phase = "idle", !.left = 0]
                PROVE  s \in Client
            <6>1. s = [phase |-> "idle", addr |-> r.addr, left |-> 0]
              BY <5>2
            <6> QED
              BY <5>1, <6>1
          <5> QED
            BY <5>2
        <4>2. \A c \in Clients : client[c] \in Client
          BY DEF LeaseInv, TypeOK
        <4> HIDE DEF Client
        <4>3. client' \in [Clients -> Client]
          BY <1>4, <4>1, <4>2 DEF Restart
        <4> QED
          BY <4>3 DEF Client
      <3> QED
        BY <1>4, <3>1, <3>2 DEF Restart, LeaseInv, TypeOK
    <2>2. \A d \in Clients : client'[d].phase = "idle"
      BY <1>4 DEF Restart, LeaseInv, TypeOK
    <2> QED
      BY <2>1, <2>2 DEF LeaseInv, Counting, Backed
  <1>5. CASE Tick
    BY <1>5, TickStep
  <1>6. CASE UNCHANGED vars
    BY <1>6 DEF vars, LeaseInv, TypeOK, Counting, Backed, ExpiresAt
  <1> QED
    BY <1>1, <1>2, <1>3, <1>4, <1>5, <1>6 DEF Next

\* A client that has an address by its own clock is the one the server has in
\* that slot, however the counter wraps and whichever messages are lost.
THEOREM HoldersKnown == Spec => []HolderKnown
  <1>1. LeaseInv => HolderKnown
    BY DEF LeaseInv, Backed, HolderKnown
  <1> QED
    BY <1>1, LeaseInit, LeaseStep, PTL DEF Spec

\* Every variable keeps its type: an expiry fits the half it is kept in.
THEOREM TypeCorrect == Spec => []TypeOK
  <1>1. LeaseInv => TypeOK
    BY DEF LeaseInv
  <1> QED
    BY <1>1, LeaseInit, LeaseStep, PTL DEF Spec
=============================================================================
