----------------------------- MODULE DhcpServer -----------------------------
(***************************************************************************)
(* The DHCP server of the access point (portal/dhcp_server.c) and the      *)
(* clients it serves over a network that loses, repeats and delays.        *)
(*                                                                         *)
(* The millisecond counter has a width and wraps; a lease keeps the upper  *)
(* half of its expiry only.  One unit of the model's clock stands for many *)
(* milliseconds; Ticks units make it wrap, Unit of them are one step of    *)
(* what a lease keeps.                                                     *)
(***************************************************************************)
EXTENDS Integers

CONSTANTS
    Clients,
    Nobody,         \* the MAC address of a free slot, all zeros
    MaxIp,          \* DHCPS_MAX_IP
    Ticks,          \* 2^32 ms
    Unit,           \* 2^16 ms
    LeaseTime       \* DEFAULT_LEASE_TIME_S

Slots == 0..MaxIp - 1
Foreign == MaxIp    \* an address outside the pool

ASSUME DhcpAssumption ==
    /\ Nobody \notin Clients
    /\ MaxIp \in Nat \ {0}
    /\ Ticks \in Nat /\ Unit \in Nat \ {0} /\ LeaseTime \in Nat \ {0}
    /\ Ticks % Unit = 0
    /\ LeaseTime + Unit < Ticks \div 2

VARIABLES
    now,            \* cyw43_hal_ticks_ms()
    lease,          \* d->lease: per slot, mac and the upper half of its expiry
    client          \* per client, what it is doing, about which address, and
                    \* how long its lease lasts, counted from its request

vars == <<now, lease, client>>

Free == [mac |-> Nobody, expiry |-> 0]
Idle == [phase |-> "idle", addr |-> Foreign, left |-> 0]

Init ==
    /\ now \in 0..Ticks - 1
    /\ lease = [i \in Slots |-> Free]
    /\ client = [c \in Clients |-> Idle]

-----------------------------------------------------------------------------
(* The server. *)

\* expiry << 16 | 0xffff, compared as a signed difference.  (Mutant: without
\* the low half.)
ExpiresAtUnit(i) == lease[i].expiry * Unit
ExpiresAt(i) == lease[i].expiry * Unit + Unit - 1
Expired(i) == (ExpiresAt(i) - now) % Ticks >= Ticks \div 2

\* The slots a DISCOVER looks at before its own MAC, and the first of them that
\* it can have.
Before(c) == {i \in Slots : \A o \in 0..i : lease[o].mac # c}
Usable(c) == {i \in Before(c) : lease[i].mac = Nobody \/ Expired(i)}
First(S) == {i \in S : \A j \in S : i <= j}
Own(c) == {i \in Slots : lease[i].mac = c}

\* DHCPDISCOVER: the client's own slot, or else the first it can have, which is
\* freed if it had expired.  Nothing is reserved.
Discover(c) ==
    /\ client[c].phase \in {"idle", "offered"}
    /\ \E a \in First(IF Own(c) # {} THEN Own(c) ELSE Usable(c)) :
          \/ client' = [client EXCEPT ![c].phase = "offered", ![c].addr = a]
          \/ UNCHANGED client                            \* the OFFER is lost
    /\ lease' = [i \in Slots |-> IF i \in First(Usable(c)) /\ Expired(i)
                                 THEN [lease[i] EXCEPT !.mac = Nobody] ELSE lease[i]]
    /\ UNCHANGED now

\* DHCPREQUEST: the slot of the address, if it is the client's or free.
Grants(c, a) == a \in Slots /\ lease[a].mac \in {c, Nobody}

\* (Mutant: the counter does not wrap.)
ExpiryUnwrapped(t) == (t + LeaseTime) \div Unit
Expiry(t) == ((t + LeaseTime) % Ticks) \div Unit

Request(c) ==
    LET a == client[c].addr IN
    /\ client[c].phase = "requesting"
    /\ Grants(c, a)
    /\ lease' = [lease EXCEPT ![a] = [mac |-> c, expiry |-> Expiry(now)]]
    /\ \/ client' = [client EXCEPT ![c].phase = "bound"]
       \/ UNCHANGED client                            \* the ACK is lost
    /\ UNCHANGED now

\* dhcp_server_deinit and _init: the access point goes, and comes back with an
\* empty table.  Its clients may ask for their old address again.
Restart ==
    /\ lease' = [i \in Slots |-> Free]
    /\ client' = [c \in Clients |-> [client[c] EXCEPT !.phase = "idle", !.left = 0]]
    /\ UNCHANGED now

-----------------------------------------------------------------------------
(* The clients. *)

\* A client asks for the address it was offered or, back on the network, for the
\* one it had.  Its lease counts from here.  (The request that renews a lease
\* names no address, and the server ignores it.)
Ask(c) ==
    /\ client[c].phase \in {"idle", "offered", "bound"}
    /\ client' = [client EXCEPT ![c].phase = "requesting", ![c].left = LeaseTime]
    /\ UNCHANGED <<now, lease>>

\* It gets no answer (there is no NAK), or leaves.
GiveUp(c) ==
    /\ client[c].phase # "idle"
    /\ client' = [client EXCEPT ![c].phase = "idle", ![c].left = 0]
    /\ UNCHANGED <<now, lease>>

\* Time passes; a client whose lease has ended has no address.
Tick ==
    /\ now' = (now + 1) % Ticks
    /\ client' = [c \in Clients |->
                    IF client[c].left = 0 THEN client[c]
                    ELSE IF client[c].left = 1
                         THEN [client[c] EXCEPT !.phase = "idle", !.left = 0]
                         ELSE [client[c] EXCEPT !.left = @ - 1]]
    /\ UNCHANGED lease

Next ==
    \/ \E c \in Clients : Discover(c) \/ Request(c) \/ Ask(c) \/ GiveUp(c)
    \/ Restart
    \/ Tick

Spec == Init /\ [][Next]_vars

-----------------------------------------------------------------------------
(* Properties. *)

\* Every variable has its type.
TypeOK ==
    /\ now \in 0..Ticks - 1
    /\ lease \in [Slots -> [mac : Clients \cup {Nobody}, expiry : 0..(Ticks \div Unit) - 1]]
    /\ client \in [Clients -> [phase : {"idle", "offered", "requesting", "bound"},
                               addr : 0..MaxIp, left : 0..LeaseTime]]

\* A client that has an address by its own clock is the one the server has in
\* that slot, wherever the counter wraps, whichever answers were lost and
\* whatever was offered to others; so no two clients have one address
\* (dhcp_server_process).
HolderKnown ==
    \A c \in Clients : client[c].phase = "bound" =>
        client[c].addr \in Slots /\ lease[client[c].addr].mac = c
=============================================================================
