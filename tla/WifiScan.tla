------------------------------ MODULE WifiScan ------------------------------
(***************************************************************************)
(* The list of networks on the hotspot page: the scan of the Wi-Fi manager *)
(* (wifi_manager.cpp) and main's state PORTAL_RUNNING, which publishes it  *)
(* and scans again every 15 seconds.  The scan runs in the chip (external) *)
(* and reports each network it hears, any number of times, while main      *)
(* polls.                                                                  *)
(***************************************************************************)
EXTENDS Clock, Sequences, FiniteSets, TLC

CONSTANTS
    Ssids,           \* names of networks
    NoName,          \* an empty name
    Signals,         \* signal strengths, larger is stronger
    WIFI_SCAN_MAX,   \* 20 in the code: networks in the table
    RescanAfter,     \* 15000 in the code
    EntrySize,       \* per name, what its entry takes of the page's buffer
    HtmlRoom         \* 4095 in the code

ASSUME ScanAssumption ==
    /\ NoName \notin Ssids
    /\ Signals \subseteq Nat \ {0}
    /\ WIFI_SCAN_MAX \in Nat
    /\ EntrySize \in [Ssids -> Nat]
    /\ HtmlRoom \in Nat
    /\ RescanAfter \in 0..ClockSize - 1 - MaxTurn

VARIABLES
    networks, scanning,   \* s_scan_results
    active,               \* the chip is scanning
    s_scan_timer,
    inTime,               \* ghost: the strongest signal of each network in this scan
                          \* that came before the table was full
    failed,               \* ghost: the last scan could not be started
    sinceScan             \* ghost: the time since its start

scanVars == <<networks, scanning, active, s_scan_timer, inTime, failed, sinceScan>>

Silence == [s \in Ssids |-> 0]
ScanBound == RescanAfter + MaxTurn + 1

\* start_scan
StartScan(ok) ==
    /\ networks' = << >>
    /\ scanning' = ok
    /\ active' = (ok \/ active)
    /\ inTime' = Silence
    /\ failed' = ~ok

\* PORTAL_RUNNING is entered: the first scan is started, by START_PORTAL, while
\* one of an earlier portal session may still run.
ScanInit ==
    /\ networks = << >>
    /\ scanning \in BOOLEAN
    /\ active \in BOOLEAN /\ (scanning => active)
    /\ now \in 0..ClockSize - 1
    /\ s_scan_timer = now
    /\ inTime = Silence
    /\ failed = ~scanning
    /\ sinceScan = 0

-----------------------------------------------------------------------------
(* The table. *)

\* (Mutant: a network is not recognised.)
KnownNever(ssid) == FALSE
Known(ssid) == \E i \in DOMAIN networks : networks[i].ssid = ssid

\* scan_callback: nothing more is taken once the table is full, not even a
\* stronger signal of a network in it.
Recorded(ssid, rssi) ==
    IF Len(networks) >= WIFI_SCAN_MAX \/ ssid = NoName THEN networks
    ELSE IF Known(ssid)
    THEN [i \in DOMAIN networks |->
             IF networks[i].ssid = ssid /\ rssi > networks[i].rssi
             THEN [networks[i] EXCEPT !.rssi = rssi]
             ELSE networks[i]]
    ELSE Append(networks, [ssid |-> ssid, rssi |-> rssi])

\* The strongest signals, with one more report.
Louder(strongest, ssid, rssi) ==
    [s \in Ssids |-> IF s = ssid /\ rssi > strongest[s] THEN rssi ELSE strongest[s]]

ScanCallback ==
    /\ active
    /\ \E ssid \in Ssids \cup {NoName}, rssi \in Signals :
          /\ networks' = Recorded(ssid, rssi)
          /\ inTime' = IF Len(networks) < WIFI_SCAN_MAX THEN Louder(inTime, ssid, rssi)
                       ELSE inTime
    /\ UNCHANGED <<now, scanning, active, s_scan_timer, failed, sinceScan>>

\* The chip has heard everything.
ScanEnds ==
    /\ active
    /\ active' = FALSE
    /\ UNCHANGED <<now, networks, scanning, s_scan_timer, inTime, failed, sinceScan>>

-----------------------------------------------------------------------------
(* main. *)

\* get_scan_results sorts the table once, when it finds the scan ended: each
\* entry changes places with every stronger one after it.
Exchanged(list, i, j) ==
    IF list[j].rssi > list[i].rssi
    THEN [list EXCEPT ![i] = list[j], ![j] = list[i]]
    ELSE list
Pass(list, i) ==
    LET upto[j \in i..Len(list)] ==
            IF j = i THEN list ELSE Exchanged(upto[j - 1], i, j)
    IN  upto[Len(list)]
Sorted(list) ==
    LET after[i \in 0..Len(list)] ==
            IF i = 0 THEN list ELSE Pass(after[i - 1], i)
    IN  after[Len(list)]
Results == IF scanning /\ ~active THEN Sorted(networks) ELSE networks

\* (Mutant: the flag of a scan that ended stays.)
StillScanningLast == scanning
StillScanning == scanning /\ active

\* update_networks_html: an entry that no longer fits is left out, and a shorter
\* one after it may still fit.
Entered(page, network) ==
    LET size == EntrySize[network.ssid]
    IN  IF size < page.room
        THEN [room |-> page.room - size, shown |-> Append(page.shown, network)]
        ELSE page
Listed(list) ==
    LET upto[i \in 0..Len(list)] ==
            IF i = 0 THEN [room |-> HtmlRoom, shown |-> << >>]
            ELSE Entered(upto[i - 1], list[i])
    IN  upto[Len(list)].shown

\* (Mutant: the counter is compared with a sum, which wraps.)
RescanDueAbsolute == now' > (s_scan_timer + RescanAfter) % ClockSize
RescanDue == Minus(now', s_scan_timer) > RescanAfter

\* A turn of PORTAL_RUNNING.  It puts Listed(Results) on the page unless a scan
\* is running; nothing reads that list back.
PortalTurn ==
    \E n \in 1..MaxTurn :
      /\ Passes(n)
      /\ IF StillScanning
         THEN /\ sinceScan' = UpTo(ScanBound, sinceScan + n)
              /\ UNCHANGED <<networks, scanning, active, s_scan_timer, inTime, failed>>
         ELSE IF RescanDue
         THEN /\ \E ok \in BOOLEAN : StartScan(ok)
              /\ s_scan_timer' = now'
              /\ sinceScan' = 0
         ELSE /\ networks' = Results
              /\ scanning' = FALSE
              /\ sinceScan' = UpTo(ScanBound, sinceScan + n)
              /\ UNCHANGED <<active, s_scan_timer, inTime, failed>>

ScanNext == ScanCallback \/ ScanEnds \/ PortalTurn

-----------------------------------------------------------------------------
(* Properties. *)

Entries == [ssid : Ssids, rssi : Signals]

ScanTypeOK ==
    /\ now \in 0..ClockSize - 1
    /\ networks \in Seq(Entries) /\ Len(networks) <= WIFI_SCAN_MAX
    /\ {scanning, active, failed} \subseteq BOOLEAN
    /\ s_scan_timer \in 0..ClockSize - 1
    /\ inTime \in [Ssids -> Signals \cup {0}]
    /\ sinceScan \in 0..ScanBound

\* What the entries of a list take of the page's buffer.
Taken(list) ==
    LET size[i \in 0..Len(list)] ==
            IF i = 0 THEN 0 ELSE size[i - 1] + EntrySize[list[i].ssid]
    IN  size[Len(list)]

\* A list of what was heard before the table was full: one entry per network,
\* strongest first, each with its strongest signal, and every network, unless
\* what is left of the page is too small for it.
Faithful(list) ==
    /\ \A i, j \in DOMAIN list : i < j => /\ list[i].ssid # list[j].ssid
                                         /\ list[i].rssi >= list[j].rssi
    /\ \A i \in DOMAIN list : list[i].rssi = inTime[list[i].ssid]
    /\ \A s \in Ssids :
          inTime[s] # 0 => \/ \E i \in DOMAIN list : list[i].ssid = s
                           \/ Taken(list) + EntrySize[s] >= HtmlRoom

\* Whenever a turn lists networks, it is a faithful list of one completed scan,
\* also when an older scan's reports came in between; only after a scan that could
\* not be started may reports of an older one be listed as they come
\* (scan_callback, get_scan_results, update_networks_html).  Of what is
\* heard once the table is full nothing is claimed: the code drops it, stronger
\* signals of listed networks too.
ListFaithful == ~StillScanning /\ ~failed => Faithful(Listed(Results))

\* While the portal runs, a scan is started no sooner than 15 s after the one
\* before, to the tick, also across the wrap of the clock, ...
RescansPaced ==
    [][s_scan_timer' # s_scan_timer => sinceScan + Minus(now', now) > RescanAfter]_s_scan_timer

\* ... and again and again, also after one that failed to start.
RescansGoOn == []<>(sinceScan = 0)
=============================================================================
