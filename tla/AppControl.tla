----------------------------- MODULE AppControl -----------------------------
(***************************************************************************)
(* The control of the firmware: main's state machine, the Wi-Fi manager,   *)
(* the credentials in flash and the portal, with power cuts anywhere.      *)
(*                                                                         *)
(* One thread runs everything.  httpd's callbacks run only while it polls: *)
(* in PORTAL_RUNNING, in the loop of CONNECTED, and inside the SDK's       *)
(* blocking connect.  While the access point or the station link is gone   *)
(* no data comes in, but a connection can still time out.                  *)
(***************************************************************************)
EXTENDS CaptivePortal

CONSTANTS
    MaxCrashes,    \* bound: power cuts in a run
    MaxFailures,   \* bound: failures of the Wi-Fi chip and of socket creation
    Requests       \* bound: which POSTs clients send, as <<interface, URI>>

NoFlash == << >>         \* erased, half programmed, or bad CRC
NoCreds == <<Empty, Empty>>

VARIABLES
    state,             \* s_state, the long states split at their blocking calls
    s_creds,
    flash,             \* the credential sector
    s_ap_active,
    s_sta_connected,
    link,              \* the driver's view of the station link
    crashes, failures, \* for the bounds
    known              \* ghost: credentials that connected and were not erased

wifiVars == <<s_ap_active, s_sta_connected, link>>
bounds == <<crashes, failures>>
mainVars == <<state, s_creds, flash, wifiVars, bounds, known>>
vars == <<portalVars, mainVars>>

Init ==
    /\ PortalInit
    /\ state = "BOOT"
    /\ s_creds = NoCreds
    /\ flash = NoFlash
    /\ s_ap_active = FALSE
    /\ s_sta_connected = FALSE
    /\ link = FALSE
    /\ crashes = 0
    /\ failures = 0
    /\ known = {}

-----------------------------------------------------------------------------
(* httpd, inside cyw43_arch_poll. *)

\* Where data of clients comes in.
Interface == CASE state \in {"PORTAL_RUNNING", "PORTAL_CONNECTING"} -> "ap"
               [] state \in {"STATUS_LOOP", "REBOOTING"} /\ link    -> "sta"
               [] OTHER                                             -> "none"

\* httpd_post_begin takes all four URIs, whatever page is up.
Accepted == {uri \in WithBody \cup {"/reboot", "/wifi-forget"} :
                <<Interface, uri>> \in Requests}

\* Where cyw43_arch_poll runs, and a connection can at least be given up.
Polling == state \in {"PORTAL_RUNNING", "PORTAL_CONNECTING", "PORTAL_JOIN",
                      "STATUS_LOOP", "REBOOTING", "TRY_CONNECT"}

Httpd ==
    /\ Polling
    /\ \/ \E uri \in Accepted \ WithBody : PostButton(uri)
       \/ \E c \in Conns, uri \in Accepted \cap WithBody, u \in Users :
             PostBegin(c, uri, u)
       \/ \E c \in Conns : Interface # "none" /\ PostData(c)
       \/ \E c \in Conns : PostFinished(c)
    /\ UNCHANGED mainVars

-----------------------------------------------------------------------------
(* main. *)

\* The 'r' key, within three seconds of the boot.
BootKey ==
    /\ state = "BOOT"
    /\ \/ flash' = NoFlash /\ known' = {}
       \/ UNCHANGED <<flash, known>>
    /\ state' = "INIT"
    /\ UNCHANGED <<portalVars, s_creds, wifiVars, bounds>>

\* INIT: retried until the chip starts.
WifiInit ==
    /\ state = "INIT"
    /\ \/ state' = "CHECK_CREDS" /\ UNCHANGED failures
       \/ failures < MaxFailures /\ failures' = failures + 1 /\ UNCHANGED state
    /\ UNCHANGED <<portalVars, s_creds, flash, wifiVars, crashes, known>>

\* CHECK_CREDS: wifi_credentials::load wants the magic, the CRC and an SSID.
CheckCreds ==
    /\ state = "CHECK_CREDS"
    /\ IF flash # NoFlash /\ flash[1] # Empty
       THEN s_creds' = flash /\ state' = "TRY_CONNECT"
       ELSE UNCHANGED s_creds /\ state' = "START_PORTAL"
    /\ UNCHANGED <<portalVars, flash, wifiVars, bounds, known>>

\* connect_sta: the network lets in whoever has its password.
Join(ok) ==
    /\ ok => s_creds[1] \in Users /\ s_creds[2] = s_creds[1]
    /\ s_sta_connected' = ok
    /\ link' = ok

\* TRY_CONNECT.  (Mutant: the stored credentials are loaded and tried again.)
TryConnectForEver ==
    /\ state = "TRY_CONNECT"
    /\ \E ok \in BOOLEAN :
          /\ Join(ok)
          /\ state' = IF ok THEN "CONNECTED" ELSE "CHECK_CREDS"
    /\ UNCHANGED <<portalVars, s_creds, flash, s_ap_active, bounds, known>>
TryConnect ==
    /\ state = "TRY_CONNECT"
    /\ \E ok \in BOOLEAN :
          /\ Join(ok)
          /\ state' = IF ok THEN "CONNECTED" ELSE "START_PORTAL"
    /\ UNCHANGED <<portalVars, s_creds, flash, s_ap_active, bounds, known>>

\* START_PORTAL: the access point, the portal, the first scan.
StartPortal ==
    /\ state = "START_PORTAL"
    /\ s_ap_active' = TRUE
    /\ \E ok \in BOOLEAN, gotDhcp \in {0, 1} :
          /\ IF ok /\ gotDhcp = 1 THEN UNCHANGED failures
             ELSE failures < MaxFailures /\ failures' = failures + 1
          /\ Start(gotDhcp, ok)
          /\ state' = IF ok THEN "PORTAL_RUNNING" ELSE "START_PORTAL"
    /\ UNCHANGED <<s_creds, flash, s_sta_connected, link, crashes, known>>

\* PORTAL_RUNNING: credentials were submitted.
PortalCheck ==
    /\ state = "PORTAL_RUNNING"
    /\ s_creds_ready
    /\ s_creds' = s_submitted
    /\ TakeCredentials
    /\ state' = "PORTAL_CONNECTING"
    /\ UNCHANGED <<flash, wifiVars, bounds, known>>

\* PORTAL_CONNECTING: portal and access point stop before the join.
PortalLeave ==
    /\ state = "PORTAL_CONNECTING"
    /\ Stop
    /\ s_ap_active' = FALSE
    /\ state' = "PORTAL_JOIN"
    /\ UNCHANGED <<s_creds, flash, s_sta_connected, link, bounds, known>>

\* A join that succeeds is saved: the sector is erased ...
PortalJoins ==
    /\ state = "PORTAL_JOIN"
    /\ Join(TRUE)
    /\ flash' = NoFlash
    /\ known' = {s_creds}
    /\ state' = "PORTAL_SAVE"
    /\ UNCHANGED <<portalVars, s_creds, s_ap_active, bounds>>

\* ... and programmed; the result is set.
PortalSaves ==
    /\ state = "PORTAL_SAVE"
    /\ flash' = s_creds
    /\ SetConnectResult
    /\ state' = "CONNECTED"
    /\ UNCHANGED <<s_creds, wifiVars, bounds, known>>

\* A join that fails goes back to the portal.  (Mutant: it is tried again.)
PortalTriesAgain ==
    /\ state = "PORTAL_JOIN"
    /\ Join(FALSE)
    /\ SetConnectResult
    /\ state' = "TRY_CONNECT"
    /\ UNCHANGED <<s_creds, flash, s_ap_active, bounds, known>>
PortalJoinFails ==
    /\ state = "PORTAL_JOIN"
    /\ Join(FALSE)
    /\ SetConnectResult
    /\ state' = "START_PORTAL"
    /\ UNCHANGED <<s_creds, flash, s_ap_active, bounds, known>>

\* CONNECTED: the status server and mDNS.
EnterConnected ==
    /\ state = "CONNECTED"
    /\ StartStatus
    /\ state' = "STATUS_LOOP"
    /\ UNCHANGED <<s_creds, flash, wifiVars, bounds, known>>

\* The access point of the house goes away.
LinkLost ==
    /\ state = "STATUS_LOOP"
    /\ link
    /\ link' = FALSE
    /\ UNCHANGED <<portalVars, state, s_creds, flash, s_ap_active, s_sta_connected,
                   bounds, known>>

\* One turn of the loop in CONNECTED: the link, then a reboot asked for.
LoopLeaves ==
    /\ state = "STATUS_LOOP"
    /\ ~(s_sta_connected /\ link)
    /\ state' = "TRY_CONNECT"
    /\ UNCHANGED <<portalVars, s_creds, flash, wifiVars, bounds, known>>

LoopReboots ==
    /\ state = "STATUS_LOOP"
    /\ s_sta_connected /\ link
    /\ s_reboot_requested
    /\ IF s_wifi_forget_requested
       THEN flash' = NoFlash /\ known' = {}
       ELSE UNCHANGED <<flash, known>>
    /\ state' = "REBOOTING"
    /\ UNCHANGED <<portalVars, s_creds, wifiVars, bounds>>

\* All of RAM goes back to its initial value.
Reset ==
    /\ PortalReset
    /\ state' = "BOOT"
    /\ s_creds' = NoCreds
    /\ s_ap_active' = FALSE
    /\ s_sta_connected' = FALSE
    /\ link' = FALSE

WatchdogReboot ==
    /\ state = "REBOOTING"
    /\ Reset
    /\ UNCHANGED <<flash, known, bounds>>

\* A power cut; one during the erasing or programming of the sector leaves no
\* valid credentials there.
PowerCut ==
    /\ crashes < MaxCrashes
    /\ crashes' = crashes + 1
    /\ Reset
    /\ UNCHANGED <<flash, known, failures>>

Main ==
    \/ BootKey
    \/ WifiInit
    \/ CheckCreds
    \/ TryConnect
    \/ StartPortal
    \/ PortalCheck
    \/ PortalLeave
    \/ PortalJoins
    \/ PortalSaves
    \/ PortalJoinFails
    \/ EnterConnected
    \/ LoopLeaves
    \/ LoopReboots
    \/ WatchdogReboot

Next == Httpd \/ Main \/ LinkLost \/ PowerCut

Spec == Init /\ [][Next]_vars

\* The main loop keeps turning.
LiveSpec == Spec /\ WF_vars(Main)

-----------------------------------------------------------------------------
(* Properties. *)

Pairs == (Users \cup {Empty, Garbled}) \X (Users \cup {Empty, Garbled})

\* Every variable has its type.
TypeOK ==
    /\ state \in {"BOOT", "INIT", "CHECK_CREDS", "TRY_CONNECT", "START_PORTAL",
                  "PORTAL_RUNNING", "PORTAL_CONNECTING", "PORTAL_JOIN", "PORTAL_SAVE",
                  "CONNECTED", "STATUS_LOOP", "REBOOTING"}
    /\ s_creds \in Pairs
    /\ s_submitted \in Pairs
    /\ flash = NoFlash \/ flash \in Pairs
    /\ known \subseteq Pairs
    /\ {s_running, s_creds_ready, s_has_connect_result, s_reboot_requested,
        s_wifi_forget_requested, s_ap_active, s_sta_connected, link,
        forgetPending} \subseteq BOOLEAN
    /\ owner \in Conns \cup {Empty}
    /\ submitter \in Users \cup {Empty, Garbled}
    /\ s_mode \in {"portal", "status"}
    /\ dhcp \in Nat /\ dns \in Nat
    /\ rtc \in {"form", "stack"}
    /\ s_post_buf_len \in 0..Len(s_post_buf)

\* Without a portal the device only ever joins, and only ever keeps in flash,
\* a network it has joined before and was not told to forget, wherever the
\* power is cut between the erase and the program of a save (main,
\* wifi_credentials::save, load, erase).
JoinsOnlyKnown ==
    /\ flash # NoFlash => flash \in known
    /\ state = "TRY_CONNECT" => s_creds \in known

\* The portal acts on no credentials an earlier session left (a POST that timed
\* out during the join, say); and a form that a client sent whole to this session,
\* with no other POST in between, is handed over as it was sent, whatever older
\* text and POSTs are still around (start, httpd_post_begin, _receive_data and
\* _finished).  Of other POSTs nothing is claimed: one that ends early, shares the
\* buffer or was begun before the session may hand over old text
\* (SubmittedByOneClient).
FreshCredentials ==
    state = "PORTAL_RUNNING" /\ s_creds_ready =>
        /\ submitter # Empty
        /\ submitter \in Users => s_submitted = <<submitter, submitter>>

\* DHCP and DNS answer only while the access point they serve is up; no socket
\* is leaked or opened twice by failed starts, retries and reconnections; and
\* httpd, which never stops, serves the pages of the interface that is up.
ServersMatch ==
    /\ dhcp <= 1
    /\ s_running => s_ap_active /\ dns = 1
    /\ ~s_running => dhcp = 0 /\ dns = 0
    /\ s_ap_active => state \in {"START_PORTAL", "PORTAL_RUNNING", "PORTAL_CONNECTING"}
    /\ state = "START_PORTAL" => ~s_running
    /\ state = "PORTAL_RUNNING" => s_running /\ s_mode = "portal"
    /\ state = "STATUS_LOOP" => s_mode = "status"

\* Whatever networks vanish and joins fail, the device comes back, again and
\* again, to a state where a user can reach it.
EventuallyUsable == []<>(state \in {"PORTAL_RUNNING", "STATUS_LOOP"})

-----------------------------------------------------------------------------
(* What documents and comments say and the code does not do. *)

\* "Check if WiFi credentials should be erased before reboot"
\* (captive_portal.h): a reboot erases them only when a forget was asked of the
\* status server that is being rebooted.
ErasedOnlyIfAsked ==
    state = "STATUS_LOOP" /\ s_reboot_requested /\ s_wifi_forget_requested => forgetPending

\* "Get submitted SSID/password" (captive_portal.h): what the portal hands to
\* main is a form some client sent, whole.
SubmittedByOneClient == s_creds_ready => s_submitted \in {<<u, u>> : u \in Users}
=============================================================================
