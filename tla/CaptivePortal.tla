--------------------------- MODULE CaptivePortal ----------------------------
(***************************************************************************)
(* The part of the web portal (portal/captive_portal.cpp) that outlives a  *)
(* request: the flags main polls, the POST handlers httpd calls, and the   *)
(* DHCP and DNS sockets.  The actions here constrain the portal's own      *)
(* variables only; AppControl composes them with the main loop.            *)
(*                                                                         *)
(* httpd keeps several connections open and interleaves their callbacks,   *)
(* while the URI and the body of a POST live in one static buffer.         *)
(***************************************************************************)
EXTENDS Naturals, Sequences

CONSTANTS
    Conns,      \* TCP connections httpd serves at the same time
    Users,      \* browsers: user u sends network u, password u, clock u
    Empty,      \* a field left empty
    Garbled     \* a value with another request's bytes in it, or no value

ASSUME PortalAssumption ==
    /\ Empty \notin Users \cup Conns
    /\ Garbled \notin Users \cup {Empty}

VARIABLES
    s_mode,                    \* what fs_open_custom serves: "portal", "status"
    s_running,
    s_creds_ready,
    s_submitted,               \* <<s_submitted_ssid, s_submitted_pass>>
    s_has_connect_result,
    s_reboot_requested,
    s_wifi_forget_requested,
    s_post_uri,
    s_post_buf,                \* its text, by fields; it ends where it was cut off last
    s_post_buf_len,            \* how much of it the current POST has filled
    rtc,                       \* what the DS3231's time was set from; its battery
                               \* keeps it
    dhcp,                      \* UDP sockets of the DHCP server
    dns,                       \* UDP sockets of the DNS server
    posts,                     \* per connection, the POST it is in the middle of
    owner,                     \* ghost: the connection whose POST, begun in this
                               \* session, has had the text to itself, or Empty
    submitter,                 \* ghost: the user whose form s_submitted came in, sent
                               \* whole by an owner; Garbled of another POST of this
                               \* session, Empty of none
    forgetPending              \* ghost: a forget was asked of this status server

postVars == <<s_post_uri, s_post_buf, s_post_buf_len, posts, owner>>
credVars == <<s_creds_ready, s_submitted, submitter>>
rebootVars == <<s_reboot_requested, s_wifi_forget_requested, forgetPending>>
serverVars == <<s_running, dhcp, dns>>
pageVars == <<s_mode, s_has_connect_result>>
portalVars == <<postVars, credVars, rebootVars, serverVars, pageVars, rtc>>

\* A connection is in the middle of a POST only if the POST has a body: the
\* form ssid=...&password=... or the clock Y=...&M=...&...&w=...
NoPost == [uri |-> "none", user |-> Empty, sent |-> 0]
Body(uri, u) ==
    IF uri = "/connect" THEN << [field |-> "ssid", user |-> u], [field |-> "password", user |-> u] >>
                        ELSE << [field |-> "clock", user |-> u] >>
WithBody == {"/connect", "/rtc-set"}

\* extract_field: a field counts at the start of the text or after the & that
\* ends an ssid field; what follows a password up to the next & is part of it.
Readable(i) == i = 1 \/ s_post_buf[i-1].field = "ssid"
Fields(f) == {i \in DOMAIN s_post_buf : s_post_buf[i].field = f /\ Readable(i)}
First(S) == CHOOSE i \in S : \A j \in S : i <= j
Extracted ==
    << IF Fields("ssid") = {} THEN Empty ELSE s_post_buf[First(Fields("ssid"))].user,
       IF Fields("password") = {} THEN Empty
       ELSE IF First(Fields("password")) < Len(s_post_buf) THEN Garbled
       ELSE s_post_buf[First(Fields("password"))].user >>

\* The clock fields are read into arrays nobody initialised: where the text has
\* none, the arrays hold what the stack held, an earlier form's or anything else.
ExtractedClock ==
    IF Fields("clock") = {} THEN {"form", "stack"} ELSE {"form"}

PortalInit ==
    /\ s_mode = "portal"
    /\ s_running = FALSE
    /\ s_creds_ready = FALSE
    /\ s_submitted = <<Empty, Empty>>
    /\ s_has_connect_result = FALSE
    /\ s_reboot_requested = FALSE
    /\ s_wifi_forget_requested = FALSE
    /\ s_post_uri = "none"
    /\ s_post_buf = << >>
    /\ s_post_buf_len = 0
    /\ rtc = "form"
    /\ dhcp = 0
    /\ dns = 0
    /\ posts = [c \in Conns |-> NoPost]
    /\ owner = Empty
    /\ submitter = Empty
    /\ forgetPending = FALSE

-----------------------------------------------------------------------------
(* httpd's callbacks. *)

\* What httpd_post_finished does for a URI and a text: flags, clock or form.
\* The user who sent that text is only kept for the properties.
Handle(uri, sender) ==
    \/ /\ uri = "/reboot"
       /\ s_reboot_requested' = TRUE
       /\ UNCHANGED <<s_wifi_forget_requested, forgetPending, credVars, rtc>>
    \/ /\ uri = "/wifi-forget"
       /\ s_wifi_forget_requested' = TRUE
       /\ s_reboot_requested' = TRUE
       /\ forgetPending' = TRUE
       /\ UNCHANGED <<credVars, rtc>>
    \/ /\ uri = "/rtc-set"
       /\ rtc' \in ExtractedClock \cup {rtc}        \* or the I2C write failed
       /\ UNCHANGED <<credVars, rebootVars>>
    \/ /\ uri = "/connect"
       /\ s_submitted' = Extracted
       /\ s_creds_ready' = TRUE
       /\ submitter' = IF s_running THEN sender ELSE Empty
       /\ UNCHANGED <<rebootVars, rtc>>

\* httpd_post_begin and, as there is no body to wait for, httpd_post_finished.
PostButton(uri) ==
    /\ s_post_uri' = uri
    /\ s_post_buf_len' = 0
    /\ owner' = Empty
    /\ Handle(uri, Garbled)
    /\ UNCHANGED <<s_post_buf, posts, serverVars, pageVars>>

\* httpd_post_begin: filling starts over, the earlier text is still there.
\* (Mutants: the text is cut off instead; filling goes on where it was.)
PostBeginCuts(c, uri, u) ==
    /\ posts[c] = NoPost
    /\ posts' = [posts EXCEPT ![c] = [uri |-> uri, user |-> u, sent |-> 0]]
    /\ s_post_uri' = uri
    /\ s_post_buf' = << >>
    /\ owner' = c
    /\ UNCHANGED <<s_post_buf_len, credVars, rebootVars, serverVars, pageVars, rtc>>
PostBeginGoesOn(c, uri, u) ==
    /\ posts[c] = NoPost
    /\ Len(s_post_buf) < 4                               \* a full buffer
    /\ posts' = [posts EXCEPT ![c] = [uri |-> uri, user |-> u, sent |-> 0]]
    /\ s_post_uri' = uri
    /\ owner' = c
    /\ UNCHANGED <<s_post_buf, s_post_buf_len, credVars, rebootVars, serverVars, pageVars, rtc>>
PostBegin(c, uri, u) ==
    /\ posts[c] = NoPost
    /\ posts' = [posts EXCEPT ![c] = [uri |-> uri, user |-> u, sent |-> 0]]
    /\ s_post_uri' = uri
    /\ s_post_buf_len' = 0
    /\ owner' = c
    /\ UNCHANGED <<s_post_buf, credVars, rebootVars, serverVars, pageVars, rtc>>

\* httpd_post_receive_data: the text is filled further, and ends there.
PostData(c) ==
    LET body == Body(posts[c].uri, posts[c].user) IN
    /\ posts[c] # NoPost
    /\ posts[c].sent < Len(body)
    /\ posts' = [posts EXCEPT ![c].sent = @ + 1]
    /\ s_post_buf' = Append(SubSeq(s_post_buf, 1, s_post_buf_len), body[posts[c].sent + 1])
    /\ s_post_buf_len' = s_post_buf_len + 1
    /\ owner' = IF owner = c THEN c ELSE Empty
    /\ UNCHANGED <<s_post_uri, credVars, rebootVars, serverVars, pageVars, rtc>>

\* httpd_post_finished: called when the body is in, and also when the
\* connection ends before.  It acts on the URI of the POST begun last.
Whole(c) == owner = c /\ posts[c].sent = Len(Body(posts[c].uri, posts[c].user))
PostFinished(c) ==
    /\ posts[c] # NoPost
    /\ posts' = [posts EXCEPT ![c] = NoPost]
    /\ owner' = IF owner = c THEN Empty ELSE owner
    /\ Handle(s_post_uri, IF Whole(c) THEN posts[c].user ELSE Garbled)
    /\ UNCHANGED <<s_post_uri, s_post_buf, s_post_buf_len, serverVars, pageVars>>

-----------------------------------------------------------------------------
(* The calls main makes. *)

\* start resets what an earlier session left.
NewSession ==
    /\ s_has_connect_result' = FALSE
    /\ s_creds_ready' = FALSE

\* start, when the DNS server cannot be started: DHCP is stopped again.
\* (Mutant: it is not.)
StartWithoutDnsLeaks(gotDhcp) ==
    /\ dhcp' = dhcp + gotDhcp
    /\ UNCHANGED <<dns, s_running, s_mode, s_has_connect_result, credVars, owner>>
StartWithoutDns(gotDhcp) ==
    /\ dhcp' = 0
    /\ UNCHANGED <<dns, s_running, s_mode, s_has_connect_result, credVars, owner>>

\* start: DHCP (whose failure is not reported), then DNS, then the flags.
StartOk(gotDhcp) ==
    /\ dhcp' = dhcp + gotDhcp
    /\ dns' = 1
    /\ s_running' = TRUE
    /\ s_mode' = "portal"
    /\ submitter' = Empty
    /\ owner' = Empty
    /\ NewSession
    /\ UNCHANGED s_submitted
Start(gotDhcp, ok) ==
    /\ ~s_running
    /\ IF ok THEN StartOk(gotDhcp) ELSE StartWithoutDns(gotDhcp)
    /\ UNCHANGED <<s_post_uri, s_post_buf, s_post_buf_len, posts, rebootVars, rtc>>

\* start_status: a reboot asked for earlier is dropped.
StartStatus ==
    /\ s_mode' = "status"
    /\ s_reboot_requested' = FALSE
    /\ forgetPending' = FALSE
    /\ UNCHANGED <<s_wifi_forget_requested, postVars, credVars, serverVars,
                   s_has_connect_result, rtc>>

\* stop: the sockets go, httpd stays.
Stop ==
    /\ s_running' = FALSE
    /\ IF s_running THEN dhcp' = 0 /\ dns' = 0 ELSE UNCHANGED <<dhcp, dns>>
    /\ UNCHANGED <<postVars, credVars, rebootVars, pageVars, rtc>>

\* get_credentials
TakeCredentials ==
    /\ s_creds_ready' = FALSE
    /\ submitter' = Empty
    /\ UNCHANGED <<s_submitted, postVars, rebootVars, serverVars, pageVars, rtc>>

\* set_connect_result
SetConnectResult ==
    /\ s_has_connect_result' = TRUE
    /\ UNCHANGED <<postVars, credVars, rebootVars, serverVars, s_mode, rtc>>

\* A reset of the processor: every static variable has its initial value again,
\* the clock chip has its own battery.
PortalReset ==
    /\ s_mode' = "portal"
    /\ s_running' = FALSE
    /\ s_creds_ready' = FALSE
    /\ s_submitted' = <<Empty, Empty>>
    /\ s_has_connect_result' = FALSE
    /\ s_reboot_requested' = FALSE
    /\ s_wifi_forget_requested' = FALSE
    /\ s_post_uri' = "none"
    /\ s_post_buf' = << >>
    /\ s_post_buf_len' = 0
    /\ dhcp' = 0
    /\ dns' = 0
    /\ posts' = [c \in Conns |-> NoPost]
    /\ owner' = Empty
    /\ submitter' = Empty
    /\ forgetPending' = FALSE
    /\ UNCHANGED rtc
=============================================================================
