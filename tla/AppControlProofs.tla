-------------------------- MODULE AppControlProofs --------------------------
(***************************************************************************)
(* What holds of AppControl for every number of connections, every set of  *)
(* users and any number of power cuts and failures.                        *)
(***************************************************************************)
EXTENDS AppControl, TLAPS, WellFoundedInduction

\* JoinsOnlyKnown is not inductive: the credentials in RAM matter from the join
\* that proves them to the moment they are joined again.
KnownInv ==
    /\ flash # NoFlash => flash \in known
    /\ state \in {"TRY_CONNECT", "PORTAL_SAVE", "CONNECTED", "STATUS_LOOP"} => s_creds \in known

LEMMA KnownInit == Init => KnownInv
  BY DEF Init, KnownInv, NoFlash

LEMMA KnownStep == KnownInv /\ [Next]_vars => KnownInv'
  <1> SUFFICES ASSUME KnownInv, [Next]_vars PROVE KnownInv'
    OBVIOUS
  <1> USE DEF KnownInv
  <1>1. CASE Httpd
    BY <1>1 DEF Httpd, mainVars
  <1>2. CASE BootKey
    BY <1>2 DEF BootKey
  <1>3. CASE WifiInit
    BY <1>3 DEF WifiInit
  <1>4. CASE CheckCreds
    BY <1>4 DEF CheckCreds
  <1>5. CASE TryConnect
    BY <1>5 DEF TryConnect
  <1>6. CASE StartPortal
    BY <1>6 DEF StartPortal
  <1>7. CASE PortalCheck
    BY <1>7 DEF PortalCheck
  <1>8. CASE PortalLeave
    BY <1>8 DEF PortalLeave
  <1>9. CASE PortalJoins
    BY <1>9 DEF PortalJoins
  <1>10. CASE PortalSaves
    BY <1>10 DEF PortalSaves
  <1>11. CASE PortalJoinFails
    BY <1>11 DEF PortalJoinFails
  <1>12. CASE EnterConnected
    BY <1>12 DEF EnterConnected
  <1>13. CASE LoopLeaves
    BY <1>13 DEF LoopLeaves
  <1>14. CASE LoopReboots
    BY <1>14 DEF LoopReboots
  <1>15. CASE WatchdogReboot
    BY <1>15 DEF WatchdogReboot, Reset
  <1>16. CASE LinkLost
    BY <1>16 DEF LinkLost
  <1>17. CASE PowerCut
    BY <1>17 DEF PowerCut, Reset
  <1>18. CASE UNCHANGED vars
    BY <1>18 DEF vars, mainVars
  <1> QED
    BY <1>1, <1>2, <1>3, <1>4, <1>5, <1>6, <1>7, <1>8, <1>9, <1>10, <1>11, <1>12,
       <1>13, <1>14, <1>15, <1>16, <1>17, <1>18 DEF Next, Main

\* Without a portal the device joins, and keeps in flash, only credentials that
\* have worked and were not to be forgotten, wherever the power is cut.
THEOREM KnownJoined == Spec => []JoinsOnlyKnown
  <1>1. KnownInv => JoinsOnlyKnown
    BY DEF KnownInv, JoinsOnlyKnown
  <1> QED
    BY <1>1, KnownInit, KnownStep, PTL DEF Spec

-----------------------------------------------------------------------------

LEMMA ServersInit == Init => ServersMatch
  BY DEF Init, PortalInit, ServersMatch

LEMMA ServersStep == ServersMatch /\ [Next]_vars => ServersMatch'
  <1> SUFFICES ASSUME ServersMatch, [Next]_vars PROVE ServersMatch'
    OBVIOUS
  <1> USE DEF ServersMatch
  <1>1. CASE Httpd
    <2>1. UNCHANGED <<serverVars, pageVars, mainVars>>
      BY <1>1 DEF Httpd, PostButton, PostBegin, PostData, PostFinished
    <2> QED
      BY <2>1 DEF serverVars, pageVars, mainVars, wifiVars
  <1>2. CASE BootKey
    BY <1>2 DEF BootKey, portalVars, serverVars, pageVars, wifiVars
  <1>3. CASE WifiInit
    BY <1>3 DEF WifiInit, portalVars, serverVars, pageVars, wifiVars
  <1>4. CASE CheckCreds
    BY <1>4 DEF CheckCreds, portalVars, serverVars, pageVars, wifiVars
  <1>5. CASE TryConnect
    BY <1>5 DEF TryConnect, portalVars, serverVars, pageVars
  <1>6. CASE StartPortal
    <2>1. PICK ok \in BOOLEAN, gotDhcp \in {0, 1} :
             /\ Start(gotDhcp, ok)
             /\ state' = IF ok THEN "PORTAL_RUNNING" ELSE "START_PORTAL"
      BY <1>6 DEF StartPortal
    <2>2. s_ap_active' = TRUE /\ state = "START_PORTAL"
      BY <1>6 DEF StartPortal
    <2>3. CASE ok
      BY <2>1, <2>2, <2>3 DEF Start, StartOk
    <2>4. CASE ~ok
      BY <2>1, <2>2, <2>4 DEF Start, StartWithoutDns
    <2> QED
      BY <2>3, <2>4
  <1>7. CASE PortalCheck
    BY <1>7 DEF PortalCheck, TakeCredentials, serverVars, pageVars, wifiVars
  <1>8. CASE PortalLeave
    BY <1>8 DEF PortalLeave, Stop, pageVars
  <1>9. CASE PortalJoins
    BY <1>9 DEF PortalJoins, portalVars, serverVars, pageVars
  <1>10. CASE PortalSaves
    BY <1>10 DEF PortalSaves, SetConnectResult, serverVars, wifiVars
  <1>11. CASE PortalJoinFails
    BY <1>11 DEF PortalJoinFails, SetConnectResult, serverVars
  <1>12. CASE EnterConnected
    BY <1>12 DEF EnterConnected, StartStatus, serverVars, wifiVars
  <1>13. CASE LoopLeaves
    BY <1>13 DEF LoopLeaves, portalVars, serverVars, pageVars, wifiVars
  <1>14. CASE LoopReboots
    BY <1>14 DEF LoopReboots, portalVars, serverVars, pageVars, wifiVars
  <1>15. CASE WatchdogReboot
    BY <1>15 DEF WatchdogReboot, Reset, PortalReset
  <1>16. CASE LinkLost
    BY <1>16 DEF LinkLost, portalVars, serverVars, pageVars
  <1>17. CASE PowerCut
    BY <1>17 DEF PowerCut, Reset, PortalReset
  <1>18. CASE UNCHANGED vars
    BY <1>18 DEF vars, portalVars, serverVars, pageVars, mainVars, wifiVars
  <1> QED
    BY <1>1, <1>2, <1>3, <1>4, <1>5, <1>6, <1>7, <1>8, <1>9, <1>10, <1>11, <1>12,
       <1>13, <1>14, <1>15, <1>16, <1>17, <1>18 DEF Next, Main

\* DHCP and DNS run only while their access point is up, once each, and httpd
\* serves the pages of the interface that is up.
THEOREM ServersMatchAlways == Spec => []ServersMatch
  BY ServersInit, ServersStep, PTL DEF Spec

-----------------------------------------------------------------------------

-----------------------------------------------------------------------------
(* Types. *)

PostTypes == posts \in [Conns -> {NoPost} \cup [uri : WithBody, user : Users, sent : Nat]]
TextParts == [field : {"ssid", "password", "clock"}, user : Users]

\* TypeOK says of the text only how long it is.
TypeInv ==
    /\ TypeOK
    /\ PostTypes
    /\ s_post_buf \in Seq(TextParts)

LEMMA LeastExists ==
    ASSUME NEW S, S \subseteq Nat, S # {}
    PROVE  \E i \in S : \A j \in S : i <= j
  <1>1. PICK i \in S : \A y \in S : ~ (<<y, i>> \in OpToRel(<,Nat))
    BY NatLessThanWellFounded, WFMin
  <1>2. \A y \in S : y < i => <<y, i>> \in OpToRel(<,Nat)
    BY DEF OpToRel
  <1>3. \A y \in S : ~(y < i)
    BY <1>1, <1>2
  <1> QED BY <1>3

\* The first of some fields is one of them, and so in the text.
LEMMA FirstField ==
    ASSUME TypeInv, NEW f, Fields(f) # {}
    PROVE  /\ First(Fields(f)) \in DOMAIN s_post_buf
           /\ s_post_buf[First(Fields(f))].user \in Users
  <1>1. Fields(f) \subseteq 1..Len(s_post_buf) /\ Len(s_post_buf) \in Nat
    BY DEF Fields, TypeInv
  <1>2. First(Fields(f)) \in Fields(f)
    BY <1>1, LeastExists DEF First
  <1>3. PICK i : i = First(Fields(f))
    OBVIOUS
  <1>4. i \in 1..Len(s_post_buf) /\ s_post_buf \in Seq(TextParts)
    BY <1>1, <1>2, <1>3 DEF TypeInv
  <1>5. i \in DOMAIN s_post_buf /\ s_post_buf[i] \in TextParts
    BY <1>1, <1>4
  <1> QED
    BY <1>3, <1>5 DEF TextParts

LEMMA ExtractedType == ASSUME TypeInv PROVE Extracted \in Pairs
  BY FirstField DEF Extracted, Pairs

LEMMA ExtractedClockType == ExtractedClock \subseteq {"form", "stack"}
  BY DEF ExtractedClock

\* What the end of a POST can change keeps its type.
LEMMA HandleTypes ==
    ASSUME TypeInv, NEW uri, NEW sender \in Users \cup {Garbled}, Handle(uri, sender)
    PROVE  /\ s_submitted' \in Pairs
           /\ rtc' \in {"form", "stack"}
           /\ submitter' \in Users \cup {Empty, Garbled}
           /\ {s_creds_ready', s_reboot_requested', s_wifi_forget_requested',
               forgetPending'} \subseteq BOOLEAN
  <1>0. /\ s_submitted \in Pairs /\ rtc \in {"form", "stack"}
        /\ {s_running, s_creds_ready, s_reboot_requested, s_wifi_forget_requested,
            forgetPending} \subseteq BOOLEAN
        /\ submitter \in Users \cup {Empty, Garbled}
    BY DEF TypeInv, TypeOK
  <1>1. CASE uri = "/reboot" \/ uri = "/wifi-forget"
    BY <1>0, <1>1 DEF Handle, credVars
  <1>2. CASE uri = "/rtc-set"
    BY <1>0, <1>2, ExtractedClockType DEF Handle, credVars, rebootVars
  <1>3. CASE uri = "/connect"
    BY <1>0, <1>3, ExtractedType DEF Handle, rebootVars
  <1> QED BY <1>1, <1>2, <1>3 DEF Handle

LEMMA BodyTyped ==
    ASSUME NEW uri, NEW u \in Users
    PROVE  Body(uri, u) \in Seq(TextParts)
  <1>1. /\ [field |-> "ssid", user |-> u] \in TextParts
        /\ [field |-> "password", user |-> u] \in TextParts
        /\ [field |-> "clock", user |-> u] \in TextParts
    BY DEF TextParts
  <1>2. \A x, y \in TextParts : <<x, y>> \in Seq(TextParts) /\ <<x>> \in Seq(TextParts)
    OBVIOUS
  <1> QED BY <1>1, <1>2 DEF Body

LEMMA HttpdTypes == TypeInv /\ Httpd => TypeInv'
  <1> SUFFICES ASSUME TypeInv, Httpd PROVE TypeInv'
    OBVIOUS
  <1>0. UNCHANGED mainVars
    BY DEF Httpd
  <1>1. CASE \E uri \in Accepted \ WithBody : PostButton(uri)
    <2>1. PICK uri : PostButton(uri)
      BY <1>1
    <2>2. /\ Handle(uri, Garbled) /\ s_post_buf_len' = 0 /\ owner' = Empty
          /\ UNCHANGED <<s_post_buf, posts, serverVars, pageVars>>
      BY <2>1 DEF PostButton
    <2>3. 0 \in 0..Len(s_post_buf)
      BY DEF TypeInv
    <2> QED
      BY <1>0, <2>2, <2>3, HandleTypes DEF TypeInv, TypeOK, PostTypes, mainVars, wifiVars,
          serverVars, pageVars
  <1>2. CASE \E c \in Conns, uri \in Accepted \cap WithBody, u \in Users :
                PostBegin(c, uri, u)
    <2>1. PICK c \in Conns, uri \in WithBody, u \in Users : PostBegin(c, uri, u)
      BY <1>2
    <2>2. PostTypes'
      BY <2>1 DEF PostBegin, TypeInv, PostTypes
    <2>3. s_post_buf_len' \in 0..Len(s_post_buf)
      BY <2>1 DEF PostBegin, TypeInv
    <2> QED
      BY <1>0, <2>1, <2>2, <2>3 DEF PostBegin, TypeInv, TypeOK, mainVars, wifiVars,
          credVars, rebootVars, serverVars, pageVars
  <1>3. CASE \E c \in Conns : Interface # "none" /\ PostData(c)
    <2>1. PICK c \in Conns : PostData(c)
      BY <1>3
    <2>2. PICK p : p = posts[c]
      OBVIOUS
    <2>3. /\ p \in [uri : WithBody, user : Users, sent : Nat]
          /\ p.sent < Len(Body(p.uri, p.user))
          /\ posts' = [posts EXCEPT ![c].sent = @ + 1]
          /\ s_post_buf' = Append(SubSeq(s_post_buf, 1, s_post_buf_len),
                                  Body(p.uri, p.user)[p.sent + 1])
          /\ s_post_buf_len' = s_post_buf_len + 1
          /\ owner' \in {c, Empty}
          /\ UNCHANGED <<s_post_uri, credVars, rebootVars, serverVars, pageVars, rtc>>
      BY <2>1, <2>2 DEF PostData, TypeInv, PostTypes
    <2>4. Body(p.uri, p.user) \in Seq(TextParts)
      BY <2>3, BodyTyped
    <2>5. Body(p.uri, p.user)[p.sent + 1] \in TextParts
      BY <2>3, <2>4
    <2>6. s_post_buf \in Seq(TextParts) /\ s_post_buf_len \in 0..Len(s_post_buf)
      BY DEF TypeInv, TypeOK
    <2>7. /\ SubSeq(s_post_buf, 1, s_post_buf_len) \in Seq(TextParts)
          /\ Len(SubSeq(s_post_buf, 1, s_post_buf_len)) = s_post_buf_len
      BY <2>6
    <2>8. s_post_buf' \in Seq(TextParts) /\ Len(s_post_buf') = s_post_buf_len + 1
      BY <2>3, <2>5, <2>7
    <2>9. s_post_buf_len' \in 0..Len(s_post_buf')
      BY <2>3, <2>6, <2>8
    <2>10. PostTypes'
      <3>1. PICK q : q = [p EXCEPT !.sent = @ + 1]
        OBVIOUS
      <3>2. q \in [uri : WithBody, user : Users, sent : Nat]
        <4>1. p.sent + 1 \in Nat
          BY <2>3
        <4>2. ASSUME NEW n \in Nat
              PROVE  [p EXCEPT !.sent = n] \in [uri : WithBody, user : Users, sent : Nat]
          BY <2>3, Zenon
        <4> QED BY <3>1, <4>1, <4>2
      <3>3. posts' = [posts EXCEPT ![c] = q]
        BY <3>1, <2>2, <2>3
      <3> QED BY <3>2, <3>3 DEF TypeInv, PostTypes
    <2> QED
      BY <1>0, <2>3, <2>8, <2>9, <2>10 DEF TypeInv, TypeOK, mainVars, wifiVars,
          credVars, rebootVars, serverVars, pageVars
  <1>4. CASE \E c \in Conns : PostFinished(c)
    <2>1. PICK c \in Conns : PostFinished(c)
      BY <1>4
    <2>2. /\ Handle(s_post_uri, IF Whole(c) THEN posts[c].user ELSE Garbled)
          /\ owner' \in {Empty, owner}
          /\ UNCHANGED <<s_post_uri, s_post_buf, s_post_buf_len, serverVars, pageVars>>
      BY <2>1 DEF PostFinished
    <2>4. (IF Whole(c) THEN posts[c].user ELSE Garbled) \in Users \cup {Garbled}
      BY <2>1 DEF PostFinished, TypeInv, PostTypes
    <2>3. PostTypes'
      BY <2>1 DEF PostFinished, TypeInv, PostTypes
    <2> QED
      BY <1>0, <2>2, <2>3, <2>4, HandleTypes DEF TypeInv, TypeOK, mainVars, wifiVars,
          serverVars, pageVars
  <1> QED BY <1>1, <1>2, <1>3, <1>4 DEF Httpd

LEMMA TypeStep == TypeInv /\ [Next]_vars => TypeInv'
  <1> SUFFICES ASSUME TypeInv, [Next]_vars PROVE TypeInv'
    OBVIOUS
  <1> USE DEF TypeInv, TypeOK, PostTypes, NoFlash
  <1>0. NoCreds \in Pairs /\ <<Empty, Empty>> \in Pairs /\ Pairs # {}
    BY DEF NoCreds, Pairs
  <1>1. CASE Httpd
    BY <1>1, HttpdTypes
  <1>2. CASE BootKey
    BY <1>2 DEF BootKey, portalVars, postVars, credVars, rebootVars, serverVars, pageVars,
        wifiVars
  <1>3. CASE WifiInit
    BY <1>3 DEF WifiInit, portalVars, postVars, credVars, rebootVars, serverVars, pageVars,
        wifiVars
  <1>4. CASE CheckCreds
    BY <1>4 DEF CheckCreds, portalVars, postVars, credVars, rebootVars, serverVars, pageVars,
        wifiVars
  <1>5. CASE TryConnect
    BY <1>5 DEF TryConnect, Join, portalVars, postVars, credVars, rebootVars, serverVars,
        pageVars
  <1>6. CASE StartPortal
    <2>1. PICK ok \in BOOLEAN, gotDhcp \in {0, 1} :
             /\ Start(gotDhcp, ok)
             /\ state' = IF ok THEN "PORTAL_RUNNING" ELSE "START_PORTAL"
      BY <1>6 DEF StartPortal
    <2>2. s_ap_active' = TRUE /\ UNCHANGED <<s_creds, flash, s_sta_connected, link, known>>
      BY <1>6 DEF StartPortal
    <2>3. UNCHANGED <<s_post_uri, s_post_buf, s_post_buf_len, posts, rebootVars, rtc>>
      BY <2>1 DEF Start
    <2>4. CASE ok
      <3>1. /\ dhcp' = dhcp + gotDhcp /\ dns' = 1 /\ s_running' = TRUE /\ s_mode' = "portal"
            /\ submitter' = Empty /\ owner' = Empty /\ s_has_connect_result' = FALSE
            /\ s_creds_ready' = FALSE
            /\ s_submitted' = s_submitted
        BY <2>1, <2>4 DEF Start, StartOk, NewSession
      <3>2. dhcp' \in Nat /\ dns' \in Nat
        BY <3>1
      <3> QED
        BY <3>1, <3>2, <2>1, <2>2, <2>3 DEF rebootVars
    <2>5. CASE ~ok
      BY <2>1, <2>2, <2>3, <2>5 DEF Start, StartWithoutDns, rebootVars, credVars
    <2> QED BY <2>4, <2>5
  <1>7. CASE PortalCheck
    BY <1>7 DEF PortalCheck, TakeCredentials, postVars, rebootVars, serverVars, pageVars,
        wifiVars
  <1>8. CASE PortalLeave
    <2>1. /\ s_running' = FALSE /\ s_ap_active' = FALSE /\ state' = "PORTAL_JOIN"
          /\ UNCHANGED <<postVars, credVars, rebootVars, pageVars, rtc>>
          /\ UNCHANGED <<s_creds, flash, s_sta_connected, link, known>>
      BY <1>8 DEF PortalLeave, Stop
    <2>2. dhcp' \in Nat /\ dns' \in Nat
      BY <1>8 DEF PortalLeave, Stop
    <2> QED
      BY <2>1, <2>2 DEF postVars, credVars, rebootVars, pageVars
  <1>9. CASE PortalJoins
    <2>1. /\ s_sta_connected' = TRUE /\ link' = TRUE /\ flash' = NoFlash /\ known' = {s_creds}
          /\ state' = "PORTAL_SAVE" /\ UNCHANGED <<portalVars, s_creds, s_ap_active>>
      BY <1>9 DEF PortalJoins, Join
    <2>2. known' \subseteq Pairs
      BY <2>1
    <2> QED
      BY <2>1, <2>2 DEF portalVars, postVars, credVars, rebootVars, serverVars, pageVars
  <1>10. CASE PortalSaves
    BY <1>10 DEF PortalSaves, SetConnectResult, postVars, credVars, rebootVars, serverVars,
        wifiVars
  <1>11. CASE PortalJoinFails
    BY <1>11 DEF PortalJoinFails, Join, SetConnectResult, postVars, credVars, rebootVars,
        serverVars
  <1>12. CASE EnterConnected
    BY <1>12 DEF EnterConnected, StartStatus, postVars, credVars, serverVars, wifiVars
  <1>13. CASE LoopLeaves
    BY <1>13 DEF LoopLeaves, portalVars, postVars, credVars, rebootVars, serverVars, pageVars,
        wifiVars
  <1>14. CASE LoopReboots
    BY <1>14 DEF LoopReboots, portalVars, postVars, credVars, rebootVars, serverVars, pageVars,
        wifiVars
  <1>15. CASE Reset /\ UNCHANGED <<flash, known>>
    <2>1. posts' \in [Conns -> {NoPost} \cup [uri : WithBody, user : Users, sent : Nat]]
      BY <1>15 DEF Reset, PortalReset
    <2>2. s_post_buf' = << >> /\ s_post_buf_len' = 0
      BY <1>15 DEF Reset, PortalReset
    <2>3. s_post_buf' \in Seq(TextParts) /\ s_post_buf_len' \in 0..Len(s_post_buf')
      BY <2>2
    <2> QED
      BY <1>0, <1>15, <2>1, <2>3 DEF Reset, PortalReset
  <1>16. CASE LinkLost
    BY <1>16 DEF LinkLost, portalVars, postVars, credVars, rebootVars, serverVars, pageVars
  <1>17. CASE UNCHANGED vars
    BY <1>17 DEF vars, mainVars, portalVars, postVars, credVars, rebootVars, serverVars,
        pageVars, wifiVars
  <1> QED
    BY <1>1, <1>2, <1>3, <1>4, <1>5, <1>6, <1>7, <1>8, <1>9, <1>10, <1>11, <1>12,
       <1>13, <1>14, <1>15, <1>16, <1>17 DEF Next, Main, WatchdogReboot, PowerCut

LEMMA TypeInit == Init => TypeInv
  <1> SUFFICES ASSUME Init PROVE TypeInv
    OBVIOUS
  <1>1. PostTypes
    BY DEF Init, PortalInit, PostTypes
  <1>2. s_post_buf \in Seq(TextParts) /\ s_post_buf_len \in 0..Len(s_post_buf)
    BY DEF Init, PortalInit
  <1>3. NoCreds \in Pairs /\ <<Empty, Empty>> \in Pairs
    BY DEF NoCreds, Pairs
  <1> QED
    BY <1>1, <1>2, <1>3 DEF Init, PortalInit, TypeInv, TypeOK, NoFlash

\* Every variable has its type; what reads the text of a POST stays inside it,
\* whoever wrote it.
THEOREM TypeCorrect == Spec => []TypeOK
  <1>1. TypeInv => TypeOK
    BY DEF TypeInv
  <1> QED BY <1>1, TypeInit, TypeStep, PTL DEF Spec

-----------------------------------------------------------------------------
(* Whose credentials main takes. *)

\* While a POST has the text to itself, the URI is its own and the text is what
\* has come of its body.
OwnText(c) ==
    owner = c /\ posts[c] # NoPost =>
        /\ s_post_uri = posts[c].uri
        /\ posts[c].sent \in 0..2
        /\ s_post_buf_len = posts[c].sent
        /\ posts[c].sent > 0 =>
              s_post_buf = SubSeq(Body(posts[c].uri, posts[c].user), 1, posts[c].sent)

\* What is ready while the portal runs came to this portal session, and the form
\* of an owner as it was sent.
FreshInv ==
    /\ \A c \in Conns : OwnText(c)
    /\ s_running /\ s_creds_ready => submitter # Empty
    /\ submitter \in Users => s_submitted = <<submitter, submitter>>

\* A body has one or two fields, and what is extracted from one is the sender's.
LEMMA BodyParts ==
    ASSUME NEW uri, NEW u
    PROVE  /\ uri = "/connect" => Body(uri, u) = << [field |-> "ssid", user |-> u],
                                                   [field |-> "password", user |-> u] >>
           /\ uri # "/connect" => Body(uri, u) = << [field |-> "clock", user |-> u] >>
           /\ Len(Body(uri, u)) \in 1..2
  BY DEF Body

LEMMA FormExtracted ==
    ASSUME NEW u, s_post_buf = Body("/connect", u)
    PROVE  Extracted = <<u, u>>
  <1>1. s_post_buf = << [field |-> "ssid", user |-> u], [field |-> "password", user |-> u] >>
    BY BodyParts
  <1>2. /\ DOMAIN s_post_buf = 1..2 /\ Len(s_post_buf) = 2
        /\ s_post_buf[1].field = "ssid" /\ s_post_buf[1].user = u
        /\ s_post_buf[2].field = "password" /\ s_post_buf[2].user = u
    BY <1>1
  <1>3. Readable(1) /\ Readable(2)
    BY <1>2 DEF Readable
  <1>4. Fields("ssid") = {1} /\ Fields("password") = {2}
    BY <1>2, <1>3 DEF Fields
  <1>5. First(Fields("ssid")) = 1 /\ First(Fields("password")) = 2
    BY <1>4 DEF First
  <1>6. /\ Fields("ssid") # {} /\ Fields("password") # {}
        /\ s_post_buf[First(Fields("ssid"))] = s_post_buf[1]
        /\ s_post_buf[First(Fields("password"))] = s_post_buf[2]
        /\ First(Fields("password")) = Len(s_post_buf)
    <2>1. {1} # {} /\ {2} # {}
      OBVIOUS
    <2> QED BY <1>2, <1>4, <1>5, <2>1, Zenon
  <1>7. ~(2 < 2)
    OBVIOUS
  <1> QED
    BY <1>2, <1>6, <1>7, Zenon DEF Extracted

\* The end of a POST: of an owner whose body is in, the form is extracted whole.
LEMMA FreshHandled ==
    ASSUME FreshInv, NEW sender \in Users \cup {Garbled}, UNCHANGED s_running,
           Handle(s_post_uri', sender),
           sender \in Users /\ s_post_uri' = "/connect" => s_post_buf = Body("/connect", sender)
    PROVE  /\ (s_running /\ s_creds_ready => submitter # Empty)'
           /\ (submitter \in Users => s_submitted = <<submitter, submitter>>)'
  <1>1. CASE s_post_uri' = "/connect"
    <2>1. /\ s_submitted' = Extracted
          /\ submitter' = IF s_running THEN sender ELSE Empty
      BY <1>1 DEF Handle
    <2>2. ASSUME sender \in Users PROVE Extracted = <<sender, sender>>
      BY <1>1, <2>2, FormExtracted
    <2> QED
      BY <2>1, <2>2, PortalAssumption
  <1>2. CASE s_post_uri' # "/connect"
    BY <1>2 DEF Handle, credVars, FreshInv
  <1> QED
    BY <1>1, <1>2

\* One more field of a body.
LEMMA PrefixGrows ==
    ASSUME NEW S, NEW b \in Seq(S), NEW n \in 0..(Len(b) - 1), NEW buf \in Seq(S),
           n > 0 => buf = SubSeq(b, 1, n)
    PROVE  Append(SubSeq(buf, 1, n), b[n + 1]) = SubSeq(b, 1, n + 1)
  <1>1. SubSeq(buf, 1, n) = SubSeq(b, 1, n)
    <2>1. CASE n = 0
      BY <2>1
    <2>2. CASE n > 0
      <3>1. Len(SubSeq(b, 1, n)) = n /\ SubSeq(b, 1, n) \in Seq(S)
        OBVIOUS
      <3> QED BY <2>2, <3>1
    <2> QED BY <2>1, <2>2
  <1> QED BY <1>1

LEMMA FreshHttpd == FreshInv /\ TypeInv /\ Httpd => FreshInv'
  <1> SUFFICES ASSUME FreshInv, TypeInv, Httpd PROVE FreshInv'
    OBVIOUS
  <1>0. PostTypes
    BY DEF TypeInv
  <1>1. CASE \E uri \in Accepted \ WithBody : PostButton(uri)
    <2>1. /\ Handle(s_post_uri', Garbled) /\ owner' = Empty /\ UNCHANGED <<posts, serverVars>>
      BY <1>1 DEF PostButton
    <2>2. \A c \in Conns : OwnText(c)'
      BY <2>1, PortalAssumption DEF OwnText
    <2> QED
      BY <2>1, <2>2, FreshHandled, PortalAssumption DEF FreshInv, serverVars
  <1>2. CASE \E c \in Conns, uri \in Accepted \cap WithBody, u \in Users : PostBegin(c, uri, u)
    <2>1. PICK c \in Conns, uri \in Accepted \cap WithBody, u \in Users : PostBegin(c, uri, u)
      BY <1>2
    <2>2. posts'[c] = [uri |-> uri, user |-> u, sent |-> 0]
      BY <1>0, <2>1 DEF PostBegin, PostTypes
    <2>3. \A d \in Conns : OwnText(d)'
      BY <2>1, <2>2 DEF PostBegin, OwnText
    <2> QED
      BY <2>1, <2>3 DEF PostBegin, FreshInv, credVars, serverVars
  <1>3. CASE \E c \in Conns : Interface # "none" /\ PostData(c)
    <2>1. PICK c \in Conns : PostData(c)
      BY <1>3
    <2>2. UNCHANGED <<s_post_uri, credVars, serverVars>>
      BY <2>1 DEF PostData
    <2>3. CASE owner = c
      <3>1. PICK p : p = posts[c] /\ p \in [uri : WithBody, user : Users, sent : Nat]
        BY <1>0, <2>1 DEF PostData, PostTypes
      <3>2. PICK b : b = Body(p.uri, p.user)
        OBVIOUS
      <3>3. /\ p.sent < Len(b) /\ Len(b) \in 1..2 /\ b \in Seq(TextParts)
        <4>1. p.sent < Len(b)
          BY <2>1, <3>1, <3>2 DEF PostData
        <4> QED BY <3>1, <3>2, <4>1, BodyParts, BodyTyped
      <3>4. /\ s_post_uri = p.uri /\ s_post_buf_len = p.sent
            /\ p.sent > 0 => s_post_buf = SubSeq(b, 1, p.sent)
        BY <2>1, <2>3, <3>1, <3>2 DEF PostData, FreshInv, OwnText
      <3>5. PICK n \in Nat : n = p.sent /\ n \in 0..(Len(b) - 1)
        BY <3>1, <3>3
      <3>6. s_post_buf' = Append(SubSeq(s_post_buf, 1, n), b[n + 1])
        BY <2>1, <3>1, <3>2, <3>4, <3>5 DEF PostData
      <3>7. s_post_buf' = SubSeq(b, 1, n + 1)
        BY <3>3, <3>4, <3>5, <3>6, PrefixGrows DEF TypeInv
      <3>8. /\ posts'[c].uri = p.uri /\ posts'[c].user = p.user /\ posts'[c].sent = n + 1
            /\ s_post_buf_len' = n + 1 /\ owner' = c
        <4>1. /\ posts' = [posts EXCEPT ![c].sent = @ + 1] /\ c \in DOMAIN posts
              /\ owner' = IF owner = c THEN c ELSE Empty
              /\ s_post_buf_len' = s_post_buf_len + 1
          BY <1>0, <2>1 DEF PostData, PostTypes
        <4>2. posts'[c] = [p EXCEPT !.sent = n + 1]
          BY <3>1, <3>5, <4>1
        <4>3. /\ [p EXCEPT !.sent = n + 1].uri = p.uri
              /\ [p EXCEPT !.sent = n + 1].user = p.user
              /\ [p EXCEPT !.sent = n + 1].sent = n + 1
          BY <3>1
        <4> QED BY <2>3, <3>4, <3>5, <4>1, <4>2, <4>3
      <3>9. n + 1 \in 0..2
        <4>1. PICK m \in 1..2 : m = Len(b)
          BY <3>3
        <4>2. n \in 0..(m - 1)
          BY <3>5, <4>1, Zenon
        <4> QED BY <4>2
      <3>10. \A d \in Conns : OwnText(d)'
        <4>0. owner' = c
          BY <3>8
        <4>1. s_post_buf' = SubSeq(Body(posts'[c].uri, posts'[c].user), 1, posts'[c].sent)
          BY <3>2, <3>7, <3>8
        <4>2. OwnText(c)'
          BY <2>2, <3>4, <3>8, <3>9, <4>1 DEF OwnText
        <4>3. ASSUME NEW d \in Conns, d # c PROVE OwnText(d)'
          BY <4>0, <4>3 DEF OwnText
        <4> QED BY <4>2, <4>3
      <3> QED
        BY <2>2, <3>10 DEF FreshInv, credVars, serverVars
    <2>4. CASE owner # c
      <3>1. owner' = Empty
        BY <2>1, <2>4 DEF PostData
      <3> QED
        BY <2>2, <3>1, PortalAssumption DEF FreshInv, OwnText, credVars, serverVars
    <2> QED BY <2>3, <2>4
  <1>4. CASE \E c \in Conns : PostFinished(c)
    <2>1. PICK c \in Conns : PostFinished(c)
      BY <1>4
    <2>2. /\ posts[c] # NoPost
          /\ posts' = [posts EXCEPT ![c] = NoPost]
          /\ owner' = IF owner = c THEN Empty ELSE owner
          /\ Handle(s_post_uri, IF Whole(c) THEN posts[c].user ELSE Garbled)
          /\ UNCHANGED <<s_post_uri, s_post_buf, s_post_buf_len, serverVars>>
      BY <2>1 DEF PostFinished
    <2>3. ASSUME NEW d \in Conns PROVE OwnText(d)'
      <3>1. CASE d = c
        BY <2>2, <3>1, PortalAssumption DEF OwnText
      <3>2. CASE d # c
        BY <1>0, <2>2, <3>2, PortalAssumption DEF OwnText, PostTypes, FreshInv
      <3> QED BY <3>1, <3>2
    <2>4. posts[c].user \in Users
      BY <1>0, <2>2 DEF PostTypes
    <2>5. ASSUME Whole(c), s_post_uri = "/connect"
          PROVE  s_post_buf = Body("/connect", posts[c].user)
      <3>1. PICK b : b = Body("/connect", posts[c].user) /\ Len(b) = 2 /\ b \in Seq(TextParts)
        BY <2>4, BodyParts, BodyTyped DEF WithBody
      <3>2. s_post_buf = SubSeq(b, 1, 2)
        BY <2>2, <2>5, <3>1 DEF Whole, OwnText, FreshInv
      <3> QED BY <3>1, <3>2
    <2>6. PICK sender : sender = IF Whole(c) THEN posts[c].user ELSE Garbled
      OBVIOUS
    <2>7. /\ sender \in Users \cup {Garbled}
          /\ (sender \in Users => Whole(c) /\ sender = posts[c].user)
      BY <2>4, <2>6, PortalAssumption
    <2> QED
      BY <2>2, <2>3, <2>5, <2>6, <2>7, FreshHandled DEF FreshInv, serverVars
  <1> QED
    BY <1>1, <1>2, <1>3, <1>4 DEF Httpd

LEMMA FreshStep == FreshInv /\ TypeInv /\ [Next]_vars => FreshInv'
  <1> SUFFICES ASSUME FreshInv, TypeInv, [Next]_vars PROVE FreshInv'
    OBVIOUS
  <1>0. UNCHANGED <<postVars, credVars>> =>
            UNCHANGED <<s_submitted, submitter>> /\ \A c \in Conns : OwnText(c)'
    BY DEF FreshInv, OwnText, postVars, credVars
  <1>1. CASE Httpd
    BY <1>1, FreshHttpd
  <1>2. CASE StartPortal
    <2>1. PICK ok \in BOOLEAN, gotDhcp \in {0, 1} : Start(gotDhcp, ok)
      BY <1>2 DEF StartPortal
    <2>2. CASE ok
      <3>1. submitter' = Empty /\ owner' = Empty /\ s_creds_ready' = FALSE
        BY <2>1, <2>2 DEF Start, StartOk, NewSession
      <3> QED
        BY <3>1, PortalAssumption DEF FreshInv, OwnText
    <2>3. CASE ~ok
      <3>1. UNCHANGED <<postVars, credVars, s_running>>
        BY <2>1, <2>3 DEF Start, StartWithoutDns, postVars
      <3> QED
        BY <1>0, <3>1 DEF FreshInv, credVars
    <2> QED
      BY <2>2, <2>3
  <1>3. CASE PortalCheck
    <2>1. UNCHANGED postVars /\ submitter' = Empty /\ s_creds_ready' = FALSE
      BY <1>3 DEF PortalCheck, TakeCredentials
    <2> QED
      BY <2>1, PortalAssumption DEF FreshInv, OwnText, postVars
  <1>4. CASE PortalLeave
    <2>1. UNCHANGED <<postVars, credVars>> /\ s_running' = FALSE
      BY <1>4 DEF PortalLeave, Stop
    <2> QED
      BY <1>0, <2>1 DEF FreshInv
  <1>5. CASE WatchdogReboot \/ PowerCut
    <2>1. submitter' = Empty /\ owner' = Empty /\ s_creds_ready' = FALSE
      BY <1>5 DEF WatchdogReboot, PowerCut, Reset, PortalReset
    <2> QED
      BY <2>1, PortalAssumption DEF FreshInv, OwnText
  <1>6. CASE PortalSaves \/ PortalJoinFails \/ EnterConnected \/ UNCHANGED portalVars
    <2>1. UNCHANGED <<postVars, credVars, serverVars>>
      BY <1>6 DEF PortalSaves, PortalJoinFails, SetConnectResult, EnterConnected, StartStatus,
          portalVars
    <2> QED
      BY <1>0, <2>1 DEF FreshInv, credVars, serverVars
  <1> QED
    BY <1>1, <1>2, <1>3, <1>4, <1>5, <1>6
    DEF Next, Main, BootKey, WifiInit, CheckCreds, TryConnect, PortalJoins, LoopLeaves,
        LoopReboots, LinkLost, vars

\* The portal acts on no credentials an earlier session left, and a form sent
\* whole to this session, with no other POST in between, is handed over as sent,
\* whatever older text the buffer holds and whatever older POSTs end late.
THEOREM Fresh == Spec => []FreshCredentials
  <1>1. Init => FreshInv
    BY PortalAssumption DEF Init, PortalInit, FreshInv, OwnText
  <1>2. FreshInv /\ ServersMatch => FreshCredentials
    BY DEF FreshInv, ServersMatch, FreshCredentials
  <1> QED
    BY <1>1, <1>2, FreshStep, TypeInit, TypeStep, ServersMatchAlways, PTL DEF Spec
=============================================================================
