----------------------------- MODULE HttpFiles ------------------------------
(***************************************************************************)
(* The web server's file layer (fs_open_custom, fs_read_custom and         *)
(* fs_close_custom of portal/captive_portal.cpp): httpd opens a URI, reads *)
(* the response piece by piece as the client acknowledges it, and closes   *)
(* it, on several connections at a time.                                   *)
(*                                                                         *)
(* A response is composed into a static buffer when it is opened; which    *)
(* buffer is being served, and whether the log is being streamed, is kept  *)
(* once for all connections.  A response is told from another by its       *)
(* request's number and is measured in pieces.                             *)
(***************************************************************************)
EXTENDS Naturals, Sequences, FiniteSets

CONSTANTS
    Conns,          \* TCP connections httpd serves at the same time
    Uris,           \* what the clients ask for
    Size,           \* pieces of a response, header included, per buffer
    MaxRead,        \* pieces httpd asks for at a time
    MaxRetries,     \* HTTPD_MAX_RETRIES: polls without progress httpd bears
    MaxRequests,    \* bound: requests in a run
    MaxLog          \* bound: pieces in the log

Buffers == {"s_page_buf", "s_result_buf", "s_modem_json_buf", "s_rtc_json_buf",
            "s_logs_buf", "REDIRECT_BODY"}

ASSUME HttpAssumption ==
    /\ Size \in [Buffers -> Nat \ {0}]
    /\ MaxRead \in Nat \ {0}
    /\ MaxRetries \in Nat \ {0}
    /\ MaxRequests \in Nat
    /\ MaxLog \in Nat
    /\ "none" \notin Uris

VARIABLES
    s_mode, s_has_connect_result,    \* set by main
    composed,                        \* per buffer, the request it was composed for, or 0
    s_serve_ptr,                     \* the buffer opened last
    s_serving_sd_csv,
    s_sd_csv_hdr,                    \* the request its text was composed for
    s_sd_csv_data_len,
    data_bytes,                      \* pieces in the log
    legible,                         \* how many of them, from the first, the card reads now
    files,                           \* per connection, httpd's open file
    retries,                         \* per connection, its reads in a row that got nothing
    requests,                        \* requests so far
    got,                             \* ghost: the pieces each client received
    alone                            \* ghost: no other file opened, open or closed meanwhile

mainVars == <<s_mode, s_has_connect_result>>
csvVars == <<s_sd_csv_hdr, s_sd_csv_data_len>>
vars == <<mainVars, composed, s_serve_ptr, s_serving_sd_csv, csvVars, data_bytes,
          legible, files, retries, requests, got, alone>>

NoFile == [uri |-> "none", request |-> 0, len |-> 0, index |-> 0, buf |-> "none"]
IsOpen(c) == files[c] # NoFile

\* The header of the download, longer when the length has more digits.
HdrLen(bytes) == IF bytes < 2 THEN 1 ELSE 2

Init ==
    /\ s_mode \in {"portal", "status"}
    /\ s_has_connect_result = FALSE
    /\ composed = [b \in Buffers |-> 0]
    /\ s_serve_ptr = "none"
    /\ s_serving_sd_csv = FALSE
    /\ s_sd_csv_hdr = 0
    /\ s_sd_csv_data_len = 0
    /\ data_bytes = 0
    /\ legible = MaxLog
    /\ files = [c \in Conns |-> NoFile]
    /\ retries = [c \in Conns |-> 0]
    /\ requests = 0
    /\ got = [c \in Conns |-> << >>]
    /\ alone = [c \in Conns |-> FALSE]

-----------------------------------------------------------------------------
(* Opening. *)

ModemUris == {"/modem-test", "/sim-test", "/led-test", "/set-mode-mobile", "/set-mode-stationary"}
DetectUris == {"/generate_204", "/gen_204", "/hotspot-detect.html", "/library/test/success.html",
               "/connecttest.txt", "/ncsi.txt", "/redirect", "/success.txt", "/canonical.html"}

\* Where the response to a URI is composed.
BufferFor(uri) ==
    CASE uri = "/rebooting" -> "s_result_buf"
      [] uri \in ModemUris -> "s_modem_json_buf"
      [] uri \in {"/rtc-test", "/rtc-set-result"} -> "s_rtc_json_buf"
      [] uri = "/logs" -> "s_logs_buf"
      [] uri = "/result" /\ s_mode = "portal" /\ s_has_connect_result -> "s_result_buf"
      [] uri \in DetectUris /\ s_mode = "portal" -> "REDIRECT_BODY"
      [] OTHER -> "s_page_buf"

\* Not composed when it is opened: a constant, and the answer about the clock,
\* which httpd_post_finished composes right before; asked for by a client itself
\* it is served as it stands, which at first is empty.
Stands(uri) == BufferFor(uri) = "REDIRECT_BODY" \/ uri = "/rtc-set-result"
LenOf(b, request) == IF request # 0 \/ b = "REDIRECT_BODY" THEN Size[b] ELSE 0

\* The response is composed, and served from its buffer.
OpenPage(c, uri) ==
    LET b == BufferFor(uri) IN
    /\ uri # "/sd-csv"
    /\ \/ b # "REDIRECT_BODY" /\ composed' = [composed EXCEPT ![b] = requests']
       \/ Stands(uri) /\ UNCHANGED composed
    /\ s_serve_ptr' = b
    /\ files' = [files EXCEPT ![c] = [uri |-> uri, request |-> composed'[b],
                                      len |-> LenOf(b, composed'[b]), index |-> 0, buf |-> b]]
    /\ UNCHANGED <<s_serving_sd_csv, csvVars>>

\* The download: prepare_sd_csv_download, and no buffer.
OpenCsv(c, uri) ==
    /\ uri = "/sd-csv"
    /\ s_sd_csv_hdr' = requests'
    /\ s_sd_csv_data_len' = data_bytes
    /\ s_serving_sd_csv' = TRUE
    /\ files' = [files EXCEPT ![c] = [uri |-> uri, request |-> requests',
                                      len |-> HdrLen(data_bytes) + data_bytes,
                                      index |-> 0, buf |-> "none"]]
    /\ UNCHANGED <<composed, s_serve_ptr>>

\* fs_open_custom
Open(c, uri) ==
    /\ ~IsOpen(c)
    /\ requests < MaxRequests
    /\ requests' = requests + 1
    /\ OpenPage(c, uri) \/ OpenCsv(c, uri)
    /\ alone' = [d \in Conns |-> d = c /\ \A e \in Conns : ~IsOpen(e)]
    /\ UNCHANGED <<mainVars, data_bytes, legible, retries, got>>

-----------------------------------------------------------------------------
(* Reading. *)

\* (Mutant: a read is not cut to what remains.)
LeastUncut(a, b) == a
Least(a, b) == IF a < b THEN a ELSE b

\* Pieces i+1 to i+n of a buffer, as they are now.
FromBuffer(b, i, n) == [k \in 1..n |-> <<b, IF b \in Buffers THEN composed[b] ELSE 0, i + k>>]

\* The part of the header that a read of n pieces at i starts with, then the
\* log (datalog::read_data), up to what the card does not read.
FromCsv(i, n) ==
    LET hdr == HdrLen(s_sd_csv_data_len)
        head == IF i < hdr THEN Least(n, hdr - i) ELSE 0
        at == i + head - hdr
        end == Least(data_bytes, legible)
        left == IF i + head < hdr \/ at > end THEN 0 ELSE Least(n - head, end - at)
    IN  [k \in 1..head |-> <<"s_sd_csv_hdr_buf", s_sd_csv_hdr, i + k>>]
        \o [k \in 1..left |-> <<"log", 0, at + k>>]

\* fs_read_custom: from the log if anyone streams it, else from the buffer
\* opened last.
AtEof(f) == f.index >= f.len

\* The index moves by what was copied.  (Mutant: by what was asked for.)
AdvanceAsked(asked, pieces) == asked
Advance(asked, pieces) == Len(pieces)

\* What httpd is told to send.  (Mutant: what it asked for.)
ReturnedAsked(asked, pieces) == asked
Returned(asked, pieces) == Len(pieces)

\* httpd reads when the client has acknowledged what was sent, and when it
\* polls a connection on which nothing was.
Read(c) ==
    LET f == files[c]
        to_read == Least(MaxRead, f.len - f.index)
        pieces == IF s_serving_sd_csv THEN FromCsv(f.index, to_read)
                  ELSE FromBuffer(s_serve_ptr, f.index, to_read)
    IN  /\ IsOpen(c)
        /\ ~AtEof(f)
        /\ retries[c] < MaxRetries
        /\ got' = [got EXCEPT ![c] = @ \o pieces]
        /\ files' = [files EXCEPT ![c].index = @ + Advance(to_read, pieces)]
        /\ retries' = [retries EXCEPT ![c] = IF Returned(to_read, pieces) = 0 THEN @ + 1 ELSE 0]
        /\ UNCHANGED <<mainVars, composed, s_serve_ptr, s_serving_sd_csv, csvVars,
                       data_bytes, legible, requests, alone>>

\* fs_close_custom.  (Mutant: the log is still being streamed.)
CloseStreaming == UNCHANGED s_serving_sd_csv
CloseFile == s_serving_sd_csv' = FALSE

Close(c) ==
    /\ CloseFile
    /\ files' = [files EXCEPT ![c] = NoFile]
    /\ retries' = [retries EXCEPT ![c] = 0]
    /\ got' = [got EXCEPT ![c] = << >>]
    /\ alone' = [alone EXCEPT ![c] = FALSE]
    /\ UNCHANGED <<mainVars, composed, s_serve_ptr, csvVars, data_bytes, legible, requests>>

\* httpd closes the file it has read to the end, that of a connection on which
\* its polls got nothing too often, and, at any time, that of a connection its
\* client ended.
CloseAtEof(c) == IsOpen(c) /\ AtEof(files[c]) /\ Close(c)
GiveUp(c) == IsOpen(c) /\ retries[c] = MaxRetries /\ Close(c)
Abort(c) == IsOpen(c) /\ Close(c)

-----------------------------------------------------------------------------
(* What else happens between two callbacks. *)

\* The main loop logs a measurement.
Append_ ==
    /\ s_mode = "status"
    /\ data_bytes < MaxLog
    /\ data_bytes' = data_bytes + 1
    /\ UNCHANGED <<mainVars, composed, s_serve_ptr, s_serving_sd_csv, csvVars, legible,
                   files, retries, requests, got, alone>>

\* A sector of the card cannot be read, or can be read again.
CardChanges ==
    /\ legible' \in 0..MaxLog
    /\ UNCHANGED <<mainVars, composed, s_serve_ptr, s_serving_sd_csv, csvVars, data_bytes,
                   files, retries, requests, got, alone>>

\* start, start_status, set_connect_result: main changes what URIs mean.
SetMode ==
    /\ \/ s_mode' = "portal" /\ s_has_connect_result' = FALSE
       \/ s_mode' = "status" /\ UNCHANGED s_has_connect_result
       \/ UNCHANGED s_mode /\ s_has_connect_result' = TRUE
    /\ UNCHANGED <<composed, s_serve_ptr, s_serving_sd_csv, csvVars, data_bytes, legible,
                   files, retries, requests, got, alone>>

Httpd(c) ==
    \/ \E uri \in Uris : Open(c, uri)
    \/ Read(c)
    \/ CloseAtEof(c)
    \/ GiveUp(c)
    \/ Abort(c)

Next == (\E c \in Conns : Httpd(c)) \/ Append_ \/ CardChanges \/ SetMode

Spec == Init /\ [][Next]_vars

\* httpd serves a connection again and again: its client acknowledges, or its
\* poll timer runs.  Nothing is asked of the card.
LiveSpec == Spec /\ \A c \in Conns : WF_vars(Read(c) \/ CloseAtEof(c) \/ GiveUp(c))

-----------------------------------------------------------------------------
(* Properties. *)

\* Every variable has its type.
TypeOK ==
    /\ s_mode \in {"portal", "status"}
    /\ s_has_connect_result \in BOOLEAN
    /\ composed \in [Buffers -> 0..MaxRequests]
    /\ s_serve_ptr \in Buffers \cup {"none"}
    /\ s_serving_sd_csv \in BOOLEAN
    /\ legible \in 0..MaxLog
    /\ \A c \in Conns : files[c].index \in 0..files[c].len /\ retries[c] \in 0..MaxRetries

\* The pieces the response of a file is made of.
Expected(f) ==
    IF f.uri = "/sd-csv"
    THEN LET hdr == f.len - (CHOOSE n \in 0..f.len : HdrLen(n) + n = f.len)
         IN  [i \in 1..f.len |-> IF i <= hdr THEN <<"s_sd_csv_hdr_buf", f.request, i>>
                                             ELSE <<"log", 0, i - hdr>>]
    ELSE [i \in 1..f.len |-> <<f.buf, f.request, i>>]

\* What a client has received is the beginning of the response that was opened
\* for it (fs_open_custom, fs_read_custom).
Whole(c) == IsOpen(c) => got[c] = SubSeq(Expected(files[c]), 1, Len(got[c]))

\* A response is whole, whatever was opened, streamed, cut off and logged
\* before and during it, as long as no other response is open at any time while
\* it is.
WholeAlone == \A c \in Conns : alone[c] => Whole(c)

\* No response is longer than the length httpd was told, however responses mix:
\* the pieces received are those the file's index counts.
LengthHonoured ==
    \A c \in Conns : IsOpen(c) => Len(got[c]) = files[c].index /\ files[c].index <= files[c].len

\* A response ends: its file is closed, also when the card stops reading in the
\* middle of the log, or a page finds nothing to read while the log is streamed
\* on another connection.
ResponsesEnd == \A c \in Conns : IsOpen(c) ~> ~IsOpen(c)

-----------------------------------------------------------------------------
(* What a comment says and the code does not do. *)

\* "Track current serve buffer for fs_read_custom (httpd is single-threaded)"
\* (captive_portal.cpp): one pointer is enough for every response to be whole.
WholeResponse == \A c \in Conns : Whole(c)
=============================================================================
