----------------------------- MODULE HttpProofs -----------------------------
(***************************************************************************)
(* What holds of HttpFiles for every number of connections and requests,   *)
(* every set of URIs and all sizes of responses, reads and log.            *)
(***************************************************************************)
EXTENDS HttpFiles, TLAPS

Sources == Buffers \cup {"none", "s_sd_csv_hdr_buf", "log"}
Piece == Sources \X Nat \X Nat
OpenFiles == [uri : Uris, request : Nat, len : Nat, index : Nat,
              buf : Buffers \cup {"none"}]

Typed ==
    /\ s_mode \in {"portal", "status"}
    /\ s_has_connect_result \in BOOLEAN
    /\ composed \in [Buffers -> 0..MaxRequests]
    /\ s_serve_ptr \in Buffers \cup {"none"}
    /\ s_serving_sd_csv \in BOOLEAN
    /\ s_sd_csv_hdr \in Nat
    /\ s_sd_csv_data_len \in Nat
    /\ data_bytes \in Nat
    /\ legible \in 0..MaxLog
    /\ retries \in [Conns -> 0..MaxRetries]
    /\ requests \in 0..MaxRequests
    /\ files \in [Conns -> OpenFiles \cup {NoFile}]
    /\ got \in [Conns -> Seq(Piece)]
    /\ alone \in [Conns -> BOOLEAN]

\* The index counts the pieces received, also where no file is open.
Counted == \A c \in Conns : files[c].index <= files[c].len /\ Len(got[c]) = files[c].index

\* What the static variables say of a file no other one overlaps.
Served(f) ==
    IF f.uri = "/sd-csv"
    THEN /\ s_serving_sd_csv
         /\ s_sd_csv_hdr = f.request
         /\ s_sd_csv_data_len <= data_bytes
         /\ f.len = HdrLen(s_sd_csv_data_len) + s_sd_csv_data_len
    ELSE /\ ~s_serving_sd_csv
         /\ f.buf \in Buffers
         /\ s_serve_ptr = f.buf
         /\ composed[f.buf] = f.request

\* What a client has is what its response says, piece by piece.
Matches(c) == \A k \in 1..Len(got[c]) : got[c][k] = Expected(files[c])[k]

Alone ==
    /\ s_serving_sd_csv => \E c \in Conns : IsOpen(c)
    /\ \A c \in Conns : alone[c] =>
          /\ IsOpen(c)
          /\ \A d \in Conns : IsOpen(d) => d = c
          /\ Served(files[c])
          /\ Matches(c)

HttpInv == Typed /\ Counted /\ Alone

-----------------------------------------------------------------------------
(* Sequences of pieces. *)

LEMMA HdrLenType == ASSUME NEW n \in Nat PROVE HdrLen(n) \in {1, 2}
  BY DEF HdrLen

LEMMA LeastType ==
    ASSUME NEW a \in Nat, NEW b \in Nat
    PROVE  Least(a, b) \in Nat /\ Least(a, b) <= a /\ Least(a, b) <= b
  BY DEF Least

LEMMA PieceType ==
    ASSUME NEW a \in Sources, NEW b \in Nat, NEW c \in Nat
    PROVE  <<a, b, c>> \in Piece
  BY DEF Piece

LEMMA Joined ==
    ASSUME NEW S, NEW f \in Seq(S), NEW g \in Seq(S)
    PROVE  /\ f \o g \in Seq(S)
           /\ Len(f \o g) = Len(f) + Len(g)
           /\ \A k \in 1..Len(f) : (f \o g)[k] = f[k]
           /\ \A k \in Len(f) + 1..Len(f) + Len(g) : (f \o g)[k] = g[k - Len(f)]
  OBVIOUS

LEMMA FunctionIsSeq ==
    ASSUME NEW S, NEW n \in Nat, NEW f \in [1..n -> S]
    PROVE  f \in Seq(S) /\ Len(f) = n
  OBVIOUS

\* A read of a buffer has the pieces asked for.
LEMMA FromBufferPieces ==
    ASSUME Typed, NEW b \in Buffers \cup {"none"}, NEW i \in Nat, NEW n \in Nat
    PROVE  /\ FromBuffer(b, i, n) \in Seq(Piece)
           /\ Len(FromBuffer(b, i, n)) = n
           /\ b \in Buffers => \A k \in 1..n : FromBuffer(b, i, n)[k] = <<b, composed[b], i + k>>
  <1>1. \A k \in 1..n : <<b, IF b \in Buffers THEN composed[b] ELSE 0, i + k>> \in Piece
    <2> TAKE k \in 1..n
    <2>1. b \in Sources /\ i + k \in Nat
      BY DEF Sources
    <2>2. (IF b \in Buffers THEN composed[b] ELSE 0) \in Nat
      BY DEF Typed
    <2> QED BY <2>1, <2>2, PieceType
  <1>2. FromBuffer(b, i, n) \in [1..n -> Piece]
    BY <1>1 DEF FromBuffer
  <1>3. b \in Buffers => \A k \in 1..n : FromBuffer(b, i, n)[k] = <<b, composed[b], i + k>>
    BY DEF FromBuffer
  <1> QED
    BY <1>2, <1>3, FunctionIsSeq

\* A read of the download has at most the pieces asked for; they are the header
\* from where it stands, and after it the log.
LEMMA FromCsvPieces ==
    ASSUME Typed, NEW i \in Nat, NEW n \in Nat
    PROVE  /\ FromCsv(i, n) \in Seq(Piece)
           /\ Len(FromCsv(i, n)) <= n
           /\ \A k \in 1..Len(FromCsv(i, n)) :
                 FromCsv(i, n)[k] = IF i + k <= HdrLen(s_sd_csv_data_len)
                                    THEN <<"s_sd_csv_hdr_buf", s_sd_csv_hdr, i + k>>
                                    ELSE <<"log", 0, i + k - HdrLen(s_sd_csv_data_len)>>
  <1> DEFINE hdr == HdrLen(s_sd_csv_data_len)
             head == IF i < hdr THEN Least(n, hdr - i) ELSE 0
             at == i + head - hdr
             end == Least(data_bytes, legible)
             left == IF i + head < hdr \/ at > end THEN 0 ELSE Least(n - head, end - at)
             first == [k \in 1..head |-> <<"s_sd_csv_hdr_buf", s_sd_csv_hdr, i + k>>]
             rest == [k \in 1..left |-> <<"log", 0, at + k>>]
  <1>1. hdr \in Nat
    BY HdrLenType DEF Typed
  <1> HIDE DEF hdr
  <1>2. head \in Nat /\ head <= n /\ (head > 0 => i + head <= hdr)
    BY <1>1 DEF Least
  <1> HIDE DEF head
  <1>11. end \in Nat
    BY DEF Least, Typed
  <1> HIDE DEF end
  <1>3. left \in Nat /\ head + left <= n /\ (left > 0 => i + head >= hdr)
    BY <1>1, <1>2, <1>11 DEF Least
  <1> HIDE DEF left
  <1>4. first \in Seq(Piece) /\ Len(first) = head
    <2>0. "s_sd_csv_hdr_buf" \in Sources /\ s_sd_csv_hdr \in Nat
      BY DEF Typed, Sources
    <2>1. \A k \in 1..head : <<"s_sd_csv_hdr_buf", s_sd_csv_hdr, i + k>> \in Piece
      BY <1>2, <2>0, PieceType
    <2>2. first \in [1..head -> Piece]
      BY <2>1
    <2> QED BY <2>2, <1>2, FunctionIsSeq
  <1>5. rest \in Seq(Piece) /\ Len(rest) = left
    <2>1. \A k \in 1..left : at + k \in Nat
      BY <1>1, <1>2, <1>3
    <2>2. \A k \in 1..left : <<"log", 0, at + k>> \in Piece
      BY <2>1, PieceType DEF Sources
    <2>3. rest \in [1..left -> Piece]
      BY <2>2
    <2> QED BY <2>3, <1>3, FunctionIsSeq
  <1>6. FromCsv(i, n) = first \o rest
    BY DEF FromCsv, hdr, head, end, left
  <1>7. \A k \in 1..head : (first \o rest)[k] = <<"s_sd_csv_hdr_buf", s_sd_csv_hdr, i + k>>
    BY <1>4, <1>5, <1>2, <1>3
  <1>8. ASSUME NEW k \in head + 1..head + left
        PROVE  (first \o rest)[k] = <<"log", 0, i + k - hdr>>
    <2>1. (first \o rest)[k] = rest[k - head]
      BY <1>4, <1>5, <1>2, <1>3
    <2>2. k - head \in 1..left
      BY <1>2, <1>3
    <2>3. at + (k - head) = i + k - hdr
      BY <1>1, <1>2
    <2> QED BY <2>1, <2>2, <2>3
  <1>9. \A k \in 1..head + left :
            (first \o rest)[k] = IF i + k <= hdr THEN <<"s_sd_csv_hdr_buf", s_sd_csv_hdr, i + k>>
                                 ELSE <<"log", 0, i + k - hdr>>
    <2> TAKE k \in 1..head + left
    <2>1. CASE k <= head
      BY <2>1, <1>1, <1>2, <1>3, <1>7
    <2>2. CASE k > head
      BY <2>2, <1>1, <1>2, <1>3, <1>8
    <2> QED BY <2>1, <2>2, <1>2, <1>3
  <1> HIDE DEF first, rest
  <1>10. first \o rest \in Seq(Piece) /\ Len(first \o rest) = head + left
    BY <1>4, <1>5, Joined
  <1> QED
    BY <1>3, <1>6, <1>9, <1>10 DEF hdr

-----------------------------------------------------------------------------
(* The initial states. *)

LEMMA NoFileType == NoFile \notin OpenFiles
  BY HttpAssumption DEF NoFile, OpenFiles

LEMMA InitHttp == Init => HttpInv
  <1> SUFFICES ASSUME Init PROVE HttpInv
    OBVIOUS
  <1>1. Typed
    <2>1. composed \in [Buffers -> 0..MaxRequests] /\ requests \in 0..MaxRequests
      BY HttpAssumption DEF Init
    <2>2. files \in [Conns -> OpenFiles \cup {NoFile}]
      BY DEF Init
    <2>3. got \in [Conns -> Seq(Piece)]
      BY DEF Init
    <2>4. alone \in [Conns -> BOOLEAN]
      BY DEF Init
    <2>5. s_serve_ptr \in Buffers \cup {"none"} /\ s_mode \in {"portal", "status"}
      BY DEF Init
    <2>6. /\ s_sd_csv_hdr \in Nat /\ s_sd_csv_data_len \in Nat /\ data_bytes \in Nat
          /\ legible \in 0..MaxLog /\ retries \in [Conns -> 0..MaxRetries]
      BY HttpAssumption DEF Init
    <2>7. s_has_connect_result \in BOOLEAN /\ s_serving_sd_csv \in BOOLEAN
      BY DEF Init
    <2> QED BY <2>1, <2>2, <2>3, <2>4, <2>5, <2>6, <2>7 DEF Typed
  <1>2. Counted
    BY DEF Init, Counted, IsOpen, NoFile
  <1>3. Alone
    BY DEF Init, Alone, Buffers
  <1> QED BY <1>1, <1>2, <1>3 DEF HttpInv

-----------------------------------------------------------------------------
(* A file is opened. *)

LEMMA BufferType == ASSUME NEW uri PROVE BufferFor(uri) \in Buffers
  BY DEF BufferFor, Buffers

\* What opening f on a connection does, to a page or the download.
IsOpened(c, f) ==
    /\ f \in OpenFiles /\ f.index = 0
    /\ files' = [files EXCEPT ![c] = f]
    /\ composed' \in [Buffers -> 0..MaxRequests]
    /\ s_serve_ptr' \in Buffers \cup {"none"}
    /\ s_serving_sd_csv' \in BOOLEAN
    /\ s_sd_csv_hdr' \in Nat /\ s_sd_csv_data_len' \in Nat
    /\ ~s_serving_sd_csv => Served(f)'

LEMMA PageOpened ==
    ASSUME HttpInv, NEW c \in Conns, NEW uri \in Uris, OpenPage(c, uri),
           requests' \in 1..MaxRequests
    PROVE  \E f : IsOpened(c, f)
  <1>1. PICK b \in Buffers : b = BufferFor(uri)
    BY BufferType
  <1>0. PICK f : f = [uri |-> uri, request |-> composed'[b], len |-> LenOf(b, composed'[b]),
                      index |-> 0, buf |-> b]
    OBVIOUS
  <1>3. uri # "/sd-csv" /\ files' = [files EXCEPT ![c] = f] /\ s_serve_ptr' = b
    BY <1>0, <1>1 DEF OpenPage
  <1>4. UNCHANGED <<s_serving_sd_csv, csvVars>>
    BY DEF OpenPage
  <1>5. composed' = composed \/ composed' = [composed EXCEPT ![b] = requests']
    BY <1>1 DEF OpenPage
  <1>6. composed' \in [Buffers -> 0..MaxRequests]
    <2>1. composed \in [Buffers -> 0..MaxRequests] /\ requests' \in 0..MaxRequests
      BY DEF HttpInv, Typed
    <2>2. ASSUME NEW n \in 0..MaxRequests
          PROVE  [composed EXCEPT ![b] = n] \in [Buffers -> 0..MaxRequests]
      BY <2>1, <1>1, Zenon
    <2> QED BY <1>5, <2>1, <2>2
  <1>7. composed'[b] \in Nat /\ LenOf(b, composed'[b]) \in Nat
    BY <1>1, <1>6, HttpAssumption DEF LenOf
  <1>2. f \in OpenFiles /\ f.index = 0 /\ f.uri = uri /\ f.buf = b /\ f.request = composed'[b]
    BY <1>0, <1>1, <1>7 DEF OpenFiles
  <1>9. ~s_serving_sd_csv => Served(f)'
    BY <1>1, <1>2, <1>3, <1>4 DEF Served
  <1>10. IsOpened(c, f)
    BY <1>1, <1>2, <1>3, <1>4, <1>6, <1>9 DEF IsOpened, csvVars, HttpInv, Typed
  <1> QED BY <1>10

LEMMA CsvOpened ==
    ASSUME HttpInv, NEW c \in Conns, NEW uri \in Uris, OpenCsv(c, uri),
           requests' \in 1..MaxRequests, data_bytes' = data_bytes
    PROVE  \E f : IsOpened(c, f)
  <1>0. PICK f : f = [uri |-> uri, request |-> requests',
                      len |-> HdrLen(data_bytes) + data_bytes, index |-> 0, buf |-> "none"]
    OBVIOUS
  <1>1. data_bytes \in Nat /\ HdrLen(data_bytes) + data_bytes \in Nat
    BY DEF HttpInv, Typed, HdrLen
  <1>2. f \in OpenFiles /\ f.index = 0
    BY <1>0, <1>1 DEF OpenFiles
  <1>3. files' = [files EXCEPT ![c] = f] /\ s_sd_csv_hdr' = requests' /\ f.request = requests'
    BY <1>0 DEF OpenCsv
  <1>4. s_sd_csv_data_len' = data_bytes /\ s_serving_sd_csv' = TRUE /\ f.uri = "/sd-csv"
    BY <1>0 DEF OpenCsv
  <1>5. UNCHANGED <<composed, s_serve_ptr>>
    BY DEF OpenCsv
  <1>6. f.len = HdrLen(data_bytes) + data_bytes
    BY <1>0
  <1>7. HdrLen(s_sd_csv_data_len)' = HdrLen(data_bytes)
    BY <1>4 DEF HdrLen
  <1>8. Served(f)'
    BY <1>1, <1>3, <1>4, <1>6, <1>7 DEF Served
  <1>9. IsOpened(c, f)
    BY <1>1, <1>2, <1>3, <1>4, <1>5, <1>8 DEF IsOpened, HttpInv, Typed, Alone
  <1> QED BY <1>9

LEMMA OpenInv ==
    ASSUME HttpInv, NEW c \in Conns, NEW uri \in Uris, Open(c, uri)
    PROVE  HttpInv'
  <1>1. requests' \in 1..MaxRequests
    BY HttpAssumption DEF Open, HttpInv, Typed
  <1>2. UNCHANGED <<mainVars, data_bytes, legible, retries, got>>
    BY DEF Open
  <1>3. alone' = [d \in Conns |-> d = c /\ \A e \in Conns : ~IsOpen(e)]
    BY DEF Open
  <1>4. PICK f : IsOpened(c, f)
    BY <1>1, <1>2, PageOpened, CsvOpened DEF Open
  <1>5. /\ files' \in [Conns -> OpenFiles \cup {NoFile}]
        /\ files'[c] = f /\ f \in OpenFiles /\ f # NoFile
        /\ \A d \in Conns \ {c} : files'[d] = files[d]
    BY <1>4, NoFileType DEF IsOpened, HttpInv, Typed
  <1>6. /\ got' \in [Conns -> Seq(Piece)]
        /\ got'[c] = << >>
        /\ \A d \in Conns \ {c} : got'[d] = got[d]
    <2>1. ~IsOpen(c) BY DEF Open
    <2>2. Len(got[c]) = 0 /\ got[c] \in Seq(Piece)
      BY <2>1 DEF IsOpen, NoFile, HttpInv, Counted, Typed
    <2> QED BY <1>2, <2>2 DEF HttpInv, Typed
  <1>7. Typed'
    <2>1. /\ requests' \in 0..MaxRequests /\ alone' \in [Conns -> BOOLEAN]
          /\ retries' \in [Conns -> 0..MaxRetries]
      BY <1>1, <1>2, <1>3, HttpAssumption DEF HttpInv, Typed
    <2> QED
      BY <2>1, <1>2, <1>4, <1>5, <1>6 DEF IsOpened, HttpInv, Typed, mainVars
  <1>8. Counted'
    <2>1. f.index = 0 /\ f.len \in Nat
      BY <1>4 DEF IsOpened, OpenFiles
    <2> QED
      <3>1. \A d \in Conns : files[d].index <= files[d].len /\ Len(got[d]) = files[d].index
        BY DEF HttpInv, Counted
      <3>2. files'[c].index <= files'[c].len /\ Len(got'[c]) = files'[c].index
        BY <2>1, <1>5, <1>6
      <3>3. ASSUME NEW d \in Conns, d # c
            PROVE  files'[d].index <= files'[d].len /\ Len(got'[d]) = files'[d].index
        BY <3>1, <3>3, <1>5, <1>6 DEF IsOpen
      <3> QED BY <3>2, <3>3 DEF Counted
  <1>9. Alone'
    <2>1. IsOpen(c)'
      BY <1>4, <1>5 DEF IsOpened, IsOpen
    <2>2. ASSUME NEW d \in Conns, alone'[d]
          PROVE  d = c /\ (\A e \in Conns : ~IsOpen(e))
      BY <2>2, <1>3
    <2>3. ASSUME \A e \in Conns : ~IsOpen(e)
          PROVE  Served(files[c])' /\ \A e \in Conns : IsOpen(e)' => e = c
      BY <2>3, <1>4, <1>5 DEF IsOpened, IsOpen, HttpInv, Alone, Served
    <2>4. Matches(c)'
      BY <1>6 DEF Matches
    <2> QED
      BY <2>1, <2>2, <2>3, <2>4 DEF Alone
  <1> QED BY <1>7, <1>8, <1>9 DEF HttpInv

-----------------------------------------------------------------------------
(* A file is read. *)

\* The header tells how long the log was.
LEMMA HdrInjective ==
    ASSUME NEW m \in Nat, NEW n \in Nat, HdrLen(m) + m = HdrLen(n) + n
    PROVE  m = n
  BY DEF HdrLen

LEMMA ExpectedPage ==
    ASSUME NEW f \in OpenFiles, f.uri # "/sd-csv", NEW i \in 1..f.len
    PROVE  Expected(f)[i] = <<f.buf, f.request, i>>
  BY DEF Expected

LEMMA ExpectedCsv ==
    ASSUME NEW f \in OpenFiles, f.uri = "/sd-csv", NEW n \in Nat, f.len = HdrLen(n) + n,
           NEW i \in 1..f.len
    PROVE  Expected(f)[i] = IF i <= HdrLen(n) THEN <<"s_sd_csv_hdr_buf", f.request, i>>
                                              ELSE <<"log", 0, i - HdrLen(n)>>
  <1>1. n \in 0..f.len /\ f.len \in Nat
    BY HdrLenType DEF OpenFiles
  <1>2. n = CHOOSE m \in 0..f.len : HdrLen(m) + m = f.len
    BY <1>1, HdrInjective
  <1>3. PICK hdr : hdr = f.len - (CHOOSE m \in 0..f.len : HdrLen(m) + m = f.len)
    OBVIOUS
  <1>4. hdr = HdrLen(n)
    <2>1. hdr = f.len - n
      BY <1>2, <1>3
    <2>2. HdrLen(n) \in Nat
      BY HdrLenType
    <2> QED BY <2>1, <2>2, <1>1
  <1>5. Expected(f) = [j \in 1..f.len |-> IF j <= hdr THEN <<"s_sd_csv_hdr_buf", f.request, j>>
                                          ELSE <<"log", 0, j - hdr>>]
    BY <1>3 DEF Expected
  <1> QED
    BY <1>4, <1>5

LEMMA ExpectedSeq ==
    ASSUME NEW f \in OpenFiles
    PROVE  Expected(f) = [i \in 1..f.len |-> Expected(f)[i]]
  <1>1. CASE f.uri # "/sd-csv"
    BY <1>1 DEF Expected
  <1>2. CASE f.uri = "/sd-csv"
    <2>1. PICK hdr : hdr = f.len - (CHOOSE m \in 0..f.len : HdrLen(m) + m = f.len)
      OBVIOUS
    <2>2. Expected(f) = [j \in 1..f.len |-> IF j <= hdr THEN <<"s_sd_csv_hdr_buf", f.request, j>>
                                            ELSE <<"log", 0, j - hdr>>]
      BY <2>1, <1>2 DEF Expected
    <2> QED BY <2>2
  <1> QED BY <1>1, <1>2

\* What a read brings, whichever response it is taken from, fits.
LEMMA ReadPieces ==
    ASSUME HttpInv, NEW c \in Conns, Read(c)
    PROVE  \E pieces \in Seq(Piece) :
              /\ Len(pieces) <= files[c].len - files[c].index
              /\ got' = [got EXCEPT ![c] = @ \o pieces]
              /\ files' = [files EXCEPT ![c].index = @ + Len(pieces)]
              /\ retries' = [retries EXCEPT ![c] = IF Len(pieces) = 0 THEN @ + 1 ELSE 0]
              /\ alone[c] => \A k \in 1..Len(pieces) :
                                pieces[k] = Expected(files[c])[files[c].index + k]
  <1>1. PICK f : f = files[c]
    OBVIOUS
  <1>2. f \in OpenFiles /\ f.index \in Nat /\ f.len \in Nat /\ f.index < f.len
    BY <1>1 DEF Read, IsOpen, AtEof, HttpInv, Typed, OpenFiles
  <1>3. PICK n : n = Least(MaxRead, f.len - f.index)
    OBVIOUS
  <1>4. n \in Nat /\ n <= f.len - f.index
    BY <1>2, <1>3, HttpAssumption DEF Least
  <1>5. PICK pieces : pieces = IF s_serving_sd_csv THEN FromCsv(f.index, n)
                               ELSE FromBuffer(s_serve_ptr, f.index, n)
    OBVIOUS
  <1>6. pieces \in Seq(Piece) /\ Len(pieces) <= n
    <2>1. Typed /\ s_serve_ptr \in Buffers \cup {"none"}
      BY DEF HttpInv, Typed
    <2>2. CASE s_serving_sd_csv
      BY <2>1, <2>2, <1>2, <1>4, <1>5, FromCsvPieces
    <2>3. CASE ~s_serving_sd_csv
      <3>1. pieces = FromBuffer(s_serve_ptr, f.index, n)
        BY <2>3, <1>5
      <3>2. pieces \in Seq(Piece) /\ Len(pieces) = n
        BY <3>1, <2>1, <1>2, <1>4, FromBufferPieces
      <3> QED BY <3>2, <1>4
    <2> QED BY <2>2, <2>3
  <1>7. /\ got' = [got EXCEPT ![c] = @ \o pieces]
        /\ files' = [files EXCEPT ![c].index = @ + Len(pieces)]
        /\ retries' = [retries EXCEPT ![c] = IF Len(pieces) = 0 THEN @ + 1 ELSE 0]
    BY <1>1, <1>3, <1>5 DEF Read, Advance, Returned
  <1>8. ASSUME alone[c], NEW k \in 1..Len(pieces)
        PROVE  pieces[k] = Expected(f)[f.index + k]
    <2>1. Served(f)
      BY <1>1, <1>8 DEF HttpInv, Alone
    <2>2. f.index + k \in 1..f.len
      BY <1>2, <1>4, <1>6
    <2>3. CASE f.uri = "/sd-csv"
      <3>1. /\ s_serving_sd_csv /\ s_sd_csv_data_len \in Nat /\ s_sd_csv_hdr = f.request
            /\ f.len = HdrLen(s_sd_csv_data_len) + s_sd_csv_data_len
        BY <2>1, <2>3 DEF Served, HttpInv, Typed
      <3>2. pieces[k] = IF f.index + k <= HdrLen(s_sd_csv_data_len)
                        THEN <<"s_sd_csv_hdr_buf", s_sd_csv_hdr, f.index + k>>
                        ELSE <<"log", 0, f.index + k - HdrLen(s_sd_csv_data_len)>>
        <4>1. pieces = FromCsv(f.index, n) /\ Typed
          BY <3>1, <1>5 DEF HttpInv
        <4> QED BY <4>1, <1>2, <1>4, FromCsvPieces
      <3> QED
        <4>1. PICK i : i = f.index + k
          OBVIOUS
        <4>2. Expected(f)[i] = IF i <= HdrLen(s_sd_csv_data_len)
                               THEN <<"s_sd_csv_hdr_buf", f.request, i>>
                               ELSE <<"log", 0, i - HdrLen(s_sd_csv_data_len)>>
          BY <4>1, <3>1, <2>2, <2>3, <1>2, ExpectedCsv
        <4>3. CASE i <= HdrLen(s_sd_csv_data_len)
          <5>1. pieces[k] = <<"s_sd_csv_hdr_buf", f.request, i>>
            BY <4>1, <4>3, <3>1, <3>2
          <5>2. Expected(f)[i] = <<"s_sd_csv_hdr_buf", f.request, i>>
            BY <4>2, <4>3
          <5> QED BY <5>1, <5>2, <4>1
        <4>4. CASE ~(i <= HdrLen(s_sd_csv_data_len))
          <5>1. pieces[k] = <<"log", 0, i - HdrLen(s_sd_csv_data_len)>>
            <6>1. pieces[k] = <<"log", 0, f.index + k - HdrLen(s_sd_csv_data_len)>>
              BY <4>1, <4>4, <3>2, Zenon
            <6>2. HdrLen(s_sd_csv_data_len) \in Nat
              BY <3>1, HdrLenType
            <6> QED BY <6>1, <6>2, <4>1, <1>2
          <5>2. Expected(f)[i] = <<"log", 0, i - HdrLen(s_sd_csv_data_len)>>
            BY <4>2, <4>4
          <5> QED BY <5>1, <5>2, <4>1
        <4> QED BY <4>3, <4>4
    <2>4. CASE f.uri # "/sd-csv"
      <3>1. /\ ~s_serving_sd_csv /\ f.buf \in Buffers /\ s_serve_ptr = f.buf
            /\ composed[f.buf] = f.request
        BY <2>1, <2>4 DEF Served
      <3>2. pieces[k] = <<f.buf, composed[f.buf], f.index + k>>
        <4>1. pieces = FromBuffer(s_serve_ptr, f.index, n) /\ Typed
          BY <3>1, <1>5 DEF HttpInv
        <4>2. /\ Len(FromBuffer(s_serve_ptr, f.index, n)) = n
              /\ \A j \in 1..n : FromBuffer(s_serve_ptr, f.index, n)[j]
                                  = <<s_serve_ptr, composed[s_serve_ptr], f.index + j>>
          BY <4>1, <3>1, <1>2, <1>4, FromBufferPieces
        <4> QED BY <4>1, <4>2, <3>1
      <3> QED
        <4>1. Expected(f)[f.index + k] = <<f.buf, f.request, f.index + k>>
          BY <2>2, <2>4, <1>2, ExpectedPage
        <4> QED BY <4>1, <3>1, <3>2
    <2> QED BY <2>3, <2>4
  <1>9. Len(pieces) <= files[c].len - files[c].index
    BY <1>1, <1>2, <1>4, <1>6
  <1> QED BY <1>1, <1>6, <1>7, <1>8, <1>9

\* The response a file stands for does not depend on how far it was read.
LEMMA ExpectedStays ==
    ASSUME NEW f, NEW g, f.uri = g.uri, f.request = g.request, f.len = g.len, f.buf = g.buf
    PROVE  Expected(f) = Expected(g)
  BY DEF Expected

LEMMA ReadInv ==
    ASSUME HttpInv, NEW c \in Conns, Read(c)
    PROVE  HttpInv'
  <1>1. PICK pieces \in Seq(Piece) :
              /\ Len(pieces) <= files[c].len - files[c].index
              /\ got' = [got EXCEPT ![c] = @ \o pieces]
              /\ files' = [files EXCEPT ![c].index = @ + Len(pieces)]
              /\ retries' = [retries EXCEPT ![c] = IF Len(pieces) = 0 THEN @ + 1 ELSE 0]
              /\ alone[c] => \A k \in 1..Len(pieces) :
                                pieces[k] = Expected(files[c])[files[c].index + k]
    BY ReadPieces
  <1>2. UNCHANGED <<mainVars, composed, s_serve_ptr, s_serving_sd_csv, csvVars,
                    data_bytes, legible, requests, alone>>
    BY DEF Read
  <1>3. PICK f : f = files[c]
    OBVIOUS
  <1>4. /\ f \in OpenFiles /\ f.index \in Nat /\ f.len \in Nat
        /\ got[c] \in Seq(Piece) /\ Len(got[c]) = f.index /\ f.index <= f.len
    BY <1>3 DEF Read, IsOpen, HttpInv, Typed, Counted, OpenFiles
  <1>5. PICK g : g = [f EXCEPT !.index = f.index + Len(pieces)]
    OBVIOUS
  <1>6. /\ g \in OpenFiles /\ g # NoFile /\ g.index = f.index + Len(pieces) /\ g.len = f.len
        /\ g.uri = f.uri /\ g.request = f.request /\ g.buf = f.buf
    BY <1>4, <1>5, NoFileType DEF OpenFiles
  <1>7. files' = [files EXCEPT ![c] = g]
    BY <1>1, <1>3, <1>5 DEF HttpInv, Typed
  <1>8. /\ files' \in [Conns -> OpenFiles \cup {NoFile}] /\ files'[c] = g
        /\ \A d \in Conns \ {c} : files'[d] = files[d]
    BY <1>6, <1>7 DEF HttpInv, Typed
  <1>9. /\ got[c] \o pieces \in Seq(Piece)
        /\ Len(got[c] \o pieces) = f.index + Len(pieces)
        /\ \A k \in 1..f.index : (got[c] \o pieces)[k] = got[c][k]
        /\ \A k \in f.index + 1..f.index + Len(pieces) : (got[c] \o pieces)[k] = pieces[k - f.index]
    <2>1. /\ got[c] \o pieces \in Seq(Piece)
          /\ Len(got[c] \o pieces) = Len(got[c]) + Len(pieces)
          /\ \A k \in 1..Len(got[c]) : (got[c] \o pieces)[k] = got[c][k]
          /\ \A k \in Len(got[c]) + 1..Len(got[c]) + Len(pieces) :
                (got[c] \o pieces)[k] = pieces[k - Len(got[c])]
      BY <1>4, Joined
    <2> QED BY <2>1, <1>4
  <1>10. /\ got' \in [Conns -> Seq(Piece)] /\ got'[c] = got[c] \o pieces
         /\ \A d \in Conns \ {c} : got'[d] = got[d]
    BY <1>1, <1>9 DEF HttpInv, Typed
  <1>11. Typed'
    <2>1. retries' \in [Conns -> 0..MaxRetries]
      BY <1>1, HttpAssumption DEF Read, HttpInv, Typed
    <2> QED BY <2>1, <1>2, <1>8, <1>10 DEF HttpInv, Typed, mainVars, csvVars
  <1>12. Counted'
    <2>1. g.index <= g.len
      BY <1>1, <1>3, <1>4, <1>6
    <2>2. Len(got'[c]) = g.index
      BY <1>6, <1>9, <1>10
    <2> QED
      BY <2>1, <2>2, <1>8, <1>10 DEF HttpInv, Counted, IsOpen
  <1>13. Alone'
    <2>1. \A d \in Conns : IsOpen(d)' <=> IsOpen(d)
      BY <1>3, <1>4, <1>6, <1>8, NoFileType DEF IsOpen
    <2>2. ASSUME NEW d \in Conns, alone'[d]
          PROVE  d = c /\ alone[c]
      <3>1. alone[d] /\ IsOpen(c)
        BY <2>2, <1>2 DEF Read
      <3> QED BY <3>1 DEF HttpInv, Alone
    <2>3. ASSUME alone[c]
          PROVE  Served(files[c])'
      <3>1. Served(f)
        BY <2>3, <1>3 DEF HttpInv, Alone
      <3>2. HdrLen(s_sd_csv_data_len)' = HdrLen(s_sd_csv_data_len)
        BY <1>2 DEF csvVars, HdrLen
      <3> QED
        BY <3>1, <3>2, <1>2, <1>6, <1>8 DEF Served, csvVars
    <2>4. ASSUME alone[c]
          PROVE  Matches(c)'
      <3>1. \A k \in 1..f.index : got[c][k] = Expected(f)[k]
        BY <2>4, <1>3, <1>4 DEF HttpInv, Alone, Matches
      <3>2. \A k \in 1..Len(pieces) : pieces[k] = Expected(f)[f.index + k]
        BY <2>4, <1>1, <1>3
      <3>3. \A k \in 1..f.index + Len(pieces) : (got[c] \o pieces)[k] = Expected(f)[k]
        <4> TAKE k \in 1..f.index + Len(pieces)
        <4>1. CASE k <= f.index
          BY <4>1, <3>1, <1>4, <1>9
        <4>2. CASE k > f.index
          <5>1. k - f.index \in 1..Len(pieces) /\ k \in f.index + 1..f.index + Len(pieces)
            BY <4>2, <1>4
          <5>2. f.index + (k - f.index) = k
            BY <1>4
          <5> QED BY <5>1, <5>2, <3>2, <1>9
        <4> QED BY <4>1, <4>2, <1>4
      <3>4. Expected(g) = Expected(f)
        BY <1>6, ExpectedStays
      <3>5. Expected(files[c])' = Expected(g)
        BY <1>8 DEF Expected, HdrLen
      <3> QED
        BY <3>3, <3>4, <3>5, <1>9, <1>10 DEF Matches
    <2> QED
      BY <2>1, <2>2, <2>3, <2>4, <1>2 DEF HttpInv, Alone
  <1> QED BY <1>11, <1>12, <1>13 DEF HttpInv

-----------------------------------------------------------------------------
(* A file is closed, the log grows, main changes what URIs mean. *)

LEMMA CloseInv ==
    ASSUME HttpInv, NEW c \in Conns, IsOpen(c), Close(c)
    PROVE  HttpInv'
  <1>1. /\ files' = [files EXCEPT ![c] = NoFile] /\ alone' = [alone EXCEPT ![c] = FALSE]
        /\ s_serving_sd_csv' = FALSE
        /\ retries' = [retries EXCEPT ![c] = 0] /\ got' = [got EXCEPT ![c] = << >>]
        /\ UNCHANGED <<mainVars, composed, s_serve_ptr, csvVars, data_bytes, legible, requests>>
    BY DEF Close, CloseFile
  <1>2. /\ files' \in [Conns -> OpenFiles \cup {NoFile}] /\ files'[c] = NoFile
        /\ \A d \in Conns \ {c} : files'[d] = files[d]
    BY <1>1 DEF HttpInv, Typed
  <1>3. Typed'
    <2>1. << >> \in Seq(Piece) OBVIOUS
    <2>2. retries' \in [Conns -> 0..MaxRetries] /\ got' \in [Conns -> Seq(Piece)]
      BY <1>1, <2>1, HttpAssumption DEF HttpInv, Typed
    <2> QED BY <1>1, <1>2, <2>2 DEF HttpInv, Typed, mainVars, csvVars
  <1>4. Counted'
    <2>1. NoFile.index <= NoFile.len /\ NoFile.index = 0
      BY DEF NoFile
    <2>2. Len(got'[c]) = 0 /\ \A d \in Conns \ {c} : got'[d] = got[d]
      BY <1>1 DEF HttpInv, Typed
    <2> QED BY <2>1, <2>2, <1>2 DEF HttpInv, Counted
  <1>5. Alone'
    <2>1. \A d \in Conns : ~alone'[d]
      BY <1>1 DEF IsOpen, HttpInv, Typed, Alone, Close
    <2> QED BY <2>1, <1>1 DEF HttpInv, Alone
  <1> QED BY <1>3, <1>4, <1>5 DEF HttpInv

LEMMA RestInv ==
    ASSUME HttpInv, Append_ \/ CardChanges \/ SetMode \/ UNCHANGED vars
    PROVE  HttpInv'
  <1>1. UNCHANGED <<composed, s_serve_ptr, s_serving_sd_csv, csvVars, files, retries, requests,
                  got, alone>>
    BY DEF Append_, CardChanges, SetMode, vars
  <1>2. data_bytes' \in Nat /\ data_bytes' >= data_bytes /\ legible' \in 0..MaxLog
    BY DEF Append_, CardChanges, SetMode, vars, HttpInv, Typed
  <1>3. s_mode' \in {"portal", "status"} /\ s_has_connect_result' \in BOOLEAN
    BY DEF Append_, CardChanges, SetMode, vars, mainVars, HttpInv, Typed
  <1>4. Typed'
    BY <1>1, <1>2, <1>3 DEF HttpInv, Typed, csvVars
  <1>5. Counted'
    BY <1>1 DEF HttpInv, Counted, IsOpen
  <1>6. ASSUME NEW c \in Conns, alone[c]
        PROVE  IsOpen(c)' /\ (\A d \in Conns : IsOpen(d)' => d = c) /\ Served(files[c])' /\ Matches(c)'
    <2>1. IsOpen(c) /\ (\A d \in Conns : IsOpen(d) => d = c) /\ Served(files[c]) /\ Matches(c)
      BY <1>6 DEF HttpInv, Alone
    <2>2. IsOpen(c)' /\ (\A d \in Conns : IsOpen(d)' => d = c)
      BY <2>1, <1>1 DEF IsOpen
    <2>3. s_sd_csv_data_len \in Nat /\ data_bytes \in Nat /\ HdrLen(s_sd_csv_data_len)' = HdrLen(s_sd_csv_data_len)
      BY <1>1 DEF HttpInv, Typed, csvVars, HdrLen
    <2>4. Served(files[c])'
      BY <2>1, <2>3, <1>1, <1>2 DEF Served, csvVars
    <2>5. Matches(c)'
      <3>1. Expected(files[c])' = Expected(files[c])
        BY <1>1 DEF Expected, HdrLen
      <3> QED BY <2>1, <3>1, <1>1 DEF Matches
    <2> QED BY <2>2, <2>4, <2>5
  <1>7. Alone'
    BY <1>1, <1>6 DEF HttpInv, Alone, IsOpen
  <1> QED BY <1>4, <1>5, <1>7 DEF HttpInv

LEMMA NextHttp == HttpInv /\ [Next]_vars => HttpInv'
  <1> SUFFICES ASSUME HttpInv, [Next]_vars PROVE HttpInv'
    OBVIOUS
  <1>1. ASSUME NEW c \in Conns, Httpd(c)
        PROVE  HttpInv'
    BY <1>1, OpenInv, ReadInv, CloseInv DEF Httpd, CloseAtEof, GiveUp, Abort
  <1> QED BY <1>1, RestInv DEF Next

-----------------------------------------------------------------------------
(* What follows. *)

\* Every state that can be reached is inside the inductive invariant: the facts
\* about the static variables that the theorems below follow from.
THEOREM Reachable == Spec => []HttpInv
  <1> QED BY InitHttp, NextHttp, PTL DEF Spec

\* Every variable has its type, and no file is read past its end.
THEOREM TypeCorrect == Spec => []TypeOK
  <1>1. HttpInv => TypeOK
    <2> SUFFICES ASSUME HttpInv, NEW c \in Conns
                 PROVE  files[c].index \in 0..files[c].len /\ retries[c] \in 0..MaxRetries
      BY DEF HttpInv, Typed, TypeOK
    <2>1. files[c].index \in Nat /\ files[c].len \in Nat /\ retries[c] \in 0..MaxRetries
      BY DEF HttpInv, Typed, OpenFiles, NoFile
    <2> QED BY <2>1 DEF HttpInv, Counted
  <1> QED BY Reachable, <1>1, PTL

\* However responses mix, none is longer than httpd was told.
THEOREM Lengths == Spec => []LengthHonoured
  <1>1. HttpInv => LengthHonoured
    BY DEF HttpInv, Counted, LengthHonoured
  <1> QED BY Reachable, <1>1, PTL

\* A response that no other overlaps is whole, for every number of connections
\* and every size of buffers, reads and log.
THEOREM OneAtATime == Spec => []WholeAlone
  <1>1. ASSUME HttpInv, NEW c \in Conns, alone[c], IsOpen(c)
        PROVE  got[c] = SubSeq(Expected(files[c]), 1, Len(got[c]))
    <2>1. PICK f \in OpenFiles : f = files[c]
      BY <1>1 DEF HttpInv, Typed, IsOpen
    <2>2. /\ got[c] \in Seq(Piece) /\ Len(got[c]) <= f.len /\ f.len \in Nat
          /\ \A k \in 1..Len(got[c]) : got[c][k] = Expected(f)[k]
      BY <1>1, <2>1 DEF HttpInv, Typed, Counted, Alone, Matches, OpenFiles
    <2>3. PICK e : e = Expected(f)
      OBVIOUS
    <2>4. e = [i \in 1..f.len |-> e[i]]
      BY <2>3, ExpectedSeq
    <2>5. SubSeq(e, 1, Len(got[c])) = [i \in 1..Len(got[c]) |-> e[i]]
      BY <2>2, <2>4
    <2>6. got[c] = [i \in 1..Len(got[c]) |-> got[c][i]]
      BY <2>2
    <2> QED BY <2>1, <2>2, <2>3, <2>5, <2>6
  <1>2. HttpInv => WholeAlone
    BY <1>1 DEF WholeAlone, Whole
  <1> QED BY Reachable, <1>2, PTL
=============================================================================
