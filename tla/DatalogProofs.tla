--------------------------- MODULE DatalogProofs ----------------------------
(***************************************************************************)
(* What is proved of Datalog for every sector size, card, line and flush   *)
(* interval: type correctness (buffer and sector bounds included); that    *)
(* what a successful flush put on the card is never lost again; and, of a  *)
(* card that works and has room, that the log, its line count and its      *)
(* downloads are exact, and that it is a CsvLog.                           *)
(***************************************************************************)
EXTENDS Datalog, SequenceTheorems, FiniteSetTheorems, TLAPS

\* Arithmetic of whole sectors.  A multiple of the sector size is its own
\* sector base ...
LEMMA BaseOfWholeSectors ==
    ASSUME NEW S \in Nat \ {0}, NEW q \in Nat
    PROVE  ((q * S) \div S) * S = q * S
OBVIOUS

\* ... and a whole sector that fits after q sectors is one of the card's.
LEMMA SectorFits ==
    ASSUME NEW S \in Nat \ {0}, NEW q \in Nat, NEW N \in Nat, q * S + S <= N * S
    PROVE  /\ q + 1 \in 0..N
           /\ q * S + S = (q + 1) * S
<1>1. q * S + S = (q + 1) * S
  OBVIOUS
<1>2. q + 1 <= N
  <2>1. SUFFICES ASSUME q >= N PROVE FALSE
    OBVIOUS
  <2>2. q * S >= N * S
    BY <2>1
  <2> QED
    BY <2>2
<1> QED
  BY <1>1, <1>2

\* A sector that does not fit begins at the end of the card or after it.
LEMMA SectorDoesNotFit ==
    ASSUME NEW S \in Nat \ {0}, NEW q \in Nat, NEW N \in Nat, q * S + S > N * S
    PROVE  q * S >= N * S
<1>1. (q + 1) * S > N * S
  OBVIOUS
<1>2. ASSUME q + 1 <= N PROVE FALSE
  BY <1>1, <1>2
<1>3. q >= N
  BY <1>2
<1> QED
  BY <1>3
-----------------------------------------------------------------------------
(* Type correctness. *)

\* The base of the sector that follows the committed bytes of a header is the
\* number of committed bytes, which are on the card.
LEMMA WholeSectors ==
    ASSUME NEW hdr, hdr \in Headers, Sized(hdr)
    PROVE  /\ (hdr.data_bytes \div SectorSize) * SectorSize = hdr.data_bytes
           /\ CardBytes \in Nat
           /\ hdr.data_bytes \in 0..CardBytes
<1> USE SizesAssumption
<1>1. PICK q \in 0..Sectors : hdr.data_bytes = q * SectorSize
  BY DEF Sized
<1>2. q \in Nat /\ q <= Sectors
  BY <1>1
<1>3. (hdr.data_bytes \div SectorSize) * SectorSize = hdr.data_bytes
  BY <1>1, <1>2, BaseOfWholeSectors
<1>4. CardBytes \in Nat
  BY DEF CardBytes
<1>5. q * SectorSize <= Sectors * SectorSize
  BY <1>2
<1>6. hdr.data_bytes <= CardBytes
  BY <1>1, <1>5 DEF CardBytes
<1>7. hdr.data_bytes \in Nat
  BY DEF Headers
<1> QED
  BY <1>3, <1>4, <1>6, <1>7

\* The header of a new log is that of a log of whole sectors: none.
LEMMA FreshSized ==
    /\ FreshHeader \in Headers /\ Sized(FreshHeader)
    /\ ZeroHeader \in Headers /\ Sized(ZeroHeader)
    /\ Len(CsvHeader) \in Nat
<1> USE SizesAssumption, BytesAssumption
<1>1. Len(CsvHeader) \in Nat /\ Len(CsvHeader) <= SectorSize
  OBVIOUS
<1>2. 0 = 0 * SectorSize /\ 0 \in 0..Sectors
  OBVIOUS
<1>3. FreshHeader \in Headers /\ ZeroHeader \in Headers
  BY <1>1 DEF FreshHeader, ZeroHeader, Header, Headers
<1>4. Sized(FreshHeader)
  BY <1>1, <1>2 DEF FreshHeader, Header, Sized
<1>5. Sized(ZeroHeader)
  BY <1>2 DEF ZeroHeader, Header, Sized
<1> QED
  BY <1>1, <1>3, <1>4, <1>5

\* The two updates of a header that leave its committed bytes alone.
LEMMA HeaderUpdates ==
    ASSUME NEW hdr, hdr \in Headers, Sized(hdr)
    PROVE  /\ \A n \in 0..SectorSize :
                  LET h == [hdr EXCEPT !.buf_used = n]
                  IN  h \in Headers /\ Sized(h) /\ h.magic = hdr.magic
                      /\ h.data_bytes = hdr.data_bytes /\ h.buf_used = n
           /\ \A n \in Nat :
                  LET h == [hdr EXCEPT !.line_count = n]
                  IN  h \in Headers /\ Sized(h) /\ h.magic = hdr.magic
                      /\ h.data_bytes = hdr.data_bytes /\ h.buf_used = hdr.buf_used
<1> USE SizesAssumption
<1>1. ASSUME NEW n \in 0..SectorSize, NEW h, h = [hdr EXCEPT !.buf_used = n]
      PROVE  /\ h \in Headers /\ Sized(h) /\ h.magic = hdr.magic
             /\ h.data_bytes = hdr.data_bytes /\ h.buf_used = n
  <2>1. h \in Headers
    BY <1>1 DEF Headers
  <2>2. /\ h.data_bytes = hdr.data_bytes /\ h.buf_used = n
        /\ h.magic = hdr.magic
    BY <1>1 DEF Headers
  <2>3. Sized(h)
    BY <2>2 DEF Sized
  <2> QED
    BY <2>1, <2>2, <2>3
<1>2. ASSUME NEW n \in Nat, NEW h, h = [hdr EXCEPT !.line_count = n]
      PROVE  /\ h \in Headers /\ Sized(h) /\ h.magic = hdr.magic
             /\ h.data_bytes = hdr.data_bytes /\ h.buf_used = hdr.buf_used
  <2>1. h \in Headers
    BY <1>2 DEF Headers
  <2>2. /\ h.data_bytes = hdr.data_bytes /\ h.buf_used = hdr.buf_used
        /\ h.magic = hdr.magic
    BY <1>2 DEF Headers
  <2>3. Sized(h)
    BY <2>2 DEF Sized
  <2> QED
    BY <2>1, <2>2, <2>3
<1> QED
  BY <1>1, <1>2

\* The card keeps its type when the buffer is written to it.
LEMMA BufferOnCardType ==
    ASSUME TypeOK
    PROVE  /\ Base = s_hdr.data_bytes
           /\ BufferOnCard \in [1..CardBytes -> Bytes]
<1> USE SizesAssumption
<1>1. Base = s_hdr.data_bytes /\ CardBytes \in Nat
  BY WholeSectors DEF TypeOK, Base
<1>2. s_hdr.data_bytes \in Nat
  BY DEF TypeOK, Headers
<1>3. ASSUME NEW i \in 1..CardBytes, Base < i, i <= Base + SectorSize
      PROVE  s_buf[i - Base] \in Bytes
  <2>1. i - Base \in 1..SectorSize
    BY <1>1, <1>2, <1>3
  <2> QED
    BY <2>1 DEF TypeOK
<1>4. BufferOnCard \in [1..CardBytes -> Bytes]
  BY <1>3 DEF BufferOnCard, TypeOK
<1> QED
  BY <1>1, <1>4

\* Every byte of the log is a byte; the log is a sequence of bytes.
LEMMA ContentType ==
    ASSUME TypeOK
    PROVE  Total \in Nat /\ Content \in Seq(Bytes) /\ Len(Content) = Total
<1> USE SizesAssumption
<1>0. s_hdr \in Headers /\ Sized(s_hdr)
  BY DEF TypeOK
<1>a. s_hdr.data_bytes \in 0..CardBytes /\ CardBytes \in Nat
  BY <1>0, WholeSectors
<1>b. s_hdr.buf_used \in 0..SectorSize
  BY <1>0 DEF Headers, Sized
<1>c. card \in [1..CardBytes -> Bytes] /\ s_buf \in [1..SectorSize -> Bytes]
  BY DEF TypeOK
<1>1. /\ s_hdr.data_bytes \in 0..CardBytes /\ CardBytes \in Nat
      /\ s_hdr.buf_used \in 0..SectorSize
  BY <1>a, <1>b
<1>2. Total \in Nat
  BY <1>1 DEF Total
<1>3. ASSUME NEW i \in 1..Total PROVE ByteAt(i) \in Bytes
  <2>1. CASE i <= s_hdr.data_bytes
    <3>1. i \in 1..CardBytes
      BY <2>1, <1>1, <1>2
    <3>2. ByteAt(i) = card[i]
      BY <2>1 DEF ByteAt
    <3> QED
      BY <3>1, <3>2, <1>c
  <2>2. CASE i > s_hdr.data_bytes
    <3>1. i - s_hdr.data_bytes \in 1..SectorSize
      BY <2>2, <1>1, <1>2 DEF Total
    <3>2. ByteAt(i) = s_buf[i - s_hdr.data_bytes]
      BY <2>2, <1>1, <1>2 DEF ByteAt
    <3> QED
      BY <3>1, <3>2, <1>c
  <2> QED
    BY <2>1, <2>2, <1>1, <1>2
<1>4. Content \in [1..Total -> Bytes]
  BY <1>3 DEF Content
<1> QED
  BY <1>2, <1>4
\* The initial state is well typed.
LEMMA TypeInit == Init => TypeOK
<1> USE SizesAssumption, BytesAssumption, EnvironmentAssumption
<1>1. SUFFICES ASSUME Init PROVE TypeOK
  OBVIOUS
<1>2. cardHdr \in Headers /\ Sized(cardHdr) /\ s_hdr \in Headers /\ Sized(s_hdr)
  BY <1>1, FreshSized DEF Init
<1>3. card \in [1..CardBytes -> Bytes]
  BY <1>1 DEF Init
<1>4. s_buf \in [1..SectorSize -> Bytes]
  BY <1>1 DEF Init, ZeroBuffer
<1>5. log \in Seq(Bytes) /\ synced \in Seq(Bytes) /\ tmp \in Seq(Bytes) /\ written \in 0..Len(tmp)
  BY <1>1 DEF Init
<1>6. dl \in [open : BOOLEAN, len : Nat, pos : Nat, want : Nat,
              got : Seq(Bytes), snap : Seq(Bytes)]
  BY <1>1 DEF Init, NoDownload
<1>7. /\ s_ready \in BOOLEAN /\ clean \in BOOLEAN
      /\ pc = "boot" /\ after = "idle"
  BY <1>1 DEF Init
<1> QED
  BY <1>2, <1>3, <1>4, <1>5, <1>6, <1>7 DEF TypeOK

\* Every step keeps every variable in its type.
LEMMA TypeStep == TypeOK /\ [Next]_vars => TypeOK'
<1> USE SizesAssumption, BytesAssumption, EnvironmentAssumption
<1> SUFFICES ASSUME TypeOK, [Next]_vars PROVE TypeOK'
  OBVIOUS
<1> DEFINE Downloads == [open : BOOLEAN, len : Nat, pos : Nat, want : Nat,
                         got : Seq(Bytes), snap : Seq(Bytes)]
<1>t. /\ cardHdr \in Headers /\ Sized(cardHdr)
      /\ s_hdr \in Headers /\ Sized(s_hdr)
      /\ card \in [1..CardBytes -> Bytes]
      /\ s_buf \in [1..SectorSize -> Bytes]
  BY DEF TypeOK
<1>u. /\ tmp \in Seq(Bytes) /\ written \in 0..Len(tmp)
      /\ log \in Seq(Bytes) /\ synced \in Seq(Bytes)
  BY DEF TypeOK
<1>v. dl \in Downloads /\ NoDownload \in Downloads
  BY DEF TypeOK, NoDownload
<1>w. /\ s_hdr.data_bytes \in 0..CardBytes /\ CardBytes \in Nat
      /\ cardHdr.data_bytes \in 0..CardBytes
  BY <1>t, WholeSectors
<1>x. /\ s_hdr.buf_used \in 0..SectorSize
      /\ cardHdr.buf_used \in 0..SectorSize
      /\ s_hdr.line_count \in Nat
  BY <1>t DEF Headers, Sized
<1>y. ZeroBuffer \in [1..SectorSize -> Bytes]
  BY DEF ZeroBuffer
<1>z. BufferOnCard \in [1..CardBytes -> Bytes] /\ Base = s_hdr.data_bytes
  BY BufferOnCardType
<1>1. CASE BootWithoutCard
  BY <1>1 DEF TypeOK, BootWithoutCard, cardVars, appendVars, ghosts
<1>2. CASE BootResume
  <2>1. s_hdr' \in Headers /\ Sized(s_hdr')
    <3>1. s_hdr' = cardHdr \/ s_hdr' = [cardHdr EXCEPT !.buf_used = 0]
      BY <1>2 DEF BootResume, ResumedHeader
    <3>2. 0 \in 0..SectorSize
      OBVIOUS
    <3>3. CASE s_hdr' = cardHdr
      BY <3>3, <1>t
    <3>4. CASE s_hdr' = [cardHdr EXCEPT !.buf_used = 0]
      BY <3>2, <3>4, <1>t, HeaderUpdates
    <3> QED
      BY <3>1, <3>3, <3>4
  <2>2. s_buf' \in [1..SectorSize -> Bytes]
    <3>1. (cardHdr.data_bytes \div SectorSize) * SectorSize = cardHdr.data_bytes
      BY <1>t, WholeSectors
    <3>2. CASE s_buf' = ZeroBuffer
      BY <3>2, <1>y
    <3>3. CASE /\ cardHdr.data_bytes + SectorSize <= CardBytes
               /\ s_buf' = [i \in 1..SectorSize |-> card[cardHdr.data_bytes + i]]
      <4>1. \A i \in 1..SectorSize : cardHdr.data_bytes + i \in 1..CardBytes
        BY <3>3, <1>w
      <4> QED
        BY <3>3, <4>1, <1>t
    <3> QED
      BY <1>2, <3>1, <3>2, <3>3 DEF BootResume
  <2>3. s_ready' \in BOOLEAN /\ pc' = "idle"
    BY <1>2 DEF BootResume
  <2>4. UNCHANGED <<cardVars, after, appendVars, dl, ghosts>>
    BY <1>2 DEF BootResume
  <2> QED
    BY <2>1, <2>2, <2>3, <2>4 DEF TypeOK, cardVars, appendVars, ghosts, Sized
<1>3. CASE BootFresh
  <2>1. s_hdr' \in Headers /\ Sized(s_hdr') /\ cardHdr' \in Headers /\ Sized(cardHdr')
    BY <1>3, <1>t, FreshSized DEF BootFresh, WriteHeader
  <2>2. s_buf' \in [1..SectorSize -> Bytes]
    BY <1>3 DEF BootFresh, HeaderBuffer
  <2>3. log' \in Seq(Bytes) /\ s_ready' \in BOOLEAN /\ pc' = "idle"
    BY <1>3 DEF BootFresh
  <2>4. UNCHANGED <<card, after, appendVars, dl, clean, synced>>
    BY <1>3 DEF BootFresh
  <2> QED
    BY <2>1, <2>2, <2>3, <2>4 DEF TypeOK, appendVars, Sized
<1>4. ASSUME NEW line \in Lines, Append_(line) PROVE TypeOK'
  <2>1. tmp' \in Seq(Bytes) /\ written' \in 0..Len(tmp') /\ pc' = "copy"
    <3>1. line \in Seq(Bytes) /\ <<NL>> \in Seq(Bytes)
      OBVIOUS
    <3>2. line \o <<NL>> \in Seq(Bytes)
      BY <3>1
    <3>3. tmp' = line \o <<NL>> /\ written' = 0 /\ pc' = "copy"
      BY <1>4 DEF Append_
    <3> QED
      BY <3>2, <3>3
  <2>2. UNCHANGED <<cardVars, s_hdr, s_buf, s_ready, after, dl, ghosts>>
    BY <1>4 DEF Append_
  <2> QED
    BY <2>1, <2>2 DEF TypeOK, cardVars, ghosts
<1>5. CASE CopyChunk
  <2> DEFINE used == s_hdr.buf_used
             chunk == Least(Len(tmp) - written, SectorSize - used)
  <2>1. /\ used \in 0..SectorSize /\ written \in Nat /\ Len(tmp) \in Nat
        /\ written < Len(tmp)
    BY <1>5, <1>u, <1>x DEF CopyChunk
  <2>2. /\ chunk \in Nat /\ used + chunk <= SectorSize
        /\ written + chunk <= Len(tmp)
    BY <2>1 DEF Least
  <2>3. /\ s_hdr' = [s_hdr EXCEPT !.buf_used = used + chunk]
        /\ s_buf' = [i \in 1..SectorSize |->
                          IF used < i /\ i <= used + chunk
                          THEN tmp[written + i - used] ELSE s_buf[i]]
        /\ written' = written + chunk
        /\ pc' \in {"sector", "copy"}
    BY <1>5 DEF CopyChunk
  <2> HIDE DEF chunk, used
  <2>4. s_hdr' \in Headers /\ Sized(s_hdr')
    <3>1. used + chunk \in 0..SectorSize
      BY <2>1, <2>2
    <3> QED
      BY <2>3, <3>1, <1>t, HeaderUpdates
  <2>5. s_buf' \in [1..SectorSize -> Bytes]
    <3>1. ASSUME NEW i \in 1..SectorSize, used < i, i <= used + chunk
          PROVE  tmp[written + i - used] \in Bytes
      <4>1. written + i - used \in 1..Len(tmp)
        BY <2>1, <2>2, <3>1
      <4> QED
        BY <4>1, <1>u
    <3> QED
      BY <2>3, <3>1, <1>t
  <2>6. written' \in 0..Len(tmp)
    BY <2>1, <2>2, <2>3
  <2>7. UNCHANGED <<cardVars, s_ready, after, tmp, dl, ghosts>>
    BY <1>5 DEF CopyChunk
  <2> QED
    BY <2>3, <2>4, <2>5, <2>6, <2>7 DEF TypeOK, cardVars, ghosts, Sized
<1>6. CASE WriteSector
  <2>1. /\ card' = BufferOnCard /\ Base + SectorSize <= CardBytes
        /\ s_hdr' = [s_hdr EXCEPT !.data_bytes = @ + SectorSize, !.buf_used = 0]
        /\ s_buf' = ZeroBuffer
        /\ pc' = "copy"
    BY <1>6 DEF WriteSector, WriteBuffer
  <2>2. s_hdr' \in Headers /\ Sized(s_hdr')
    <3>1. PICK q \in 0..Sectors : s_hdr.data_bytes = q * SectorSize
      BY <1>t DEF Sized
    <3>2. q \in Nat /\ q * SectorSize + SectorSize <= Sectors * SectorSize
      BY <2>1, <3>1, <1>z DEF CardBytes
    <3>3. /\ q + 1 \in 0..Sectors
          /\ s_hdr.data_bytes + SectorSize = (q + 1) * SectorSize
      BY <3>1, <3>2, SectorFits
    <3>4. s_hdr.data_bytes + SectorSize \in Nat
      BY <1>w
    <3>5. /\ s_hdr'.data_bytes = s_hdr.data_bytes + SectorSize
          /\ s_hdr'.buf_used = 0 /\ s_hdr' \in Headers
      BY <2>1, <3>4, <1>t DEF Headers
    <3>6. s_hdr'.buf_used <= SectorSize
      BY <3>5
    <3> QED
      BY <3>3, <3>5, <3>6 DEF Sized
  <2>3. UNCHANGED <<cardHdr, s_ready, after, appendVars, dl, ghosts>>
    BY <1>6 DEF WriteSector
  <2> QED
    BY <2>1, <2>2, <2>3, <1>y, <1>z DEF TypeOK, appendVars, ghosts, Sized
<1>7. CASE WriteSectorFails
  <2>1. /\ card' \in [1..CardBytes -> Bytes] /\ tmp' = << >> /\ written' = 0
        /\ pc' = "idle"
    BY <1>7, <1>t, <1>z DEF WriteSectorFails, WriteBuffer
  <2>2. UNCHANGED <<cardHdr, s_hdr, s_buf, s_ready, after, dl, ghosts>>
    BY <1>7 DEF WriteSectorFails
  <2> QED
    BY <2>1, <2>2 DEF TypeOK, ghosts
<1>8. CASE AppendEnd
  <2>1. s_hdr' \in Headers /\ Sized(s_hdr')
    <3>1. s_hdr' = [s_hdr EXCEPT !.line_count = s_hdr.line_count + 1]
      BY <1>8 DEF AppendEnd
    <3>2. s_hdr.line_count + 1 \in Nat
      BY <1>x
    <3> QED
      BY <3>1, <3>2, <1>t, HeaderUpdates
  <2>2. /\ log' \in Seq(Bytes) /\ tmp' = << >> /\ written' = 0 /\ after' = "idle"
        /\ pc' \in {"flushData", "idle"}
    BY <1>8, <1>u DEF AppendEnd
  <2>3. UNCHANGED <<cardVars, s_buf, s_ready, dl, clean, synced>>
    BY <1>8 DEF AppendEnd
  <2>4. tmp' \in Seq(Bytes) /\ written' \in 0..Len(tmp')
    BY <2>2
  <2>5. pc' \in {"boot", "idle", "copy", "sector", "flushData", "flushHeader", "open", "read"}
    BY <2>2
  <2> QED
    BY <2>1, <2>2, <2>3, <2>4, <2>5, <1>t, <1>u, <1>v DEF TypeOK, cardVars, Sized
<1>9. CASE FlushData
  <2>1. /\ card' \in [1..CardBytes -> Bytes] /\ clean' \in BOOLEAN
        /\ pc' = "flushHeader"
    BY <1>9, <1>t, <1>z DEF FlushData, WriteBuffer
  <2>2. UNCHANGED <<cardHdr, s_hdr, s_buf, s_ready, after, appendVars, dl, log, synced>>
    BY <1>9 DEF FlushData
  <2> QED
    BY <2>1, <2>2 DEF TypeOK, appendVars
<1>10. CASE FlushHeader
  <2>1. cardHdr' \in Headers /\ Sized(cardHdr')
    BY <1>10, <1>t DEF FlushHeader, WriteHeader
  <2>2. synced' \in Seq(Bytes)
    BY <1>10, <1>u, ContentType DEF FlushHeader
  <2>3. pc' \in {"idle", "open", "read"}
    BY <1>10 DEF FlushHeader, TypeOK
  <2>4. UNCHANGED <<card, s_hdr, s_buf, s_ready, after, appendVars, dl, log, clean>>
    BY <1>10 DEF FlushHeader
  <2> QED
    BY <2>1, <2>2, <2>3, <2>4 DEF TypeOK, appendVars, Sized
<1>11. CASE OpenDownload
  BY <1>11 DEF TypeOK, OpenDownload, cardVars, appendVars, ghosts
<1>12. CASE FixLength
  <2>1. dl' \in Downloads /\ pc' = "idle"
    BY <1>12, <1>u, <1>v, ContentType DEF FixLength
  <2>2. UNCHANGED <<cardVars, s_hdr, s_buf, s_ready, after, appendVars, ghosts>>
    BY <1>12 DEF FixLength
  <2> QED
    BY <2>1, <2>2 DEF TypeOK, cardVars, appendVars, ghosts
<1>13. ASSUME NEW n \in Counts, RequestChunk(n) PROVE TypeOK'
  <2>1. n \in Nat /\ dl.len \in Nat /\ dl.pos \in Nat /\ Total \in Nat
    BY <1>v, ContentType
  <2>2. Least(Least(n, dl.len - dl.pos), Total - dl.pos) \in Nat
    BY <1>13, <2>1 DEF RequestChunk, Least
  <2>3. dl' \in Downloads /\ pc' = "flushData" /\ after' = "read"
    BY <1>13, <1>v, <2>2 DEF RequestChunk
  <2>4. UNCHANGED <<cardVars, s_hdr, s_buf, s_ready, appendVars, ghosts>>
    BY <1>13 DEF RequestChunk
  <2> QED
    BY <2>3, <2>4 DEF TypeOK, cardVars, appendVars, ghosts
<1>14. CASE ReadChunk
  <2>1. PICK k \in 0..dl.want :
            /\ dl.pos + k <= CardBytes
            /\ dl' = [dl EXCEPT !.pos = @ + k, !.want = 0,
                                !.got = @ \o [i \in 1..k |-> card[dl.pos + i]]]
    BY <1>14 DEF ReadChunk
  <2>2. dl.pos \in Nat /\ dl.want \in Nat /\ dl.got \in Seq(Bytes) /\ k \in Nat
    BY <1>v
  <2>a. dl.pos + k <= CardBytes
    BY <2>1
  <2>b. k \in Nat
    BY <2>2
  <2>3. \A i \in 1..k : dl.pos + i \in 1..CardBytes
    BY <2>a, <2>b, <2>2, <1>w
  <2>4. [i \in 1..k |-> card[dl.pos + i]] \in [1..k -> Bytes]
    BY <2>3, <1>t
  <2>5. dl.got \o [i \in 1..k |-> card[dl.pos + i]] \in Seq(Bytes)
    BY <2>2, <2>4
  <2>6. dl' \in Downloads
    <3>1. dl.pos + k \in Nat
      BY <2>2
    <3>2. dl' = [dl EXCEPT !.pos = dl.pos + k, !.want = 0,
                           !.got = dl.got \o [i \in 1..k |-> card[dl.pos + i]]]
      BY <2>1
    <3> DEFINE got == dl.got \o [i \in 1..k |-> card[dl.pos + i]]
    <3> HIDE DEF got
    <3> QED
      BY <3>1, <3>2, <2>5, <1>v DEF got
  <2>7. pc' = "idle" /\ UNCHANGED <<cardVars, s_hdr, s_buf, s_ready, after, appendVars, ghosts>>
    BY <1>14 DEF ReadChunk
  <2> QED
    BY <2>6, <2>7 DEF TypeOK, cardVars, appendVars, ghosts
<1>15. CASE CloseDownload
  BY <1>15, <1>v DEF TypeOK, CloseDownload, cardVars, appendVars, ghosts
<1>16. CASE Crash
  <2>1. log' \in Seq(Bytes)
    <3> DEFINE n == Least(Len(log), cardHdr.data_bytes + cardHdr.buf_used)
    <3>1. n \in 0..Len(log)
      BY <1>u, <1>w, <1>x DEF Least
    <3>2. log' = SubSeq(log, 1, n)
      BY <1>16 DEF Crash
    <3> HIDE DEF n
    <3> QED
      BY <3>1, <3>2, <1>u
  <2>2. s_hdr' \in Headers /\ Sized(s_hdr')
    BY <1>16, FreshSized DEF Crash
  <2>3. /\ s_buf' = ZeroBuffer /\ s_ready' = FALSE /\ pc' = "boot" /\ after' = "idle"
        /\ tmp' = << >> /\ written' = 0 /\ dl' = NoDownload /\ clean' = TRUE
        /\ UNCHANGED <<cardVars, synced>>
    BY <1>16 DEF Crash
  <2>4. dl' \in Downloads /\ s_buf' \in [1..SectorSize -> Bytes]
    BY <2>3, <1>v, <1>y
  <2>5. tmp' \in Seq(Bytes) /\ written' \in 0..Len(tmp')
    BY <2>3
  <2> QED
    BY <2>1, <2>2, <2>3, <2>4, <2>5 DEF TypeOK, cardVars, Sized
<1>17. CASE UNCHANGED vars
  BY <1>17 DEF TypeOK, vars, Sized
<1> QED
  BY <1>1, <1>2, <1>3, <1>4, <1>5, <1>6, <1>7, <1>8, <1>9, <1>10, <1>11, <1>12,
     <1>13, <1>14, <1>15, <1>16, <1>17 DEF Next, Boot, Step

\* TypeOK holds in every reachable state: in particular append, however lines
\* and sectors fall and whichever writes fail, never copies past the end of
\* s_buf, and committed bytes are whole sectors of the card.
THEOREM TypeCorrect == Spec => []TypeOK
<1>1. Init => TypeOK
  BY TypeInit
<1>2. TypeOK /\ [Next]_vars => TypeOK'
  BY TypeStep
<1> QED
  BY <1>1, <1>2, PTL DEF Spec
-----------------------------------------------------------------------------
(* Durability. *)

\* A step that leaves the card, the header and the buffer alone, and does not
\* go to a write, disturbs none of the parts of DurableInv.
LEMMA QuietStep ==
    ASSUME DurableInv,
           UNCHANGED <<cardHdr, card, s_hdr, s_buf, s_ready, synced>>,
           pc' \notin {"sector", "flushHeader"},
           pc' \notin {"boot", "idle"} => s_ready
    PROVE  Covered' /\ DataBeforeHeader' /\ Control' /\ DurablePrefix'
<1>1. Covered'
  BY DEF DurableInv, Covered
<1>2. DataBeforeHeader'
  BY DEF DataBeforeHeader
<1>3. Control'
  BY DEF DurableInv, Control
<1>4. DurablePrefix'
  BY DEF DurableInv, DurablePrefix, Total, ByteAt
<1> QED
  BY <1>1, <1>2, <1>3, <1>4

\* Writing the buffer to its sector, whether the write succeeds, fails, or
\* fails after reaching the card, leaves the synced bytes where they are.
LEMMA WriteKeepsSynced ==
    ASSUME DurableInv, s_ready, NEW ok \in BOOLEAN, WriteBuffer(ok)
    PROVE  /\ \A i \in 1..Len(synced) : card'[i] = synced[i]
           /\ \A i \in 1..CardBytes : i <= s_hdr.data_bytes => card'[i] = card[i]
<1> USE SizesAssumption
<1>1. TypeOK /\ Covered /\ DurablePrefix
  BY DEF DurableInv
<1>2. Base = s_hdr.data_bytes
  BY <1>1, BufferOnCardType
<1>3. s_hdr \in Headers /\ Sized(s_hdr) /\ synced \in Seq(Bytes)
  BY <1>1 DEF TypeOK
<1>4. s_hdr.data_bytes \in 0..CardBytes /\ CardBytes \in Nat
  BY <1>3, WholeSectors
<1>5. s_hdr.buf_used \in Nat /\ Len(synced) \in Nat /\ Len(synced) <= CardBytes
  BY <1>1, <1>3 DEF Headers, Covered
<1>6. card' = card \/ card' = BufferOnCard
  BY DEF WriteBuffer
<1>7. ASSUME NEW i \in 1..CardBytes, i <= s_hdr.data_bytes
      PROVE  card'[i] = card[i]
  BY <1>2, <1>4, <1>6, <1>7 DEF BufferOnCard
<1>8. ASSUME NEW i \in 1..Len(synced)
      PROVE  card'[i] = synced[i]
  <2>1. i \in 1..CardBytes
    BY <1>4, <1>5
  <2>2. card[i] = synced[i] /\ ByteAt(i) = synced[i]
    BY <1>1 DEF Covered, DurablePrefix
  <2>3. CASE i <= s_hdr.data_bytes
    BY <1>7, <2>1, <2>2, <2>3
  <2>4. CASE i > s_hdr.data_bytes
    <3>1. ByteAt(i) = s_buf[i - s_hdr.data_bytes]
      BY <2>4, <1>4 DEF ByteAt
    <3>2. BufferOnCard[i] = s_buf[i - s_hdr.data_bytes] \/ BufferOnCard[i] = card[i]
      BY <1>2, <2>1 DEF BufferOnCard
    <3> QED
      BY <3>1, <3>2, <1>6, <2>2
  <2> QED
    BY <2>3, <2>4, <1>4
<1> QED
  BY <1>7, <1>8

\* The initial state: a blank card has nothing to lose; on a formatted one the
\* column header is what is synced.
LEMMA DurableInit == Init => DurableInv
<1> USE SizesAssumption, BytesAssumption
<1> SUFFICES ASSUME Init PROVE DurableInv
  OBVIOUS
<1>1. TypeOK
  BY TypeInit
<1>2. ~s_ready /\ pc = "boot"
  BY DEF Init
<1>3. Covered
  <2>1. Len(CsvHeader) \in Nat /\ Len(CsvHeader) < SectorSize
    OBVIOUS
  <2>2. SectorSize <= CardBytes /\ CardBytes \in Nat
    BY DEF CardBytes
  <2>3. Len(CsvHeader) <= CardBytes
    BY <2>1, <2>2
  <2>4. CASE BlankCard
    BY <2>4, <2>2 DEF Init, Covered, ZeroHeader, Header
  <2>5. CASE ~BlankCard
    <3>1. /\ synced = CsvHeader /\ cardHdr = FreshHeader
          /\ card = [i \in 1..CardBytes |-> IF i <= Len(CsvHeader) THEN CsvHeader[i] ELSE Zero]
      BY <2>5 DEF Init
    <3>2. cardHdr.data_bytes = 0 /\ cardHdr.buf_used = Len(CsvHeader)
      BY <3>1 DEF FreshHeader, Header
    <3>3. \A i \in 1..Len(synced) : card[i] = synced[i]
      BY <3>1, <2>1, <2>2, <2>3
    <3> QED
      BY <3>1, <3>2, <3>3, <2>1, <2>3 DEF Covered
  <2> QED
    BY <2>4, <2>5
<1>4. Control
  <2>1. ~cardHdr.magic => synced = << >>
    BY DEF Init, FreshHeader, Header
  <2> QED
    BY <1>2, <2>1 DEF Control
<1> QED
  BY <1>1, <1>2, <1>3, <1>4 DEF DurableInv, DataBeforeHeader, DurablePrefix
\* Every step keeps DurableInv, provided a boot can read the card.
LEMMA DurableStep ==
    ASSUME "read" \notin MayFail
    PROVE  DurableInv /\ [Next]_vars => DurableInv'
<1> USE SizesAssumption, BytesAssumption
<1> SUFFICES ASSUME DurableInv, [Next]_vars
             PROVE  Covered' /\ DataBeforeHeader' /\ Control' /\ DurablePrefix'
  BY TypeStep DEF DurableInv
<1>t. TypeOK /\ Covered /\ DataBeforeHeader /\ Control /\ DurablePrefix
  BY DEF DurableInv
<1>u. /\ cardHdr \in Headers /\ Sized(cardHdr)
      /\ s_hdr \in Headers /\ Sized(s_hdr)
      /\ synced \in Seq(Bytes)
  BY <1>t DEF TypeOK
<1>v. /\ s_hdr.data_bytes \in 0..CardBytes /\ CardBytes \in Nat
      /\ cardHdr.data_bytes \in 0..CardBytes
  BY <1>u, WholeSectors
<1>w. /\ s_hdr.buf_used \in 0..SectorSize
      /\ cardHdr.buf_used \in 0..SectorSize
      /\ Len(synced) \in Nat
  BY <1>u DEF Headers, Sized
<1>x. Total \in Nat /\ Total = s_hdr.data_bytes + s_hdr.buf_used
  BY <1>v, <1>w DEF Total
<1>y. Base = s_hdr.data_bytes
  BY <1>t, BufferOnCardType
<1>1. CASE BootWithoutCard
  BY <1>1, QuietStep DEF BootWithoutCard, cardVars, ghosts
<1>2. CASE BootResume
  <2>1. /\ UNCHANGED <<cardHdr, card, synced>> /\ pc' = "idle" /\ s_ready'
        /\ cardHdr.magic
    BY <1>2 DEF BootResume, cardVars, ghosts
  <2>2. Covered' /\ DataBeforeHeader'
    BY <2>1, <1>t DEF Covered, DataBeforeHeader
  <2>3. (cardHdr.data_bytes \div SectorSize) * SectorSize = cardHdr.data_bytes
    BY <1>u, WholeSectors
  <2>4. \/ s_hdr' = cardHdr /\ cardHdr.buf_used = 0
        \/ /\ s_hdr' = cardHdr /\ cardHdr.data_bytes + SectorSize <= CardBytes
           /\ s_buf' = [i \in 1..SectorSize |-> card[cardHdr.data_bytes + i]]
        \/ /\ s_hdr' = [cardHdr EXCEPT !.buf_used = 0]
           /\ cardHdr.data_bytes + SectorSize > CardBytes
    BY <1>2, <2>3 DEF BootResume, ResumedHeader
  <2>5. CASE s_hdr' = cardHdr /\ cardHdr.buf_used = 0
    <3>1. Len(synced) <= s_hdr'.data_bytes
      BY <2>5, <1>t, <1>v, <1>w DEF Covered
    <3>2. \A i \in 1..Len(synced) : card'[i] = synced[i]
      BY <2>1, <1>t DEF Covered
    <3>3. DurablePrefix'
      BY <2>1, <2>5, <3>1, <3>2, <1>v, <1>w DEF DurablePrefix, Total, ByteAt
    <3> QED
      BY <2>1, <2>2, <2>5, <3>3 DEF Control
  <2>6. CASE /\ s_hdr' = cardHdr /\ cardHdr.data_bytes + SectorSize <= CardBytes
             /\ s_buf' = [i \in 1..SectorSize |-> card[cardHdr.data_bytes + i]]
    <3>1. Len(synced) <= cardHdr.data_bytes + cardHdr.buf_used
      BY <1>t DEF Covered
    <3>2. ASSUME NEW i \in 1..Len(synced) PROVE ByteAt(i)' = synced[i]
      <4>1. card[i] = synced[i]
        BY <1>t DEF Covered
      <4>2. CASE i <= cardHdr.data_bytes
        BY <2>1, <2>6, <4>1, <4>2 DEF ByteAt
      <4>3. CASE i > cardHdr.data_bytes
        <5>1. i - cardHdr.data_bytes \in 1..SectorSize
          BY <3>1, <4>3, <1>v, <1>w
        <5>2. s_buf'[i - cardHdr.data_bytes] = card[i]
          BY <2>6, <5>1, <1>v
        <5>3. ByteAt(i)' = s_buf'[i - cardHdr.data_bytes]
          BY <2>6, <4>3, <1>v DEF ByteAt
        <5> QED
          BY <5>2, <5>3, <4>1
      <4> QED
        BY <4>2, <4>3, <1>v
    <3>3. DurablePrefix'
      BY <2>1, <2>6, <3>1, <3>2 DEF DurablePrefix, Total
    <3> QED
      BY <2>1, <2>2, <2>6, <3>3 DEF Control
  <2>7. CASE /\ s_hdr' = [cardHdr EXCEPT !.buf_used = 0]
             /\ cardHdr.data_bytes + SectorSize > CardBytes
    <3>1. PICK q \in 0..Sectors : cardHdr.data_bytes = q * SectorSize
      BY <1>u DEF Sized
    <3>2. q \in Nat /\ q * SectorSize + SectorSize > Sectors * SectorSize
      BY <2>7, <3>1 DEF CardBytes
    <3>3. cardHdr.data_bytes >= CardBytes
      BY <3>1, <3>2, SectorDoesNotFit DEF CardBytes
    <3>4. /\ s_hdr'.data_bytes = cardHdr.data_bytes /\ s_hdr'.buf_used = 0
          /\ s_hdr'.magic
      <4>1. 0 \in 0..SectorSize
        OBVIOUS
      <4> QED
        BY <2>1, <2>7, <4>1, <1>u, HeaderUpdates
    <3>5. Len(synced) <= cardHdr.data_bytes
      BY <3>3, <1>t, <1>v, <1>w DEF Covered
    <3>6. \A i \in 1..Len(synced) : ByteAt(i)' = synced[i]
      BY <2>1, <3>4, <3>5, <1>t, <1>v, <1>w DEF Covered, ByteAt
    <3>7. DurablePrefix'
      BY <2>1, <3>4, <3>5, <3>6, <1>v DEF DurablePrefix, Total
    <3> QED
      BY <2>1, <2>2, <3>4, <3>7, <1>t DEF Control
  <2> QED
    BY <2>4, <2>5, <2>6, <2>7
<1>3. CASE BootFresh
  <2>1. /\ ~cardHdr.magic /\ UNCHANGED <<card, synced>> /\ pc' = "idle"
        /\ s_hdr' = FreshHeader
    BY <1>3 DEF BootFresh
  <2>2. synced = << >> /\ synced' = << >> /\ Len(synced') = 0
    BY <2>1, <1>t DEF Control
  <2>3. Covered'
    <3>1. cardHdr' \in Headers
      BY <1>3, <1>u, FreshSized DEF BootFresh, WriteHeader
    <3>2. cardHdr'.data_bytes + cardHdr'.buf_used >= 0
      BY <3>1 DEF Headers
    <3> QED
      BY <2>2, <3>2, <1>v DEF Covered
  <2>4. DurablePrefix'
    <3>1. Total' = Len(CsvHeader) /\ Len(CsvHeader) \in Nat
      BY <2>1, FreshSized DEF Total, FreshHeader, Header
    <3> QED
      BY <2>2, <3>1 DEF DurablePrefix
  <2>5. Control' /\ DataBeforeHeader'
    BY <2>1, <2>2 DEF Control, DataBeforeHeader, FreshHeader, Header
  <2> QED
    BY <2>3, <2>4, <2>5
<1>4. ASSUME NEW line \in Lines, Append_(line)
      PROVE  Covered' /\ DataBeforeHeader' /\ Control' /\ DurablePrefix'
  BY <1>4, QuietStep DEF Append_, cardVars, ghosts
<1>5. CASE CopyChunk
  <2> DEFINE used == s_hdr.buf_used
             chunk == Least(Len(tmp) - written, SectorSize - used)
  <2>1. /\ written \in Nat /\ Len(tmp) \in Nat /\ written < Len(tmp)
    BY <1>5, <1>t DEF CopyChunk, TypeOK
  <2>2. chunk \in Nat /\ used + chunk \in 0..SectorSize
    BY <2>1, <1>w DEF Least
  <2>3. /\ s_hdr' = [s_hdr EXCEPT !.buf_used = used + chunk]
        /\ s_buf' = [i \in 1..SectorSize |->
                          IF used < i /\ i <= used + chunk
                          THEN tmp[written + i - used] ELSE s_buf[i]]
        /\ pc' = IF used + chunk >= SectorSize THEN "sector" ELSE "copy"
        /\ UNCHANGED <<cardHdr, card, s_ready, synced>>
    BY <1>5 DEF CopyChunk, cardVars, ghosts
  <2>c. pc = "copy"
    BY <1>5 DEF CopyChunk
  <2> HIDE DEF chunk
  <2>4. /\ s_hdr'.data_bytes = s_hdr.data_bytes /\ s_hdr'.buf_used = used + chunk
        /\ s_hdr'.magic = s_hdr.magic
    BY <2>2, <2>3, <1>u, HeaderUpdates
  <2>5. Covered' /\ DataBeforeHeader'
    BY <2>3, <1>t DEF Covered, DataBeforeHeader
  <2>6. Control'
    BY <2>2, <2>3, <2>4, <2>c, <1>t, <1>w DEF Control
  <2>7. ASSUME NEW i \in 1..Total PROVE ByteAt(i)' = ByteAt(i)
    <3>1. CASE i <= s_hdr.data_bytes
      BY <2>3, <2>4, <3>1 DEF ByteAt
    <3>2. CASE i > s_hdr.data_bytes
      <4>1. /\ i - s_hdr.data_bytes \in 1..SectorSize
            /\ ~(used < i - s_hdr.data_bytes)
        BY <3>2, <1>v, <1>w, <1>x
      <4>2. s_buf'[i - s_hdr.data_bytes] = s_buf[i - s_hdr.data_bytes]
        BY <2>3, <4>1
      <4> QED
        BY <2>4, <3>2, <4>2, <1>v DEF ByteAt
    <3> QED
      BY <3>1, <3>2, <1>v, <1>x
  <2>8. DurablePrefix'
    <3>0. s_ready
      BY <2>c, <1>t DEF Control
    <3>1. s_ready /\ Len(synced) <= Total
      BY <3>0, <1>t DEF DurablePrefix
    <3>2. Total' \in Nat /\ Total <= Total'
      <4>1. Total' = s_hdr'.data_bytes + s_hdr'.buf_used
        BY DEF Total
      <4>2. Total' = s_hdr.data_bytes + (s_hdr.buf_used + chunk)
        BY <2>4, <4>1
      <4>3. s_hdr.data_bytes \in Nat /\ s_hdr.buf_used \in Nat /\ chunk \in Nat
        BY <2>2, <1>v, <1>w
      <4>4. Total = s_hdr.data_bytes + s_hdr.buf_used
        BY <1>x
      <4> QED
        BY ONLY <4>2, <4>3, <4>4
    <3>3. \A i \in 1..Len(synced) : ByteAt(i)' = synced[i]
      BY <2>7, <3>1, <1>t, <1>w, <1>x DEF DurablePrefix
    <3> QED
      BY <2>3, <3>1, <3>2, <3>3, <1>w, <1>x DEF DurablePrefix
  <2> QED
    BY <2>5, <2>6, <2>8
<1>6. CASE WriteSector
  <2>1. /\ pc = "sector" /\ s_ready /\ s_hdr.buf_used = SectorSize
        /\ WriteBuffer(TRUE) /\ pc' = "copy"
        /\ s_hdr' = [s_hdr EXCEPT !.data_bytes = @ + SectorSize, !.buf_used = 0]
        /\ UNCHANGED <<cardHdr, s_ready, synced>>
    BY <1>6, <1>t DEF WriteSector, ghosts, Control
  <2>2. \A i \in 1..Len(synced) : card'[i] = synced[i]
    BY <2>1, WriteKeepsSynced
  <2>3. s_hdr.data_bytes + SectorSize \in Nat
    BY <1>v
  <2>4. /\ s_hdr'.data_bytes = s_hdr.data_bytes + SectorSize
        /\ s_hdr'.buf_used = 0 /\ s_hdr'.magic = s_hdr.magic
    BY <2>1, <2>3, <1>u DEF Headers
  <2>5. Len(synced) <= s_hdr'.data_bytes
    BY <2>1, <2>4, <1>t, <1>x DEF DurablePrefix
  <2>6. \A i \in 1..Len(synced) : ByteAt(i)' = synced[i]
    BY <2>1, <2>2, <2>4, <2>5, <2>3, <1>w DEF ByteAt
  <2>7. DurablePrefix'
    BY <2>1, <2>4, <2>5, <2>6, <2>3 DEF DurablePrefix, Total
  <2>8. Covered' /\ DataBeforeHeader' /\ Control'
    BY <2>1, <2>2, <2>4, <1>t DEF Covered, DataBeforeHeader, Control
  <2> QED
    BY <2>7, <2>8
<1>7. CASE WriteSectorFails
  <2>1. /\ s_ready /\ WriteBuffer(FALSE) /\ pc' = "idle"
        /\ UNCHANGED <<cardHdr, s_hdr, s_buf, s_ready, synced>>
    BY <1>7, <1>t DEF WriteSectorFails, ghosts, Control
  <2>2. /\ \A i \in 1..Len(synced) : card'[i] = synced[i]
        /\ \A i \in 1..CardBytes : i <= s_hdr.data_bytes => card'[i] = card[i]
    BY <2>1, WriteKeepsSynced
  <2>3. Covered' /\ DataBeforeHeader' /\ Control'
    BY <2>1, <2>2, <1>t DEF Covered, DataBeforeHeader, Control
  <2>4. DurablePrefix'
    BY <2>1, <2>2, <1>t, <1>v, <1>w DEF DurablePrefix, Total, ByteAt
  <2> QED
    BY <2>3, <2>4
<1>8. CASE AppendEnd
  <2>1. /\ s_hdr' = [s_hdr EXCEPT !.line_count = s_hdr.line_count + 1]
        /\ pc = "copy" /\ pc' \in {"flushData", "idle"}
        /\ UNCHANGED <<cardHdr, card, s_buf, s_ready, synced>>
    BY <1>8 DEF AppendEnd, cardVars
  <2>2. s_hdr.line_count + 1 \in Nat
    BY <1>u DEF Headers
  <2>3. /\ s_hdr'.data_bytes = s_hdr.data_bytes /\ s_hdr'.buf_used = s_hdr.buf_used
        /\ s_hdr'.magic = s_hdr.magic
    BY <2>1, <2>2, <1>u, HeaderUpdates
  <2>4. Covered' /\ DataBeforeHeader' /\ Control'
    BY <2>1, <2>3, <1>t DEF Covered, DataBeforeHeader, Control
  <2>5. DurablePrefix'
    BY <2>1, <2>3, <1>t DEF DurablePrefix, Total, ByteAt
  <2> QED
    BY <2>4, <2>5
<1>9. CASE FlushData
  <2>1. /\ s_ready /\ pc' = "flushHeader"
        /\ UNCHANGED <<cardHdr, s_hdr, s_buf, s_ready, synced>>
    BY <1>9, <1>t DEF FlushData, Control
  <2>2. CASE s_hdr.buf_used = 0
    <3>1. UNCHANGED card /\ Total = s_hdr.data_bytes
      BY <1>9, <2>2, <1>v, <1>w, <1>x DEF FlushData, Pending
    <3>2. Covered' /\ Control'
      BY <2>1, <3>1, <1>t DEF Covered, Control
    <3>3. DurablePrefix'
      BY <2>1, <3>1, <1>t DEF DurablePrefix, Total, ByteAt
    <3>4. DataBeforeHeader'
      BY <2>1, <2>2, <3>1, <1>v DEF DataBeforeHeader, Total, ByteAt
    <3> QED
      BY <3>2, <3>3, <3>4
  <2>3. CASE s_hdr.buf_used > 0
    <3>1. PICK ok \in BOOLEAN : WriteBuffer(ok) /\ clean' = ok
      BY <1>9, <2>3 DEF FlushData, Pending
    <3>2. /\ \A i \in 1..Len(synced) : card'[i] = synced[i]
          /\ \A i \in 1..CardBytes : i <= s_hdr.data_bytes => card'[i] = card[i]
      BY <2>1, <3>1, WriteKeepsSynced
    <3>3. Covered' /\ Control'
      BY <2>1, <3>2, <1>t DEF Covered, Control
    <3>4. DurablePrefix'
      BY <2>1, <3>2, <1>t, <1>v, <1>w DEF DurablePrefix, Total, ByteAt
    <3>5. CASE ok = FALSE
      BY <3>1, <3>3, <3>4, <3>5 DEF DataBeforeHeader
    <3>6. CASE ok = TRUE
      <4>1. s_hdr.data_bytes + SectorSize <= CardBytes /\ card' = BufferOnCard
        BY <3>1, <3>6, <1>y DEF WriteBuffer
      <4>2. Total' = Total /\ Total <= CardBytes
        BY <2>1, <4>1, <1>v, <1>w, <1>x DEF Total
      <4>3. ASSUME NEW i \in 1..Total PROVE card'[i] = ByteAt(i)'
        <5>1. CASE i <= s_hdr.data_bytes
          BY <2>1, <5>1 DEF ByteAt
        <5>2. CASE i > s_hdr.data_bytes
          <6>1. i \in 1..CardBytes /\ i <= s_hdr.data_bytes + SectorSize
            BY <4>2, <1>v, <1>w, <1>x
          <6>2. card'[i] = s_buf[i - s_hdr.data_bytes]
            BY <4>1, <5>2, <6>1, <1>y DEF BufferOnCard
          <6> QED
            BY <2>1, <5>2, <6>2, <1>v DEF ByteAt
        <5> QED
          BY <5>1, <5>2, <1>v, <1>x
      <4>4. DataBeforeHeader'
        BY <4>2, <4>3 DEF DataBeforeHeader
      <4> QED
        BY <3>3, <3>4, <4>4
    <3> QED
      BY <3>5, <3>6
  <2> QED
    BY <2>2, <2>3, <1>w
<1>10. CASE FlushHeader
  <2>1. /\ s_ready /\ pc = "flushHeader" /\ pc' \in {"idle", "open", "read"}
        /\ UNCHANGED <<card, s_hdr, s_buf, s_ready>>
    BY <1>10, <1>t DEF FlushHeader, Control, TypeOK
  <2>2. PICK ok \in BOOLEAN : /\ WriteHeader(ok, s_hdr)
                              /\ synced' = IF ok /\ clean THEN Content ELSE synced
    BY <1>10 DEF FlushHeader
  <2>3. s_hdr.magic /\ (cardHdr' = s_hdr \/ cardHdr' = cardHdr)
    BY <2>1, <2>2, <1>t DEF WriteHeader, Control
  <2>4. DataBeforeHeader'
    BY <2>1 DEF DataBeforeHeader
  <2>5. CASE synced' = synced
    <3>1. Len(synced) <= Total
      BY <2>1, <1>t DEF DurablePrefix
    <3>2. Covered'
      BY <2>1, <2>3, <2>5, <3>1, <1>t, <1>x DEF Covered
    <3>3. Control'
      BY <2>1, <2>3, <2>5, <1>t DEF Control
    <3>4. DurablePrefix'
      BY <2>1, <2>5, <1>t DEF DurablePrefix, Total, ByteAt
    <3> QED
      BY <2>4, <3>2, <3>3, <3>4
  <2>6. CASE ok = TRUE /\ clean /\ synced' = Content
    <3>1. cardHdr' = s_hdr
      BY <2>2, <2>6 DEF WriteHeader
    <3>2. Len(synced') = Total /\ \A i \in 1..Total : synced'[i] = ByteAt(i)
      BY <2>6, <1>t, ContentType DEF Content
    <3>3. Total <= CardBytes /\ \A i \in 1..Total : card[i] = ByteAt(i)
      BY <2>1, <2>6, <1>t DEF DataBeforeHeader
    <3>4. Covered'
      BY <2>1, <3>1, <3>2, <3>3, <1>x DEF Covered
    <3>5. Control'
      BY <2>1, <2>3, <3>1, <1>t DEF Control
    <3>6. DurablePrefix'
      <4>1. Total' = Total /\ \A i \in 1..Total : ByteAt(i)' = ByteAt(i)
        BY <2>1 DEF Total, ByteAt
      <4> QED
        BY <3>2, <4>1, <1>x DEF DurablePrefix
    <3> QED
      BY <2>4, <3>4, <3>5, <3>6
  <2> QED
    BY <2>2, <2>5, <2>6
<1>11. CASE OpenDownload
  BY <1>11, QuietStep DEF OpenDownload, cardVars, ghosts
<1>12. CASE FixLength
  BY <1>12, QuietStep DEF FixLength, cardVars, ghosts
<1>13. ASSUME NEW n \in Counts, RequestChunk(n)
       PROVE  Covered' /\ DataBeforeHeader' /\ Control' /\ DurablePrefix'
  BY <1>13, QuietStep DEF RequestChunk, cardVars, ghosts
<1>14. CASE ReadChunk
  BY <1>14, QuietStep DEF ReadChunk, cardVars, ghosts
<1>15. CASE CloseDownload
  BY <1>15, QuietStep DEF CloseDownload, cardVars, ghosts
<1>16. CASE Crash
  <2>1. UNCHANGED <<cardHdr, card, synced>> /\ ~s_ready' /\ pc' = "boot"
    BY <1>16 DEF Crash, cardVars
  <2>2. Covered' /\ DataBeforeHeader' /\ Control' /\ DurablePrefix'
    BY <2>1, <1>t DEF Covered, DataBeforeHeader, Control, DurablePrefix
  <2> QED
    BY <2>2
<1>17. CASE UNCHANGED vars
  <2>1. /\ UNCHANGED <<cardHdr, card, s_hdr, s_buf, s_ready, synced, pc, clean>>
    BY <1>17 DEF vars
  <2>2. Covered' /\ Control'
    BY <2>1, <1>t DEF Covered, Control
  <2>3. DataBeforeHeader' /\ DurablePrefix'
    BY <2>1, <1>t DEF DataBeforeHeader, DurablePrefix, Total, ByteAt
  <2> QED
    BY <2>2, <2>3
<1> QED
  BY <1>1, <1>2, <1>3, <1>4, <1>5, <1>6, <1>7, <1>8, <1>9, <1>10, <1>11, <1>12,
     <1>13, <1>14, <1>15, <1>16, <1>17 DEF Next, Boot, Step

\* What a flush has put on the card is there for ever: after any number of
\* crashes, restarts, failing writes and a full card, the log begins with the
\* bytes of the last flush whose two writes succeeded, provided a boot is able
\* to read the card.
THEOREM Durability ==
    ASSUME "read" \notin MayFail
    PROVE  Spec => []DurablePrefix
<1>1. Init => DurableInv
  BY DurableInit
<1>2. DurableInv /\ [Next]_vars => DurableInv'
  BY DurableStep
<1>3. DurableInv => DurablePrefix
  BY DEF DurableInv
<1> QED
  BY <1>1, <1>2, <1>3, PTL DEF Spec

-----------------------------------------------------------------------------
(* A sound card, with room: the log is exact. *)

\* No transfer fails, the log is there, and it does not fill the card.
SoundCard ==
    /\ MayFail = {}
    /\ ~BlankCard
    /\ Len(CsvHeader) + MaxLines * LineMax + SectorSize <= CardBytes

Flushes == {"flushData", "flushHeader"}
Appending == pc \in {"copy", "sector"}
Durable == cardHdr.data_bytes + cardHdr.buf_used
Multiples == {q * FlushEvery : q \in Nat}

\* Where a call stands, and the line it appends.
Place ==
    /\ cardHdr.magic /\ (s_ready => s_hdr.magic)
    /\ pc = "boot" => ~s_ready
    /\ pc \notin {"boot", "idle"} => s_ready
    /\ pc = "sector" => s_hdr.buf_used = SectorSize
    /\ ~Appending => tmp = << >> /\ written = 0
    /\ Appending => /\ \E line \in Lines : tmp = line \o <<NL>>
                    /\ Len(tmp) <= LineMax
                    /\ s_hdr.line_count < MaxLines

\* RAM and card together hold the log, and as much of the line as was copied.
InRam ==
    s_ready =>
        /\ Total = Len(log) + written
        /\ \A i \in 1..Len(log) : ByteAt(i) = log[i]
        /\ \A i \in Len(log) + 1..Total : ByteAt(i) = tmp[i - Len(log)]
        /\ Len(log) <= Len(CsvHeader) + s_hdr.line_count * LineMax
        /\ s_hdr.line_count <= MaxLines

\* What a restart finds is how the log began.
OnDisk ==
    /\ Durable <= Len(log)
    /\ ~s_ready => Durable = Len(log)
    /\ \A i \in 1..Durable : card[i] = log[i]
    /\ Durable <= Len(CsvHeader) + cardHdr.line_count * LineMax
    /\ cardHdr.line_count <= MaxLines

\* The two writes of a flush.
Flushing ==
    /\ pc = "flushHeader" => \A i \in 1..Total : card[i] = ByteAt(i)
    /\ pc \in {"open", "read"} => cardHdr = s_hdr

\* What was promised to a download is how the log began, and what it received
\* how that begins.
Downloading ==
    /\ pc = "read" \/ (pc \in Flushes /\ after = "read") =>
          dl.open /\ dl.pos + dl.want <= Len(dl.snap)
    /\ dl.open =>
          /\ dl.len = Len(dl.snap) /\ Len(dl.snap) <= Len(log)
          /\ \A i \in 1..Len(dl.snap) : dl.snap[i] = log[i]
          /\ dl.pos = Len(dl.got) /\ dl.pos <= dl.len
          /\ \A i \in 1..Len(dl.got) : dl.got[i] = dl.snap[i]

\* Lines are counted on the card and in RAM between the same two flushes.
Interval ==
    \E m \in Multiples :
        /\ m <= cardHdr.line_count /\ cardHdr.line_count < m + FlushEvery
        /\ s_ready =>
              /\ cardHdr.line_count <= s_hdr.line_count
              /\ s_hdr.line_count <= m + FlushEvery
              /\ pc \notin Flushes => s_hdr.line_count < m + FlushEvery

SoundInv ==
    TypeOK /\ Place /\ InRam /\ OnDisk /\ Flushing /\ Downloading /\ Interval

\* The lines of a text, by their ends.
Newlines(text) == {i \in 1..Len(text) : text[i] = NL}

\* The column header is one line, and what is appended is one line each.
PlainLines ==
    /\ Cardinality(Newlines(CsvHeader)) = 1
    /\ \A line \in Lines : Newlines(line) = {}

\* RAM and card each count the lines of what they hold.
Counted ==
    /\ s_ready => Cardinality(Newlines(log)) = 1 + s_hdr.line_count
    /\ Cardinality(Newlines(OnCard)) = 1 + cardHdr.line_count

-----------------------------------------------------------------------------
(* Sizes. *)

\* Where the numbers of the log lie.
LEMMA Numbers ==
    ASSUME TypeOK
    PROVE  /\ s_hdr.data_bytes \in 0..CardBytes /\ s_hdr.buf_used \in 0..SectorSize
           /\ cardHdr.data_bytes \in 0..CardBytes /\ cardHdr.buf_used \in 0..SectorSize
           /\ s_hdr.line_count \in Nat /\ cardHdr.line_count \in Nat
           /\ CardBytes \in Nat /\ SectorSize \in Nat /\ SectorSize > 0
           /\ Total \in Nat /\ Total = s_hdr.data_bytes + s_hdr.buf_used
           /\ Durable \in Nat
           /\ Len(log) \in Nat /\ Len(tmp) \in Nat /\ written \in 0..Len(tmp)
           /\ Base = s_hdr.data_bytes
<1> USE SizesAssumption
<1>1. /\ s_hdr \in Headers /\ Sized(s_hdr) /\ cardHdr \in Headers /\ Sized(cardHdr)
      /\ log \in Seq(Bytes) /\ tmp \in Seq(Bytes) /\ written \in 0..Len(tmp)
  BY DEF TypeOK
<1>2. s_hdr.data_bytes \in 0..CardBytes /\ cardHdr.data_bytes \in 0..CardBytes /\ CardBytes \in Nat
  BY <1>1, WholeSectors
<1>3. /\ s_hdr.buf_used \in 0..SectorSize /\ cardHdr.buf_used \in 0..SectorSize
      /\ s_hdr.line_count \in Nat /\ cardHdr.line_count \in Nat
  BY <1>1 DEF Headers, Sized
<1>4. Total \in Nat /\ Total = s_hdr.data_bytes + s_hdr.buf_used /\ Durable \in Nat
  BY <1>2, <1>3 DEF Total, Durable
<1>5. Base = s_hdr.data_bytes
  BY BufferOnCardType
<1> QED
  BY <1>1, <1>2, <1>3, <1>4, <1>5

\* So many lines take so much room.
LEMMA LinesFit ==
    ASSUME NEW n \in Nat, n <= MaxLines
    PROVE  n * LineMax <= MaxLines * LineMax /\ n * LineMax \in Nat /\ MaxLines * LineMax \in Nat
BY SizesAssumption

LEMMA RoomLeft ==
    ASSUME NEW d \in Nat, NEW b \in Nat, NEW h \in Nat, NEW x \in Nat, NEW y \in Nat,
           d + b <= h + x, x <= y
    PROVE  d <= h + y
OBVIOUS

\* There is a sector of room behind what is committed, on the card as in RAM.
LEMMA Room ==
    ASSUME SoundCard, SoundInv
    PROVE  /\ cardHdr.data_bytes + SectorSize <= CardBytes
           /\ s_ready => s_hdr.data_bytes + SectorSize <= CardBytes
<1> DEFINE full == Len(CsvHeader) + MaxLines * LineMax
<1>t. TypeOK /\ Place /\ InRam /\ OnDisk
  BY DEF SoundInv
<1>n. /\ s_hdr.data_bytes \in Nat /\ s_hdr.buf_used \in Nat
      /\ cardHdr.data_bytes \in Nat /\ cardHdr.buf_used \in Nat
      /\ s_hdr.line_count \in Nat /\ cardHdr.line_count \in Nat
      /\ CardBytes \in Nat /\ SectorSize \in Nat
      /\ Total = s_hdr.data_bytes + s_hdr.buf_used
      /\ Len(log) \in Nat /\ Len(tmp) \in Nat /\ written \in 0..Len(tmp)
  BY <1>t, Numbers
<1>1. Len(CsvHeader) \in Nat
  BY FreshSized
<1>2. full \in Nat /\ full + SectorSize <= CardBytes
  BY <1>1, <1>n, SizesAssumption DEF SoundCard
<1>3. cardHdr.data_bytes <= full
  <2>1. cardHdr.line_count * LineMax <= MaxLines * LineMax
    BY <1>t, <1>n, LinesFit DEF OnDisk
  <2>2. /\ cardHdr.data_bytes + cardHdr.buf_used <= Len(CsvHeader) + cardHdr.line_count * LineMax
        /\ cardHdr.line_count * LineMax \in Nat /\ MaxLines * LineMax \in Nat
    BY <1>t, <1>n, LinesFit DEF OnDisk, Durable
  <2> QED
    BY ONLY <2>1, <2>2, <1>n, <1>1, RoomLeft
<1>4. ASSUME s_ready PROVE s_hdr.data_bytes <= full
  <2>0. /\ Len(log) <= Len(CsvHeader) + s_hdr.line_count * LineMax /\ Total = Len(log) + written
        /\ s_hdr.line_count <= MaxLines
    BY <1>4, <1>t DEF InRam
  <2>1. CASE Appending
    <3>1. s_hdr.line_count + 1 <= MaxLines /\ Len(tmp) <= LineMax
      BY <2>1, <1>t, <1>n, SizesAssumption DEF Place
    <3>2. (s_hdr.line_count + 1) * LineMax <= MaxLines * LineMax
      BY <3>1, <1>n, LinesFit
    <3>3. (s_hdr.line_count + 1) * LineMax = s_hdr.line_count * LineMax + LineMax
      BY <1>n, SizesAssumption
    <3>4. s_hdr.line_count * LineMax \in Nat /\ MaxLines * LineMax \in Nat /\ LineMax \in Nat
      BY <2>0, <1>n, LinesFit, SizesAssumption
    <3>5. s_hdr.data_bytes + s_hdr.buf_used <= Len(CsvHeader) + (s_hdr.line_count * LineMax + LineMax)
      <4>1. s_hdr.data_bytes + s_hdr.buf_used = Len(log) + written /\ written <= LineMax
        BY <2>0, <3>1, <1>n, <3>4
      <4>2. PICK x \in Nat : x = s_hdr.line_count * LineMax
        BY <3>4
      <4>3. Len(log) <= Len(CsvHeader) + x
        BY <2>0, <4>2
      <4>4. s_hdr.data_bytes + s_hdr.buf_used <= Len(CsvHeader) + (x + LineMax)
        BY ONLY <4>1, <4>3, <3>4, <1>n, <1>1
      <4> QED
        BY ONLY <4>2, <4>4
    <3>6. s_hdr.line_count * LineMax + LineMax \in Nat
          /\ s_hdr.line_count * LineMax + LineMax <= MaxLines * LineMax
      BY ONLY <3>2, <3>3, <3>4
    <3> QED
      BY ONLY <3>5, <3>6, <3>4, <1>n, <1>1, RoomLeft
  <2>2. CASE ~Appending
    <3>1. written = 0
      BY <2>2, <1>t DEF Place
    <3>2. /\ s_hdr.line_count * LineMax <= MaxLines * LineMax
          /\ s_hdr.line_count * LineMax \in Nat /\ MaxLines * LineMax \in Nat
      BY <2>0, <1>n, LinesFit
    <3>3. s_hdr.data_bytes + s_hdr.buf_used <= Len(CsvHeader) + s_hdr.line_count * LineMax
      BY <2>0, <3>1, <1>n
    <3> QED
      BY ONLY <3>2, <3>3, <1>n, <1>1, RoomLeft
  <2> QED
    BY <2>1, <2>2
<1> HIDE DEF full
<1>5. \A d, u, v \in Nat : d <= full /\ full + u <= v => d + u <= v
  BY ONLY <1>2
<1>6. cardHdr.data_bytes + SectorSize <= CardBytes
  BY <1>2, <1>3, <1>5, <1>n
<1>7. ASSUME s_ready PROVE s_hdr.data_bytes + SectorSize <= CardBytes
  BY <1>2, <1>4, <1>5, <1>7, <1>n
<1> QED
  BY <1>6, <1>7

\* A write of the buffer succeeds, and then the card alone holds everything.
LEMMA SectorWritten ==
    ASSUME SoundCard, SoundInv, s_ready, NEW ok \in BOOLEAN, WriteBuffer(ok)
    PROVE  /\ ok = TRUE
           /\ \A i \in 1..Total : card'[i] = ByteAt(i)
           /\ \A i \in 1..Durable : card'[i] = log[i]
<1>t. TypeOK /\ Place /\ InRam /\ OnDisk
  BY DEF SoundInv
<1>n. /\ s_hdr.data_bytes \in 0..CardBytes /\ s_hdr.buf_used \in 0..SectorSize
      /\ CardBytes \in Nat /\ SectorSize \in Nat
      /\ Total \in Nat /\ Total = s_hdr.data_bytes + s_hdr.buf_used
      /\ Durable \in Nat
      /\ Len(log) \in Nat /\ written \in Nat
      /\ Base = s_hdr.data_bytes
  BY <1>t, Numbers
<1>1. Base + SectorSize <= CardBytes
  BY <1>n, Room
<1>2. ok = TRUE
  BY <1>1, <1>n DEF WriteBuffer, SoundCard
<1>3. card' = BufferOnCard
  BY <1>2 DEF WriteBuffer
<1>4. ASSUME NEW i \in 1..Total PROVE card'[i] = ByteAt(i)
  <2>1. i \in 1..CardBytes /\ i <= Base + SectorSize
    BY <1>1, <1>n
  <2>2. card'[i] = IF Base < i THEN s_buf[i - Base] ELSE card[i]
    BY <1>3, <2>1 DEF BufferOnCard
  <2> QED
    BY <2>2, <1>n DEF ByteAt
<1>5. ASSUME NEW i \in 1..Durable PROVE card'[i] = log[i]
  <2>1. i \in 1..Len(log) /\ i \in 1..Total
    BY <1>t, <1>n DEF OnDisk, InRam
  <2> QED
    BY <2>1, <1>4, <1>t DEF InRam
<1> QED
  BY <1>2, <1>4, <1>5

\* Multiples of the flush interval.
LEMMA MultipleFacts ==
    ASSUME NEW m \in Multiples
    PROVE  /\ m \in Nat /\ m + FlushEvery \in Multiples
           /\ FlushEvery \in Nat /\ FlushEvery > 0
           /\ (m + FlushEvery) % FlushEvery = 0
<1> USE SizesAssumption
<1>1. PICK q \in Nat : m = q * FlushEvery
  BY DEF Multiples
<1>2. m + FlushEvery = (q + 1) * FlushEvery /\ q + 1 \in Nat
  BY <1>1
<1>3. \A F \in Nat \ {0}, k \in Nat : (k * F) % F = 0
  OBVIOUS
<1> QED
  BY <1>1, <1>2, <1>3 DEF Multiples

-----------------------------------------------------------------------------
(* The steps that leave the log alone. *)

LEMMA SameLog ==
    ASSUME SoundInv, UNCHANGED <<cardHdr, card, s_hdr, s_buf, s_ready, log>>,
           written' = written, ~Appending' \/ tmp' = tmp \/ written = 0,
           ~Appending' => written = 0,
           pc \in Flushes => pc' \in Flushes
    PROVE  InRam' /\ OnDisk' /\ Interval'
<1>1. OnDisk'
  BY DEF SoundInv, OnDisk, Durable
<1>2. InRam'
  BY DEF SoundInv, InRam, Total, ByteAt
<1>3. Interval'
  BY DEF SoundInv, Interval
<1> QED
  BY <1>1, <1>2, <1>3

LEMMA SameDownload ==
    ASSUME SoundInv, UNCHANGED dl, log' = log,
           pc' # "read", pc' \in Flushes => (pc \in Flushes /\ after' = after) \/ after' # "read"
    PROVE  Downloading'
BY DEF SoundInv, Downloading

-----------------------------------------------------------------------------
(* The invariant. *)

LEMMA SoundInit == SoundCard /\ Init => SoundInv
<1> SUFFICES ASSUME SoundCard, Init PROVE SoundInv
  OBVIOUS
<1> USE SizesAssumption, BytesAssumption
<1>1. TypeOK
  BY TypeInit
<1>2. /\ cardHdr = FreshHeader /\ log = CsvHeader /\ s_hdr = ZeroHeader /\ ~s_ready
      /\ pc = "boot" /\ after = "idle" /\ tmp = << >> /\ written = 0 /\ dl = NoDownload
      /\ card = [i \in 1..CardBytes |-> IF i <= Len(CsvHeader) THEN CsvHeader[i] ELSE Zero]
  BY DEF Init, SoundCard
<1>3. /\ cardHdr.magic /\ cardHdr.data_bytes = 0 /\ cardHdr.line_count = 0
      /\ cardHdr.buf_used = Len(CsvHeader)
  BY <1>2 DEF FreshHeader, Header
<1>4. Durable = Len(CsvHeader) /\ Len(CsvHeader) \in Nat
  BY <1>3, FreshSized DEF Durable
<1>5. Len(CsvHeader) <= CardBytes /\ CardBytes \in Nat /\ 0 * LineMax = 0 /\ 0 <= MaxLines
  <2>1. MaxLines * LineMax \in Nat /\ CardBytes \in Nat
    BY DEF CardBytes
  <2> QED
    BY <1>4, <2>1 DEF SoundCard
<1>6. OnDisk
  BY <1>2, <1>3, <1>4, <1>5 DEF OnDisk
<1>7. Place /\ InRam /\ Flushing
  BY <1>2, <1>3 DEF Place, InRam, Flushing, Appending
<1>8. Downloading
  BY <1>2 DEF Downloading, NoDownload, Flushes
<1>9. Interval
  <2>1. 0 \in Multiples
    <3>1. 0 = 0 * FlushEvery
      OBVIOUS
    <3> QED BY <3>1 DEF Multiples
  <2> QED
    BY <1>2, <1>3, <2>1, MultipleFacts DEF Interval
<1> QED
  BY <1>1, <1>6, <1>7, <1>8, <1>9 DEF SoundInv

LEMMA SoundBoot ==
    ASSUME SoundCard, SoundInv, Boot
    PROVE  /\ Place' /\ InRam' /\ OnDisk' /\ Flushing' /\ Downloading' /\ Interval'
           /\ ~s_ready /\ UNCHANGED <<cardHdr, log>> /\ (s_ready' => s_hdr' = cardHdr)
<1>t. TypeOK /\ Place /\ InRam /\ OnDisk /\ Flushing /\ Downloading /\ Interval
  BY DEF SoundInv
<1>n. /\ cardHdr.data_bytes \in 0..CardBytes /\ cardHdr.buf_used \in 0..SectorSize
      /\ cardHdr.line_count \in Nat /\ CardBytes \in Nat /\ SectorSize \in Nat
      /\ Len(log) \in Nat
  BY <1>t, Numbers
<1>1. pc = "boot" /\ ~s_ready /\ written = 0 /\ tmp = << >>
  BY <1>t DEF Boot, BootWithoutCard, BootResume, BootFresh, Place, Appending
<1>2. pc' = "idle" /\ UNCHANGED <<dl, after>>
  BY DEF Boot, BootWithoutCard, BootResume, BootFresh
<1>3. CASE BootWithoutCard
  <2>1. UNCHANGED <<cardHdr, card, s_hdr, s_buf, s_ready, log, tmp, written>>
    BY <1>3 DEF BootWithoutCard, cardVars, appendVars, ghosts
  <2>2. InRam' /\ OnDisk' /\ Interval'
    BY <1>1, <1>2, <2>1, SameLog DEF Flushes
  <2>3. Downloading'
    BY <1>2, <2>1, SameDownload DEF Flushes
  <2> QED
    BY <1>1, <1>2, <2>1, <2>2, <2>3, <1>t DEF Place, Appending, Flushing
<1>4. CASE BootResume
  <2>1. UNCHANGED <<cardHdr, card, log, tmp, written>> /\ s_ready'
    BY <1>4 DEF BootResume, cardVars, appendVars, ghosts
  <2>2. (cardHdr.data_bytes \div SectorSize) * SectorSize = cardHdr.data_bytes
    BY <1>t, WholeSectors DEF TypeOK
  <2>3. cardHdr.data_bytes + SectorSize <= CardBytes
    BY Room
  <2>4. /\ s_hdr' = cardHdr
        /\ \/ cardHdr.buf_used = 0
           \/ s_buf' = [i \in 1..SectorSize |-> card[cardHdr.data_bytes + i]]
    BY <1>4, <2>2, <2>3, <1>n DEF BootResume, ResumedHeader, SoundCard
  <2>5. Total' = Durable /\ Durable = Len(log)
    BY <1>1, <2>4, <1>t DEF Total, Durable, OnDisk
  <2>6. ASSUME NEW i \in 1..Len(log) PROVE ByteAt(i)' = log[i]
    <3>1. card[i] = log[i]
      BY <2>5, <1>t DEF OnDisk
    <3>2. CASE i <= cardHdr.data_bytes
      BY <2>1, <2>4, <3>1, <3>2 DEF ByteAt
    <3>3. CASE i > cardHdr.data_bytes
      <4>1. i - cardHdr.data_bytes \in 1..SectorSize /\ cardHdr.buf_used # 0
        BY <2>5, <3>3, <1>n DEF Durable
      <4>2. s_buf'[i - cardHdr.data_bytes] = card[i]
        BY <2>4, <4>1, <1>n
      <4> QED
        BY <2>4, <3>1, <3>3, <4>2, <1>n DEF ByteAt
    <3> QED
      BY <3>2, <3>3, <1>n
  <2>7. InRam'
    <3>1. /\ Len(log) <= Len(CsvHeader) + cardHdr.line_count * LineMax
          /\ cardHdr.line_count <= MaxLines
      BY <2>5, <1>t DEF OnDisk
    <3> QED
      BY <1>1, <2>1, <2>4, <2>5, <2>6, <3>1, <1>n DEF InRam
  <2>8. OnDisk' /\ Place' /\ Flushing'
    BY <1>1, <1>2, <2>1, <2>4, <1>t DEF OnDisk, Durable, Place, Appending, Flushing
  <2>9. Downloading'
    BY <1>2, <2>1, SameDownload DEF Flushes
  <2>10. Interval'
    <3>1. PICK m \in Multiples : m <= cardHdr.line_count /\ cardHdr.line_count < m + FlushEvery
      BY <1>t DEF Interval
    <3>2. m \in Nat /\ FlushEvery \in Nat
      BY MultipleFacts
    <3> QED
      BY <2>1, <2>4, <3>1, <3>2, <1>n DEF Interval
  <2> QED
    BY <1>1, <2>1, <2>4, <2>7, <2>8, <2>9, <2>10
<1>5. CASE BootFresh
  BY <1>5, <1>t DEF BootFresh, SoundCard, Place
<1> QED
  BY <1>3, <1>4, <1>5 DEF Boot

LEMMA SoundAppend ==
    ASSUME SoundCard, SoundInv, NEW line \in Lines, Append_(line)
    PROVE  Place' /\ InRam' /\ OnDisk' /\ Flushing' /\ Downloading' /\ Interval'
<1>t. TypeOK /\ Place /\ InRam /\ OnDisk /\ Flushing /\ Downloading /\ Interval
  BY DEF SoundInv
<1>1. /\ pc = "idle" /\ pc' = "copy" /\ s_ready
      /\ tmp' = line \o <<NL>> /\ written' = 0 /\ s_hdr.line_count < MaxLines
      /\ Len(line) + 1 <= LineMax
      /\ UNCHANGED <<cardHdr, card, s_hdr, s_buf, s_ready, after, dl, log>>
  BY DEF Append_, cardVars, ghosts
<1>2. written = 0 /\ tmp = << >>
  BY <1>1, <1>t DEF Place, Appending
<1>3. InRam' /\ OnDisk' /\ Interval'
  BY <1>1, <1>2, SameLog DEF Flushes, Appending
<1>4. Downloading'
  BY <1>1, SameDownload DEF Flushes
<1>5. Len(tmp') <= LineMax
  <2>1. line \in Seq(Bytes)
    BY BytesAssumption
  <2>2. Len(tmp') = Len(line) + 1
    BY <1>1, <2>1
  <2> QED
    BY <1>1, <2>2
<1>6. Place' /\ Flushing'
  BY <1>1, <1>5, <1>t DEF Place, Appending, Flushing
<1> QED
  BY <1>3, <1>4, <1>6

LEMMA SoundCopy ==
    ASSUME SoundCard, SoundInv, CopyChunk
    PROVE  Place' /\ InRam' /\ OnDisk' /\ Flushing' /\ Downloading' /\ Interval'
<1>t. TypeOK /\ Place /\ InRam /\ OnDisk /\ Flushing /\ Downloading /\ Interval
  BY DEF SoundInv
<1> DEFINE chunk == Least(Len(tmp) - written, SectorSize - s_hdr.buf_used)
<1>n. /\ s_hdr.data_bytes \in Nat /\ s_hdr.buf_used \in 0..SectorSize
      /\ s_hdr.line_count \in Nat /\ SectorSize \in Nat
      /\ Total \in Nat /\ Total = s_hdr.data_bytes + s_hdr.buf_used
      /\ Len(log) \in Nat /\ Len(tmp) \in Nat /\ written \in 0..Len(tmp)
  BY <1>t, Numbers
<1>1. /\ pc = "copy" /\ s_ready /\ written < Len(tmp)
      /\ s_buf' = [i \in 1..SectorSize |->
                          IF s_hdr.buf_used < i /\ i <= s_hdr.buf_used + chunk
                          THEN tmp[written + i - s_hdr.buf_used] ELSE s_buf[i]]
      /\ s_hdr' = [s_hdr EXCEPT !.buf_used = s_hdr.buf_used + chunk]
      /\ written' = written + chunk
      /\ pc' = IF s_hdr.buf_used + chunk >= SectorSize THEN "sector" ELSE "copy"
      /\ UNCHANGED <<cardHdr, card, s_ready, after, tmp, dl, log>>
  BY <1>t DEF CopyChunk, cardVars, ghosts, Place
<1>2. chunk \in Nat /\ s_hdr.buf_used + chunk \in 0..SectorSize
  BY <1>1, <1>n DEF Least
<1> HIDE DEF chunk
<1>3. /\ s_hdr'.data_bytes = s_hdr.data_bytes /\ s_hdr'.buf_used = s_hdr.buf_used + chunk
      /\ s_hdr'.line_count = s_hdr.line_count /\ s_hdr'.magic = s_hdr.magic
  <2>1. s_hdr \in Headers
    BY <1>t DEF TypeOK
  <2> QED
    BY <1>1, <2>1 DEF Headers
<1>4. Total' = Total + chunk
  <2>1. Total' = s_hdr'.data_bytes + s_hdr'.buf_used
    BY DEF Total
  <2>2. Total' = s_hdr.data_bytes + (s_hdr.buf_used + chunk)
    BY <2>1, <1>3
  <2>3. s_hdr.data_bytes \in Nat /\ s_hdr.buf_used \in Nat /\ Total = s_hdr.data_bytes + s_hdr.buf_used
    BY <1>n
  <2> QED
    BY ONLY <2>2, <2>3, <1>2
<1>5. ASSUME NEW i \in 1..Total PROVE ByteAt(i)' = ByteAt(i)
  <2>1. CASE i <= s_hdr.data_bytes
    BY <2>1, <1>1, <1>3 DEF ByteAt
  <2>2. CASE i > s_hdr.data_bytes
    <3>1. i - s_hdr.data_bytes \in 1..SectorSize /\ ~(s_hdr.buf_used < i - s_hdr.data_bytes)
      BY <2>2, <1>n
    <3>2. s_buf'[i - s_hdr.data_bytes] = s_buf[i - s_hdr.data_bytes]
      BY <3>1, <1>1
    <3> QED
      BY <2>2, <3>2, <1>3, <1>n DEF ByteAt
  <2> QED
    BY <2>1, <2>2, <1>n
<1>6. Total = Len(log) + written
  BY <1>1, <1>t DEF InRam
<1>7. ASSUME NEW i \in Len(log) + 1..Total' PROVE ByteAt(i)' = tmp[i - Len(log)]
  <2>0. i \in Nat /\ i >= Len(log) + 1 /\ i <= Total + chunk
    BY <1>2, <1>4, <1>n
  <2>1. CASE i <= Total
    <3>1. i \in 1..Total /\ i \in Len(log) + 1..Total
      BY <2>0, <2>1, <1>n
    <3> QED
      BY <3>1, <1>1, <1>5, <1>t DEF InRam
  <2>2. CASE i > Total
    <3>a. PICK k \in Int : k = i - s_hdr.data_bytes
      BY <2>0, <1>n
    <3>n. s_hdr.data_bytes \in Nat /\ s_hdr.buf_used \in Nat /\ Len(log) \in Nat /\ written \in Nat
      BY <1>n
    <3>t. Total = s_hdr.data_bytes + s_hdr.buf_used /\ Total = Len(log) + written
      BY <1>6, <1>n
    <3>b. s_hdr.buf_used < k /\ k <= s_hdr.buf_used + chunk
      <4>1. i > s_hdr.data_bytes + s_hdr.buf_used /\ i <= s_hdr.data_bytes + s_hdr.buf_used + chunk
        BY <2>0, <2>2, <3>t
      <4> QED
        BY ONLY <4>1, <2>0, <3>a, <3>n, <1>2
    <3>c. k \in 1..SectorSize
      BY <3>b, <1>2, <1>n
    <3>d. written + k - s_hdr.buf_used = i - Len(log)
      <4>1. s_hdr.data_bytes + s_hdr.buf_used = Len(log) + written
        BY <3>t
      <4>2. i \in Nat
        BY <2>0
      <4>3. \A d, u, l, w, j \in Nat : d + u = l + w => w + (j - d) - u = j - l
        OBVIOUS
      <4>4. written + (i - s_hdr.data_bytes) - s_hdr.buf_used = i - Len(log)
        BY ONLY <4>1, <4>2, <4>3, <3>n
      <4> QED
        BY ONLY <4>4, <3>a
    <3>2. ByteAt(i)' = s_buf'[k]
      <4>1. ~(i <= s_hdr'.data_bytes) /\ i - s_hdr'.data_bytes = k
        BY <2>0, <2>2, <3>a, <1>3, <1>n
      <4> QED
        BY ONLY <4>1 DEF ByteAt
    <3>3. s_buf'[k] = tmp[written + k - s_hdr.buf_used]
      BY <3>b, <3>c, <1>1
    <3> QED
      BY <3>d, <3>2, <3>3
  <2> QED
    BY <2>1, <2>2, <2>0, <1>n
<1>8. InRam'
  <2>1. Total' = Len(log) + written'
    BY <1>1, <1>2, <1>4, <1>6, <1>n
  <2>2. \A i \in 1..Len(log) : ByteAt(i)' = log[i]
    BY <1>1, <1>5, <1>6, <1>n, <1>t DEF InRam
  <2> QED
    BY <2>1, <2>2, <1>1, <1>3, <1>7, <1>t DEF InRam
<1>9. Place'
  <2>1. pc' = "sector" => s_hdr'.buf_used = SectorSize
    BY <1>1, <1>2, <1>3, <1>n
  <2> QED
    BY <2>1, <1>1, <1>3, <1>t DEF Place, Appending
<1>10. OnDisk' /\ Flushing'
  BY <1>1, <1>t DEF OnDisk, Durable, Flushing
<1>11. Downloading'
  BY <1>1, SameDownload DEF Flushes
<1>12. Interval'
  BY <1>1, <1>3, <1>t DEF Interval, Flushes
<1> QED
  BY <1>8, <1>9, <1>10, <1>11, <1>12

LEMMA SoundSector ==
    ASSUME SoundCard, SoundInv, WriteSector \/ WriteSectorFails
    PROVE  Place' /\ InRam' /\ OnDisk' /\ Flushing' /\ Downloading' /\ Interval'
<1>t. TypeOK /\ Place /\ InRam /\ OnDisk /\ Flushing /\ Downloading /\ Interval
  BY DEF SoundInv
<1>1. pc = "sector" /\ s_ready /\ s_hdr.buf_used = SectorSize
  BY <1>t DEF WriteSector, WriteSectorFails, Place
<1>2. ~WriteSectorFails
  BY <1>1, SectorWritten DEF WriteSectorFails
<1>3. WriteBuffer(TRUE)
  BY <1>2 DEF WriteSector
<1>4. /\ \A i \in 1..Total : card'[i] = ByteAt(i)
      /\ \A i \in 1..Durable : card'[i] = log[i]
  BY <1>1, <1>3, SectorWritten
<1>5. /\ s_hdr' = [s_hdr EXCEPT !.data_bytes = @ + SectorSize, !.buf_used = 0]
      /\ pc' = "copy"
      /\ UNCHANGED <<cardHdr, s_ready, after, tmp, written, dl, log>>
  BY <1>2 DEF WriteSector, appendVars, ghosts
<1>n. /\ s_hdr.data_bytes \in Nat /\ SectorSize \in Nat
      /\ Total \in Nat /\ Total = s_hdr.data_bytes + s_hdr.buf_used
      /\ Len(log) \in Nat /\ written \in Nat
  BY <1>t, Numbers
<1>6. /\ s_hdr'.data_bytes = s_hdr.data_bytes + SectorSize /\ s_hdr'.buf_used = 0
      /\ s_hdr'.line_count = s_hdr.line_count /\ s_hdr'.magic = s_hdr.magic
  <2>1. s_hdr \in Headers /\ s_hdr.data_bytes + SectorSize \in Nat
    BY <1>t, <1>n DEF TypeOK
  <2> QED
    BY <1>5, <2>1 DEF Headers
<1>7. Total' = Total /\ s_hdr'.data_bytes = Total
  BY <1>1, <1>6, <1>n DEF Total
<1>8. \A i \in 1..Total : ByteAt(i)' = ByteAt(i)
  BY <1>4, <1>7, <1>n DEF ByteAt
<1>9. InRam'
  <2>1. Total = Len(log) + written
    BY <1>1, <1>t DEF InRam
  <2>2. \A i \in 1..Len(log) : i \in 1..Total
    BY <2>1, <1>n
  <2>3. \A i \in Len(log) + 1..Total : i \in 1..Total
    BY <2>1, <1>n
  <2> QED
    BY <2>1, <2>2, <2>3, <1>1, <1>5, <1>6, <1>7, <1>8, <1>t DEF InRam
<1>10. OnDisk'
  BY <1>4, <1>5, <1>t DEF OnDisk, Durable
<1>11. Place' /\ Flushing'
  BY <1>1, <1>5, <1>6, <1>t DEF Place, Appending, Flushing
<1>12. Downloading'
  BY <1>5, SameDownload DEF Flushes
<1>13. Interval'
  BY <1>1, <1>5, <1>6, <1>t DEF Interval, Flushes
<1> QED
  BY <1>9, <1>10, <1>11, <1>12, <1>13

LEMMA SoundAppendEnd ==
    ASSUME SoundCard, SoundInv, AppendEnd
    PROVE  Place' /\ InRam' /\ OnDisk' /\ Flushing' /\ Downloading' /\ Interval'
<1>t. TypeOK /\ Place /\ InRam /\ OnDisk /\ Flushing /\ Downloading /\ Interval
  BY DEF SoundInv
<1>n. /\ s_hdr.line_count \in Nat /\ cardHdr.line_count \in Nat
      /\ Total \in Nat /\ Durable \in Nat /\ Len(log) \in Nat /\ Len(tmp) \in Nat
      /\ log \in Seq(Bytes) /\ tmp \in Seq(Bytes)
  BY <1>t, Numbers DEF TypeOK
<1>1. /\ pc = "copy" /\ written = Len(tmp) /\ s_ready
      /\ s_hdr' = [s_hdr EXCEPT !.line_count = s_hdr.line_count + 1]
      /\ log' = log \o tmp /\ tmp' = << >> /\ written' = 0 /\ after' = "idle"
      /\ pc' = IF FlushDue(s_hdr.line_count + 1) THEN "flushData" ELSE "idle"
      /\ UNCHANGED <<cardHdr, card, s_buf, s_ready, dl>>
  BY <1>t DEF AppendEnd, cardVars, Place
<1>2. /\ s_hdr'.data_bytes = s_hdr.data_bytes /\ s_hdr'.buf_used = s_hdr.buf_used
      /\ s_hdr'.line_count = s_hdr.line_count + 1 /\ s_hdr'.magic = s_hdr.magic
  <2>1. s_hdr \in Headers /\ s_hdr.line_count + 1 \in Nat
    BY <1>t, <1>n DEF TypeOK
  <2> QED
    BY <1>1, <2>1 DEF Headers
<1>3. /\ Len(log') = Len(log) + Len(tmp)
      /\ \A i \in 1..Len(log) : log'[i] = log[i]
      /\ \A i \in Len(log) + 1..Len(log) + Len(tmp) : log'[i] = tmp[i - Len(log)]
  BY <1>1, <1>n
<1>4. Total' = Total /\ Total = Len(log')
  BY <1>1, <1>2, <1>3, <1>t DEF InRam, Total
<1>5. ASSUME NEW i \in 1..Total PROVE ByteAt(i) = log'[i] /\ ByteAt(i)' = ByteAt(i)
  <2>1. CASE i <= Len(log)
    BY <2>1, <1>1, <1>2, <1>3, <1>n, <1>t DEF InRam, ByteAt
  <2>2. CASE i > Len(log)
    <3>1. i \in Len(log) + 1..Total /\ Total = Len(log) + Len(tmp)
      BY <2>2, <1>3, <1>4, <1>n
    <3> QED
      BY <3>1, <1>1, <1>2, <1>3, <1>t DEF InRam, ByteAt
  <2> QED
    BY <2>1, <2>2, <1>n
<1>6. /\ Len(log') <= Len(CsvHeader) + s_hdr'.line_count * LineMax
      /\ s_hdr'.line_count <= MaxLines
  <2>1. /\ Len(log) <= Len(CsvHeader) + s_hdr.line_count * LineMax
        /\ Len(tmp) <= LineMax /\ s_hdr.line_count < MaxLines
    BY <1>1, <1>t DEF InRam, Place, Appending
  <2>2. PICK x \in Nat : x = s_hdr.line_count * LineMax
    BY <1>n, SizesAssumption
  <2>3. s_hdr'.line_count * LineMax = x + LineMax /\ LineMax \in Nat
    BY <1>2, <1>n, <2>2, SizesAssumption
  <2>4. Len(CsvHeader) \in Nat
    BY FreshSized
  <2>5. Len(log') <= Len(CsvHeader) + (x + LineMax)
    <3>1. Len(log) <= Len(CsvHeader) + x
      BY <2>1, <2>2
    <3>2. Len(log') = Len(log) + Len(tmp) /\ Len(tmp) <= LineMax
      BY <1>3, <2>1
    <3> QED
      BY ONLY <3>1, <3>2, <1>n, <2>3, <2>4
  <2>6. s_hdr'.line_count <= MaxLines
    BY <1>2, <1>n, <2>1, SizesAssumption
  <2> QED
    BY <2>3, <2>5, <2>6
<1>7. InRam'
  <2>1. Total' = Len(log') + written'
    BY <1>1, <1>4, <1>n
  <2>2. \A i \in 1..Len(log') : ByteAt(i)' = log'[i]
    BY <1>4, <1>5
  <2>3. \A i \in Len(log') + 1..Total' : FALSE
    BY <1>4, <1>n
  <2> QED
    BY <2>1, <2>2, <2>3, <1>1, <1>6 DEF InRam
<1>8. OnDisk'
  <2>1. Durable <= Len(log) /\ \A i \in 1..Durable : card[i] = log[i]
    BY <1>t DEF OnDisk
  <2>2. Durable <= Len(log') /\ \A i \in 1..Durable : card[i] = log'[i]
    BY <2>1, <1>3, <1>n
  <2> QED
    BY <2>2, <1>1, <1>t DEF OnDisk, Durable
<1>9. Place' /\ Flushing'
  BY <1>1, <1>2, <1>t DEF Place, Appending, Flushing
<1>10. Downloading'
  <2>1. ASSUME dl.open
        PROVE  Len(dl.snap) <= Len(log') /\ \A i \in 1..Len(dl.snap) : dl.snap[i] = log'[i]
    <3>1. Len(dl.snap) <= Len(log) /\ \A i \in 1..Len(dl.snap) : dl.snap[i] = log[i]
      BY <2>1, <1>t DEF Downloading
    <3>2. dl.snap \in Seq(Bytes)
      BY <1>t DEF TypeOK
    <3>3. Len(dl.snap) \in Nat
      BY <3>2
    <3> QED
      BY <3>1, <3>3, <1>3, <1>n
  <2> QED
    BY <2>1, <1>1, <1>t DEF Downloading
<1>11. Interval'
  <2>1. PICK m \in Multiples :
            /\ m <= cardHdr.line_count /\ cardHdr.line_count < m + FlushEvery
            /\ cardHdr.line_count <= s_hdr.line_count
            /\ s_hdr.line_count < m + FlushEvery
    BY <1>1, <1>t DEF Interval, Flushes
  <2>2. m \in Nat /\ FlushEvery \in Nat /\ (m + FlushEvery) % FlushEvery = 0
    BY MultipleFacts
  <2>3. /\ cardHdr.line_count <= s_hdr.line_count + 1
        /\ s_hdr.line_count + 1 <= m + FlushEvery
    BY <2>1, <2>2, <1>n
  <2>4. pc' \notin Flushes => s_hdr.line_count + 1 < m + FlushEvery
    <3>1. pc' \notin Flushes => ~FlushDue(s_hdr.line_count + 1)
      BY <1>1 DEF Flushes
    <3>2. pc' \notin Flushes => s_hdr.line_count + 1 # m + FlushEvery
      BY <3>1, <2>2 DEF FlushDue
    <3> QED
      BY <3>2, <2>2, <2>3, <1>n
  <2> QED
    BY <2>1, <2>3, <2>4, <1>1, <1>2 DEF Interval
<1> QED
  BY <1>7, <1>8, <1>9, <1>10, <1>11

LEMMA SoundFlushData ==
    ASSUME SoundCard, SoundInv, FlushData
    PROVE  Place' /\ InRam' /\ OnDisk' /\ Flushing' /\ Downloading' /\ Interval'
<1>t. TypeOK /\ Place /\ InRam /\ OnDisk /\ Flushing /\ Downloading /\ Interval
  BY DEF SoundInv
<1>n. /\ s_hdr.data_bytes \in Nat /\ s_hdr.buf_used \in Nat
      /\ Total \in Nat /\ Total = s_hdr.data_bytes + s_hdr.buf_used
      /\ Durable \in Nat /\ Len(log) \in Nat
  BY <1>t, Numbers
<1>1. /\ pc = "flushData" /\ pc' = "flushHeader" /\ s_ready
      /\ UNCHANGED <<cardHdr, s_hdr, s_buf, s_ready, after, tmp, written, dl, log>>
  BY <1>t DEF FlushData, appendVars, Place
<1>2. /\ \A i \in 1..Total : card'[i] = ByteAt(i)
      /\ \A i \in 1..Durable : card'[i] = log[i]
  <2>1. CASE Pending
    <3>1. PICK ok \in BOOLEAN : WriteBuffer(ok)
      BY <2>1 DEF FlushData
    <3> QED
      BY <1>1, <3>1, SectorWritten
  <2>2. CASE ~Pending
    <3>1. card' = card /\ Total = s_hdr.data_bytes
      BY <2>2, <1>n DEF FlushData, Pending
    <3> QED
      BY <3>1, <1>n, <1>t DEF ByteAt, OnDisk
  <2> QED
    BY <2>1, <2>2
<1>3. Total' = Total /\ \A i \in 1..Total : ByteAt(i)' = ByteAt(i)
  <2>1. ASSUME NEW i \in 1..Total PROVE ByteAt(i)' = ByteAt(i)
    BY <1>1, <1>2 DEF ByteAt
  <2> QED
    BY <2>1, <1>1 DEF Total
<1>4. InRam'
  <2>1. Total = Len(log) + written /\ written \in Nat
    BY <1>1, <1>t, Numbers DEF InRam
  <2>2. /\ \A i \in 1..Len(log) : i \in 1..Total
        /\ \A i \in Len(log) + 1..Total : i \in 1..Total
    BY <2>1, <1>n
  <2> QED
    BY <2>2, <1>1, <1>3, <1>t DEF InRam
<1>5. OnDisk' /\ Flushing'
  BY <1>1, <1>2, <1>3, <1>t DEF OnDisk, Durable, Flushing
<1>6. Place'
  BY <1>1, <1>t DEF Place, Appending
<1>7. Downloading' /\ Interval'
  BY <1>1, <1>t DEF Downloading, Interval, Flushes
<1> QED
  BY <1>4, <1>5, <1>6, <1>7

LEMMA SoundFlushHeader ==
    ASSUME SoundCard, SoundInv, FlushHeader
    PROVE  /\ Place' /\ InRam' /\ OnDisk' /\ Flushing' /\ Downloading' /\ Interval'
           /\ cardHdr' = s_hdr /\ Total = Len(log) /\ s_ready
           /\ \A i \in 1..Len(log) : card[i] = log[i]
<1>t. TypeOK /\ Place /\ InRam /\ OnDisk /\ Flushing /\ Downloading /\ Interval
  BY DEF SoundInv
<1>n. /\ s_hdr.line_count \in Nat /\ cardHdr.line_count \in Nat
      /\ Total \in Nat /\ Len(log) \in Nat
  BY <1>t, Numbers
<1>1. /\ pc = "flushHeader" /\ pc' = after /\ s_ready /\ cardHdr' = s_hdr
      /\ UNCHANGED <<card, s_hdr, s_buf, s_ready, after, tmp, written, dl, log>>
  BY <1>t DEF FlushHeader, WriteHeader, appendVars, Place, SoundCard
<1>2. after \in {"idle", "open", "read"}
  BY <1>t DEF TypeOK
<1>3. written = 0 /\ tmp = << >>
  BY <1>1, <1>t DEF Place, Appending
<1>4. Total = Len(log) /\ \A i \in 1..Len(log) : card[i] = log[i]
  <2>1. Total = Len(log)
    BY <1>1, <1>3, <1>n, <1>t DEF InRam
  <2> QED
    BY <2>1, <1>1, <1>t DEF Flushing, InRam
<1>5. InRam'
  BY <1>1, <1>t DEF InRam, Total, ByteAt
<1>6. OnDisk'
  <2>1. Durable' = Len(log)
    BY <1>1, <1>4 DEF Durable, Total
  <2>2. /\ Len(log) <= Len(CsvHeader) + s_hdr.line_count * LineMax
        /\ s_hdr.line_count <= MaxLines
    BY <1>1, <1>t DEF InRam
  <2> QED
    BY <2>1, <2>2, <1>1, <1>4, <1>n DEF OnDisk
<1>7. Place' /\ Flushing'
  <2>1. s_hdr.magic
    BY <1>1, <1>t DEF Place
  <2> QED
    BY <2>1, <1>1, <1>2, <1>3, <1>t DEF Place, Appending, Flushing
<1>8. Downloading'
  BY <1>1, <1>2, <1>t DEF Downloading, Flushes
<1>9. Interval'
  <2>1. PICK m \in Multiples :
            /\ m <= cardHdr.line_count /\ cardHdr.line_count <= s_hdr.line_count
            /\ s_hdr.line_count <= m + FlushEvery
    BY <1>1, <1>t DEF Interval
  <2>2. /\ m \in Nat /\ FlushEvery \in Nat /\ FlushEvery > 0
        /\ m + FlushEvery \in Multiples
    BY MultipleFacts
  <2>3. \E k \in Multiples : k \in Nat /\ k <= s_hdr.line_count /\ s_hdr.line_count < k + FlushEvery
    <3>1. CASE s_hdr.line_count < m + FlushEvery
      <4>1. m <= s_hdr.line_count
        BY <2>1, <2>2, <1>n
      <4> QED
        BY <3>1, <4>1, <2>2
    <3>2. CASE s_hdr.line_count = m + FlushEvery
      <4>1. m + FlushEvery \in Nat /\ m + FlushEvery < m + FlushEvery + FlushEvery
        BY <2>2
      <4> QED
        BY <3>2, <4>1, <2>2
    <3> QED
      BY <3>1, <3>2, <2>1, <2>2, <1>n
  <2>4. PICK k \in Multiples : k \in Nat /\ k <= s_hdr.line_count /\ s_hdr.line_count < k + FlushEvery
    BY <2>3
  <2>5. k + FlushEvery \in Nat
    BY <2>2, <2>4
  <2> QED
    BY <1>1, <2>4, <2>5, <1>n DEF Interval
<1> QED
  BY <1>1, <1>4, <1>5, <1>6, <1>7, <1>8, <1>9

LEMMA SoundDownload ==
    ASSUME SoundCard, SoundInv,
           \/ OpenDownload \/ FixLength \/ (\E n \in Counts : RequestChunk(n))
           \/ ReadChunk \/ CloseDownload
    PROVE  Place' /\ InRam' /\ OnDisk' /\ Flushing' /\ Downloading' /\ Interval'
<1>t. TypeOK /\ Place /\ InRam /\ OnDisk /\ Flushing /\ Downloading /\ Interval
  BY DEF SoundInv
<1>d. dl \in [open : BOOLEAN, len : Nat, pos : Nat, want : Nat,
              got : Seq(Bytes), snap : Seq(Bytes)]
  BY <1>t DEF TypeOK
<1>n. /\ Total \in Nat /\ Len(log) \in Nat /\ log \in Seq(Bytes)
      /\ dl.pos \in Nat /\ dl.len \in Nat /\ dl.want \in Nat
      /\ dl.got \in Seq(Bytes) /\ dl.snap \in Seq(Bytes)
      /\ Len(dl.got) \in Nat /\ Len(dl.snap) \in Nat
  <2>1. Total \in Nat /\ log \in Seq(Bytes)
    BY <1>t, Numbers DEF TypeOK
  <2>2. /\ dl.pos \in Nat /\ dl.len \in Nat /\ dl.want \in Nat
        /\ dl.got \in Seq(Bytes) /\ dl.snap \in Seq(Bytes)
    BY <1>d
  <2> QED
    BY <2>1, <2>2
<1>1. /\ UNCHANGED <<cardHdr, card, s_hdr, s_buf, s_ready, log, tmp, written>>
      /\ pc \in {"idle", "open", "read"} /\ pc' \in {"idle", "flushData"}
      /\ pc' # "idle" => s_ready
  BY DEF OpenDownload, FixLength, RequestChunk, ReadChunk, CloseDownload,
         cardVars, appendVars, ghosts
<1>2. written = 0 /\ tmp = << >>
  BY <1>1, <1>t DEF Place, Appending
<1>3. InRam' /\ OnDisk'
  BY <1>1, <1>2, <1>t DEF InRam, OnDisk, Total, ByteAt, Durable
<1>4. Interval'
  BY <1>1, <1>t DEF Interval, Flushes
<1>5. Place' /\ Flushing'
  BY <1>1, <1>2, <1>t DEF Place, Appending, Flushing
<1>6. s_ready => Total = Len(log)
  BY <1>2, <1>n, <1>t DEF InRam
<1>7. Downloading'
  <2>1. CASE OpenDownload
    BY <2>1, <1>1, SameDownload DEF OpenDownload
  <2>2. CASE FixLength
    <3>1. dl' = [open |-> TRUE, len |-> Total, pos |-> 0, want |-> 0, got |-> << >>, snap |-> log]
      BY <2>2 DEF FixLength, NoDownload
    <3>2. Total = Len(log) /\ pc' = "idle"
      BY <2>2, <1>6, <1>t DEF FixLength, Place
    <3>3. /\ dl'.open /\ dl'.len = Len(log) /\ dl'.pos = 0 /\ dl'.got = << >> /\ dl'.snap = log
      BY <3>1, <3>2
    <3>4. Len(dl'.got) = 0
      BY <3>3
    <3> QED
      BY <3>2, <3>3, <3>4, <1>1, <1>n DEF Downloading, Flushes
  <2>3. CASE \E n \in Counts : RequestChunk(n)
    <3>1. PICK n \in Counts : RequestChunk(n)
      BY <2>3
    <3>2. /\ dl.open /\ dl.pos < dl.len /\ dl.pos < Total /\ n \in Nat
          /\ dl' = [dl EXCEPT !.want = Least(Least(n, dl.len - dl.pos), Total - dl.pos)]
          /\ pc' = "flushData" /\ after' = "read"
      BY <3>1, EnvironmentAssumption DEF RequestChunk
    <3>3. PICK w : w = Least(Least(n, dl.len - dl.pos), Total - dl.pos)
      OBVIOUS
    <3>4. w \in Nat /\ w <= dl.len - dl.pos
      BY <3>2, <3>3, <1>n DEF Least
    <3>5. /\ dl'.want = w /\ dl'.pos = dl.pos /\ dl'.len = dl.len /\ dl'.open = dl.open
          /\ dl'.got = dl.got /\ dl'.snap = dl.snap
      BY <3>2, <3>3, <1>d
    <3>6. dl.pos + w <= dl.len
      BY <3>4, <1>n
    <3> QED
      BY <3>2, <3>5, <3>6, <1>1, <1>t DEF Downloading, Flushes
  <2>4. CASE ReadChunk
    <3>1. PICK k \in 0..dl.want :
              /\ pc = "read" /\ pc' = "idle"
              /\ dl' = [dl EXCEPT !.pos = @ + k, !.want = 0,
                                  !.got = @ \o [i \in 1..k |-> card[dl.pos + i]]]
      BY <2>4 DEF ReadChunk
    <3>2. /\ dl.open /\ dl.pos + dl.want <= Len(dl.snap)
          /\ dl.len = Len(dl.snap) /\ Len(dl.snap) <= Len(log)
          /\ \A i \in 1..Len(dl.snap) : dl.snap[i] = log[i]
          /\ dl.pos = Len(dl.got)
          /\ \A i \in 1..Len(dl.got) : dl.got[i] = dl.snap[i]
      BY <3>1, <1>t DEF Downloading
    <3>3. cardHdr = s_hdr /\ s_ready
      BY <3>1, <1>t DEF Flushing, Place
    <3>4. Durable = Len(log)
      BY <3>3, <1>6 DEF Durable, Total
    <3>5. \A i \in 1..Len(log) : card[i] = log[i]
      BY <3>4, <1>t DEF OnDisk
    <3>6. PICK piece : piece = [i \in 1..k |-> card[dl.pos + i]]
      OBVIOUS
    <3>7. k \in Nat /\ dl.pos + k <= Len(dl.snap)
      BY <3>1, <3>2, <1>n
    <3>8. \A i \in 1..k : piece[i] = dl.snap[dl.pos + i]
      <4>1. ASSUME NEW i \in 1..k PROVE piece[i] = dl.snap[dl.pos + i]
        <5>1. dl.pos + i \in 1..Len(dl.snap) /\ dl.pos + i \in 1..Len(log)
          BY <3>2, <3>7, <1>n
        <5> QED
          BY <3>2, <3>5, <3>6, <5>1
      <4> QED
        BY <4>1
    <3>9. piece \in Seq(Bytes) /\ Len(piece) = k
      <4>1. \A i \in 1..k : piece[i] \in Bytes
        <5>1. ASSUME NEW i \in 1..k PROVE dl.snap[dl.pos + i] \in Bytes
          <6>1. dl.pos + i \in 1..Len(dl.snap)
            BY <3>7, <1>n
          <6> QED
            BY <6>1, <1>n
        <5> QED
          BY <5>1, <3>8
      <4> QED
        BY <4>1, <3>6, <3>7
    <3>10. /\ dl'.open = dl.open /\ dl'.len = dl.len /\ dl'.snap = dl.snap
           /\ dl'.pos = dl.pos + k /\ dl'.got = dl.got \o piece
      BY <3>1, <3>6, <1>d
    <3>11. Len(dl'.got) = dl.pos + k
      <4>1. Len(dl.got \o piece) = Len(dl.got) + Len(piece)
        <5>1. PICK g \in Seq(Bytes) : g = dl.got
          BY <1>n
        <5>2. Len(g \o piece) = Len(g) + Len(piece)
          BY <3>9
        <5> QED
          BY <5>1, <5>2
      <4> QED
        BY <4>1, <3>2, <3>9, <3>10
    <3>12. ASSUME NEW i \in 1..dl.pos + k PROVE dl'.got[i] = dl.snap[i]
      <4>1. CASE i <= dl.pos
        BY <4>1, <3>2, <3>7, <3>9, <3>10, <1>n
      <4>2. CASE i > dl.pos
        <5>1. i - dl.pos \in 1..k /\ dl.pos + (i - dl.pos) = i
          BY <4>2, <3>7, <1>n
        <5>2. (dl.got \o piece)[i] = piece[i - dl.pos]
          BY <4>2, <5>1, <3>2, <3>9, <1>n
        <5> QED
          BY <5>1, <5>2, <3>8, <3>10
      <4> QED
        BY <4>1, <4>2, <3>7, <1>n
    <3> QED
      BY <3>1, <3>2, <3>7, <3>10, <3>11, <3>12, <1>1 DEF Downloading, Flushes
  <2>5. CASE CloseDownload
    BY <2>5 DEF CloseDownload, Downloading, NoDownload, Flushes
  <2> QED
    BY <2>1, <2>2, <2>3, <2>4, <2>5
<1> QED
  BY <1>3, <1>4, <1>5, <1>7

LEMMA SoundCrash ==
    ASSUME SoundCard, SoundInv, Crash
    PROVE  Place' /\ InRam' /\ OnDisk' /\ Flushing' /\ Downloading' /\ Interval'
<1>t. TypeOK /\ Place /\ InRam /\ OnDisk /\ Flushing /\ Downloading /\ Interval
  BY DEF SoundInv
<1>1. /\ UNCHANGED <<cardHdr, card>> /\ ~s_ready' /\ pc' = "boot" /\ after' = "idle"
      /\ tmp' = << >> /\ written' = 0 /\ dl' = NoDownload
      /\ log' = SubSeq(log, 1, Least(Len(log), Durable))
  BY DEF Crash, cardVars, Durable
<1>2. Durable \in Nat /\ Durable <= Len(log) /\ log \in Seq(Bytes) /\ Len(log) \in Nat
  BY <1>t, Numbers DEF OnDisk, TypeOK
<1>3. Least(Len(log), Durable) = Durable
  BY <1>2 DEF Least
<1>4. Len(log') = Durable /\ \A i \in 1..Durable : log'[i] = log[i]
  BY <1>1, <1>2, <1>3
<1>5. OnDisk'
  <2>1. Durable' = Durable
    BY <1>1 DEF Durable
  <2>2. \A i \in 1..Durable : card'[i] = log'[i]
    BY <1>1, <1>4, <1>t DEF OnDisk
  <2>3. cardHdr' = cardHdr /\ Durable <= Len(log') /\ Durable = Len(log')
    <3>1. cardHdr' = cardHdr
      BY <1>1
    <3>2. Durable = Len(log')
      BY <1>4
    <3> QED
      BY <3>1, <3>2, <1>2
  <2>4. /\ Durable <= Len(CsvHeader) + cardHdr.line_count * LineMax
        /\ cardHdr.line_count <= MaxLines
    BY <1>t DEF OnDisk
  <2> QED
    BY <2>1, <2>2, <2>3, <2>4 DEF OnDisk
<1>6. Place' /\ InRam' /\ Flushing'
  BY <1>1, <1>t DEF Place, InRam, Flushing, Appending
<1>7. Downloading' /\ Interval'
  BY <1>1, <1>t DEF Downloading, Interval, NoDownload, Flushes
<1> QED
  BY <1>5, <1>6, <1>7

LEMMA SoundStep == SoundCard /\ SoundInv /\ [Next]_vars => SoundInv'
<1> SUFFICES ASSUME SoundCard, SoundInv, [Next]_vars PROVE SoundInv'
  OBVIOUS
<1> SUFFICES Place' /\ InRam' /\ OnDisk' /\ Flushing' /\ Downloading' /\ Interval'
  BY TypeStep DEF SoundInv
<1>2. CASE Boot
  BY <1>2, SoundBoot
<1>3. CASE \E line \in Lines : Append_(line)
  BY <1>3, SoundAppend
<1>4. CASE CopyChunk
  BY <1>4, SoundCopy
<1>5. CASE WriteSector \/ WriteSectorFails
  BY <1>5, SoundSector
<1>6. CASE AppendEnd
  BY <1>6, SoundAppendEnd
<1>7. CASE FlushData
  BY <1>7, SoundFlushData
<1>8. CASE FlushHeader
  BY <1>8, SoundFlushHeader
<1>9. CASE \/ OpenDownload \/ FixLength \/ (\E n \in Counts : RequestChunk(n))
           \/ ReadChunk \/ CloseDownload
  BY <1>9, SoundDownload
<1>10. CASE Crash
  BY <1>10, SoundCrash
<1>11. CASE UNCHANGED vars
  <2>1. UNCHANGED <<cardHdr, card, s_hdr, s_buf, s_ready, pc, after, tmp, written, dl, log>>
    BY <1>11 DEF vars
  <2>2. Place' /\ InRam' /\ OnDisk'
    BY <2>1 DEF SoundInv, Place, InRam, OnDisk, Appending, Total, ByteAt, Durable
  <2>3. Flushing' /\ Downloading' /\ Interval'
    BY <2>1 DEF SoundInv, Flushing, Downloading, Interval, Total, ByteAt
  <2> QED
    BY <2>2, <2>3
<1> QED
  BY <1>2, <1>3, <1>4, <1>5, <1>6, <1>7, <1>8, <1>9, <1>10, <1>11 DEF Next, Step

-----------------------------------------------------------------------------
(* What follows from it. *)

LEMMA SoundReachable == ASSUME SoundCard PROVE Spec => []SoundInv
<1>1. Init => SoundInv
  BY SoundInit
<1>2. SoundInv /\ [Next]_vars => SoundInv'
  BY SoundStep
<1> QED
  BY <1>1, <1>2, PTL DEF Spec

\* On a sound card with room, between two calls the log is exactly the lines
\* append accepted: for every sector size, every length of lines, every pattern
\* of flushes, and every moment of a power cut.
THEOREM LogIsExact == ASSUME SoundCard PROVE Spec => []Mirror
<1>1. ASSUME SoundInv PROVE Mirror
  <2> SUFFICES ASSUME pc = "idle", s_ready PROVE Content = log
    BY DEF Mirror
  <2>1. written = 0 /\ Len(log) \in Nat /\ log \in Seq(Bytes)
    BY <1>1, Numbers DEF SoundInv, Place, Appending, TypeOK
  <2>2. Total = Len(log) /\ \A i \in 1..Len(log) : ByteAt(i) = log[i]
    BY <1>1, <2>1 DEF SoundInv, InRam
  <2>3. log = [i \in 1..Len(log) |-> log[i]]
    BY <2>1
  <2>4. Content = [i \in 1..Len(log) |-> log[i]]
    BY <2>2 DEF Content
  <2> QED
    BY <2>3, <2>4
<1> QED
  BY <1>1, SoundReachable, PTL

\* ... and a download is the log as it was when the download was opened, however
\* many lines are appended and sectors rewritten before it ends.
THEOREM DownloadIsExact == ASSUME SoundCard PROVE Spec => []DownloadExact
<1>1. ASSUME SoundInv PROVE DownloadExact
  <2> SUFFICES ASSUME dl.open
               PROVE  dl.got = SubSeq(dl.snap, 1, Len(dl.got)) /\ dl.len = Len(dl.snap)
    BY DEF DownloadExact
  <2>1. dl.got \in Seq(Bytes) /\ dl.snap \in Seq(Bytes)
    BY <1>1 DEF SoundInv, TypeOK
  <2>2. /\ dl.len = Len(dl.snap) /\ Len(dl.got) <= Len(dl.snap)
        /\ \A i \in 1..Len(dl.got) : dl.got[i] = dl.snap[i]
    BY <1>1 DEF SoundInv, Downloading
  <2>3. PICK g \in Seq(Bytes), s \in Seq(Bytes) : g = dl.got /\ s = dl.snap
    BY <2>1
  <2>4. SubSeq(s, 1, Len(g)) = [i \in 1..Len(g) |-> s[i]]
    BY <2>2, <2>3
  <2>5. g = [i \in 1..Len(g) |-> g[i]]
    OBVIOUS
  <2> QED
    BY <2>2, <2>3, <2>4, <2>5
<1> QED
  BY <1>1, SoundReachable, PTL

-----------------------------------------------------------------------------
(* The abstract log. *)

\* What the card holds is how the log began.
LEMMA OnCardPrefix ==
    ASSUME OnDisk
    PROVE  OnCard = [i \in 1..Durable |-> log[i]]
BY DEF OnDisk, OnCard, Durable

\* The steps in which neither the log nor what a restart would find changes.
LEMMA QuietSteps ==
    ASSUME SoundCard, SoundInv, [Next]_vars, ~AppendEnd, ~FlushHeader, ~Crash
    PROVE  /\ UNCHANGED <<log, cardHdr, OnCard>>
           /\ \/ s_ready' = s_ready /\ s_hdr'.line_count = s_hdr.line_count
              \/ ~s_ready /\ s_ready' /\ s_hdr' = cardHdr
<1>1. /\ UNCHANGED <<log, cardHdr>>
      /\ \/ s_ready' = s_ready /\ s_hdr'.line_count = s_hdr.line_count
         \/ ~s_ready /\ s_ready' /\ s_hdr' = cardHdr
  <2>1. CASE Boot
    <3>1. ~s_ready /\ UNCHANGED <<cardHdr, log>> /\ (s_ready' => s_hdr' = cardHdr)
      BY <2>1, SoundBoot
    <3>2. CASE BootWithoutCard
      BY <3>1, <3>2 DEF BootWithoutCard
    <3>3. CASE BootResume \/ BootFresh
      BY <3>1, <3>3 DEF BootResume, BootFresh
    <3> QED
      BY <2>1, <3>2, <3>3 DEF Boot
  <2>2. s_hdr \in Headers
    BY DEF SoundInv, TypeOK
  <2>3. CASE CopyChunk
    BY <2>2, <2>3 DEF CopyChunk, cardVars, ghosts, Headers
  <2>4. CASE WriteSector \/ WriteSectorFails
    BY <2>2, <2>4 DEF WriteSector, WriteSectorFails, ghosts, Headers
  <2>5. CASE (\E line \in Lines : Append_(line)) \/ (\E n \in Counts : RequestChunk(n))
    BY <2>5 DEF Append_, RequestChunk, cardVars, ghosts
  <2>6. CASE FlushData \/ OpenDownload \/ FixLength \/ ReadChunk \/ CloseDownload
    BY <2>6 DEF FlushData, OpenDownload, FixLength, ReadChunk, CloseDownload, cardVars, ghosts
  <2>7. CASE UNCHANGED vars
    BY <2>7 DEF vars
  <2> QED
    BY <2>1, <2>3, <2>4, <2>5, <2>6, <2>7 DEF Next, Step
<1>2. OnCard' = OnCard
  <2>1. OnDisk /\ OnDisk'
    BY SoundStep DEF SoundInv
  <2>2. OnCard' = [i \in 1..Durable' |-> log'[i]]
    BY <2>1 DEF OnDisk, OnCard, Durable
  <2>3. Durable' = Durable
    BY <1>1 DEF Durable
  <2> QED
    BY <2>1, <2>2, <2>3, <1>1, OnCardPrefix
<1> QED
  BY <1>1, <1>2

\* A line is accepted.
LEMMA AppendEnds ==
    ASSUME SoundCard, SoundInv, AppendEnd
    PROVE  /\ s_ready /\ s_ready' /\ UNCHANGED <<cardHdr, OnCard>>
           /\ s_hdr'.line_count = s_hdr.line_count + 1
           /\ \E line \in Lines : log' = log \o line \o <<NL>>
           /\ s_hdr.line_count - cardHdr.line_count < FlushEvery
<1>t. TypeOK /\ Place /\ Interval
  BY DEF SoundInv
<1>1. /\ pc = "copy" /\ s_ready /\ UNCHANGED <<cardHdr, card, s_ready>> /\ log' = log \o tmp
      /\ s_hdr' = [s_hdr EXCEPT !.line_count = s_hdr.line_count + 1]
  BY <1>t DEF AppendEnd, cardVars, Place
<1>2. OnCard' = OnCard
  BY <1>1 DEF OnCard
<1>3. PICK line \in Lines : tmp = line \o <<NL>>
  BY <1>1, <1>t DEF Place, Appending
<1>4. log' = log \o line \o <<NL>>
  <2>1. log \in Seq(Bytes) /\ line \in Seq(Bytes) /\ <<NL>> \in Seq(Bytes)
    BY <1>t, BytesAssumption DEF TypeOK
  <2>2. (log \o line) \o <<NL>> = log \o (line \o <<NL>>)
    BY <2>1, ConcatAssociative
  <2> QED
    BY <1>1, <1>3, <2>2
<1>5. s_hdr.line_count - cardHdr.line_count < FlushEvery
  <2>1. PICK m \in Multiples :
            m <= cardHdr.line_count /\ s_hdr.line_count < m + FlushEvery
    BY <1>1, <1>t DEF Interval, Flushes
  <2>2. m \in Nat /\ FlushEvery \in Nat
    BY MultipleFacts
  <2>3. s_hdr.line_count \in Nat /\ cardHdr.line_count \in Nat
    BY <1>t, Numbers
  <2> QED
    BY ONLY <2>1, <2>2, <2>3
<1>6. s_hdr'.line_count = s_hdr.line_count + 1
  <2>1. s_hdr \in Headers
    BY <1>t DEF TypeOK
  <2> QED
    BY <1>1, <2>1 DEF Headers
<1> QED
  BY <1>1, <1>2, <1>4, <1>5, <1>6

\* The header of a flush makes the whole log durable.
LEMMA HeaderSyncs ==
    ASSUME SoundCard, SoundInv, FlushHeader
    PROVE  s_ready /\ UNCHANGED <<s_ready, s_hdr, log>> /\ cardHdr' = s_hdr /\ OnCard' = log
<1>1. /\ cardHdr' = s_hdr /\ Total = Len(log) /\ s_ready
      /\ \A i \in 1..Len(log) : card[i] = log[i]
  BY SoundFlushHeader
<1>2. UNCHANGED <<s_ready, s_hdr, log, card>>
  BY DEF FlushHeader
<1>3. OnCard' = [i \in 1..Len(log) |-> card[i]]
  BY <1>1, <1>2 DEF OnCard, Total
<1>4. log \in Seq(Bytes)
  BY DEF SoundInv, TypeOK
<1>5. log = [i \in 1..Len(log) |-> log[i]]
  BY <1>4
<1> QED
  BY <1>1, <1>2, <1>3, <1>5

\* A power cut takes the log back to what the card holds.
LEMMA CrashCuts ==
    ASSUME SoundCard, SoundInv, Crash
    PROVE  ~s_ready' /\ UNCHANGED <<cardHdr, OnCard>> /\ log' = OnCard
<1>1. /\ UNCHANGED <<cardHdr, card>> /\ ~s_ready'
      /\ log' = SubSeq(log, 1, Least(Len(log), Durable))
  BY DEF Crash, cardVars, Durable
<1>2. Durable \in Nat /\ Durable <= Len(log) /\ log \in Seq(Bytes) /\ Len(log) \in Nat /\ OnDisk
  BY Numbers DEF SoundInv, OnDisk, TypeOK
<1>3. Least(Len(log), Durable) = Durable
  BY <1>2 DEF Least
<1>4. SubSeq(log, 1, Durable) = [i \in 1..Durable |-> log[i]]
  BY <1>2
<1>5. OnCard' = OnCard
  BY <1>1 DEF OnCard
<1> QED
  BY <1>1, <1>2, <1>3, <1>4, <1>5, OnCardPrefix

\* On a sound card with room the log is a CsvLog: an append-only file of whole
\* lines, which a power cut takes back to a moment it has been at, at most
\* FlushEvery lines old (append, flush, init).
THEOREM LogIsCsvLog == ASSUME SoundCard PROVE Spec => ImplementsCsvLog
<1>1. Init => Abstract!Init
  <2> SUFFICES ASSUME Init PROVE Abstract!Init
    OBVIOUS
  <2>1. SoundInv /\ log = CsvHeader /\ ~s_ready
    BY SoundInit DEF Init, SoundCard
  <2>2. OnCard = [i \in 1..Durable |-> log[i]] /\ Durable = Len(log) /\ log \in Seq(Bytes)
    BY <2>1, OnCardPrefix DEF SoundInv, OnDisk, TypeOK
  <2>3. log = [i \in 1..Len(log) |-> log[i]]
    BY <2>2
  <2> QED
    BY <2>1, <2>2, <2>3 DEF Abstract!Init
<1>2. SoundInv /\ [Next]_vars => [Abstract!Next]_(Abstract!vars)
  <2> SUFFICES ASSUME SoundInv, [Next]_vars
               PROVE  [Abstract!Next]_(Abstract!vars)
    OBVIOUS
  <2>n. s_hdr.line_count \in Nat /\ cardHdr.line_count \in Nat
    BY Numbers DEF SoundInv
  <2>1. CASE AppendEnd
    <3>1. /\ s_ready /\ s_ready' /\ UNCHANGED <<cardHdr, OnCard>>
          /\ s_hdr'.line_count = s_hdr.line_count + 1
          /\ \E line \in Lines : log' = log \o line \o <<NL>>
          /\ s_hdr.line_count - cardHdr.line_count < FlushEvery
      BY <2>1, AppendEnds
    <3>2. s_hdr'.line_count - cardHdr'.line_count = (s_hdr.line_count - cardHdr.line_count) + 1
      BY <3>1, <2>n
    <3> QED
      BY <3>1, <3>2 DEF Abstract!Next, Abstract!AppendLine
  <2>2. CASE FlushHeader
    <3>1. s_ready /\ UNCHANGED <<s_ready, s_hdr, log>> /\ cardHdr' = s_hdr /\ OnCard' = log
      BY <2>2, HeaderSyncs
    <3>2. s_hdr'.line_count - cardHdr'.line_count = 0
      BY <3>1, <2>n
    <3> QED
      BY <3>1, <3>2 DEF Abstract!Next, Abstract!Sync
  <2>3. CASE Crash
    BY <2>3, CrashCuts DEF Abstract!Next, Abstract!PowerCut
  <2>4. CASE ~AppendEnd /\ ~FlushHeader /\ ~Crash
    <3>1. /\ UNCHANGED <<log, cardHdr, OnCard>>
          /\ \/ s_ready' = s_ready /\ s_hdr'.line_count = s_hdr.line_count
             \/ ~s_ready /\ s_ready' /\ s_hdr' = cardHdr
      BY <2>4, QuietSteps
    <3>2. cardHdr.line_count - cardHdr.line_count = 0
      BY <2>n
    <3> QED
      BY <3>1, <3>2 DEF Abstract!vars
  <2> QED
    BY <2>1, <2>2, <2>3, <2>4
<1> QED
  BY <1>1, <1>2, SoundReachable, PTL DEF Spec, ImplementsCsvLog, Abstract!Spec

-----------------------------------------------------------------------------
(* The count of the lines. *)

\* A line adds its end.
LEMMA NewlinesOfAppend ==
    ASSUME NEW text \in Seq(Bytes), NEW line \in Lines, Newlines(line) = {}
    PROVE  Cardinality(Newlines(text \o line \o <<NL>>)) = Cardinality(Newlines(text)) + 1
<1> DEFINE more == text \o line \o <<NL>>
           last == Len(text) + Len(line) + 1
<1>1. /\ line \in Seq(Bytes) /\ Len(text) \in Nat /\ Len(line) \in Nat
      /\ \A i \in 1..Len(line) : line[i] # NL
  BY BytesAssumption DEF Newlines
<1>2. /\ Len(more) = last
      /\ \A i \in 1..Len(text) : more[i] = text[i]
      /\ \A i \in Len(text) + 1..Len(text) + Len(line) : more[i] = line[i - Len(text)]
      /\ more[last] = NL
  <2>1. text \o line \in Seq(Bytes) /\ <<NL>> \in Seq(Bytes)
    BY <1>1, BytesAssumption
  <2>2. /\ Len(text \o line) = Len(text) + Len(line)
        /\ \A i \in 1..Len(text) : (text \o line)[i] = text[i]
        /\ \A i \in Len(text) + 1..Len(text) + Len(line) : (text \o line)[i] = line[i - Len(text)]
    BY <1>1
  <2>3. PICK s \in Seq(Bytes) : s = text \o line
    BY <2>1
  <2>4. /\ Len(s \o <<NL>>) = Len(s) + 1
        /\ \A i \in 1..Len(s) : (s \o <<NL>>)[i] = s[i]
        /\ (s \o <<NL>>)[Len(s) + 1] = NL
    BY <2>1
  <2>5. /\ \A i \in 1..Len(text) : i \in 1..Len(s)
        /\ \A i \in Len(text) + 1..Len(text) + Len(line) : i \in 1..Len(s)
    BY <1>1, <2>2, <2>3
  <2> QED
    BY <2>2, <2>3, <2>4, <2>5
<1>3. Newlines(more) = Newlines(text) \cup {last}
  <2>1. last \in 1..Len(more) /\ \A i \in 1..Len(text) : i \in 1..Len(more)
    BY <1>1, <1>2
  <2>2. ASSUME NEW i \in 1..Len(more), more[i] = NL, i # last PROVE i \in 1..Len(text) /\ text[i] = NL
    <3>1. i \in 1..Len(text) \/ i \in Len(text) + 1..Len(text) + Len(line)
      BY <1>1, <1>2, <2>2
    <3>2. ASSUME i \in Len(text) + 1..Len(text) + Len(line) PROVE FALSE
      <4>1. i - Len(text) \in 1..Len(line)
        BY <1>1, <3>2
      <4> QED
        BY <1>1, <1>2, <2>2, <3>2, <4>1
    <3> QED
      BY <1>2, <2>2, <3>1, <3>2
  <2> HIDE DEF more, last
  <2> QED
    BY <1>2, <2>1, <2>2 DEF Newlines
<1>4. last \notin Newlines(text) /\ IsFiniteSet(Newlines(text))
  <2>1. last \notin 1..Len(text)
    BY <1>1
  <2>2. IsFiniteSet(1..Len(text))
    BY <1>1, FS_Interval
  <2>3. Newlines(text) \subseteq 1..Len(text)
    BY DEF Newlines
  <2> QED
    BY <2>1, <2>2, <2>3, FS_Subset
<1> HIDE DEF more, last
<1>5. Cardinality(Newlines(text) \cup {last}) = Cardinality(Newlines(text)) + 1
  BY <1>4, FS_AddElement
<1>6. more = text \o line \o <<NL>>
  BY DEF more
<1> QED
  BY <1>3, <1>5, <1>6

LEMMA CountedStep ==
    ASSUME SoundCard, PlainLines, SoundInv, Counted, [Next]_vars
    PROVE  Counted'
<1>n. s_hdr.line_count \in Nat /\ log \in Seq(Bytes)
  BY Numbers DEF SoundInv, TypeOK
<1>1. CASE AppendEnd
  <2>1. /\ s_ready /\ s_ready' /\ UNCHANGED <<cardHdr, OnCard>>
        /\ s_hdr'.line_count = s_hdr.line_count + 1
    BY <1>1, AppendEnds
  <2>2. PICK line \in Lines : log' = log \o line \o <<NL>>
    BY <1>1, AppendEnds
  <2>3. Cardinality(Newlines(log')) = Cardinality(Newlines(log)) + 1
    BY <2>2, <1>n, NewlinesOfAppend DEF PlainLines
  <2>4. Newlines(log)' = Newlines(log') /\ Newlines(OnCard)' = Newlines(OnCard')
    BY DEF Newlines
  <2> QED
    BY <2>1, <2>3, <2>4, <1>n DEF Counted
<1>2. CASE FlushHeader
  <2>1. s_ready /\ UNCHANGED <<s_ready, s_hdr, log>> /\ cardHdr' = s_hdr /\ OnCard' = log
    BY <1>2, HeaderSyncs
  <2> QED
    BY <2>1 DEF Counted, Newlines
<1>3. CASE Crash
  <2>1. ~s_ready' /\ UNCHANGED <<cardHdr, OnCard>>
    BY <1>3, CrashCuts
  <2> QED
    BY <2>1 DEF Counted, Newlines
<1>4. CASE ~AppendEnd /\ ~FlushHeader /\ ~Crash
  <2>1. /\ UNCHANGED <<log, cardHdr, OnCard>>
        /\ \/ s_ready' = s_ready /\ s_hdr'.line_count = s_hdr.line_count
           \/ ~s_ready /\ s_ready' /\ s_hdr' = cardHdr
    BY <1>4, QuietSteps
  <2>2. ~s_ready => OnCard = log
    <3>1. ~s_ready => Durable = Len(log)
      BY DEF SoundInv, OnDisk
    <3>2. log = [i \in 1..Len(log) |-> log[i]]
      BY <1>n
    <3> QED
      BY <3>1, <3>2, OnCardPrefix DEF SoundInv
  <2>3. Newlines(log)' = Newlines(log) /\ Newlines(OnCard)' = Newlines(OnCard)
    BY <2>1 DEF Newlines
  <2>4. CASE s_ready' = s_ready /\ s_hdr'.line_count = s_hdr.line_count
    BY <2>1, <2>3, <2>4 DEF Counted
  <2>5. CASE ~s_ready /\ s_ready' /\ s_hdr' = cardHdr
    BY <2>1, <2>2, <2>3, <2>5 DEF Counted
  <2> QED
    BY <2>1, <2>4, <2>5
<1> QED
  BY <1>1, <1>2, <1>3, <1>4

\* If a line has no newline in it, the line count is the number of lines a
\* download would contain, wherever the power was cut.
THEOREM LineCountIsExact ==
    ASSUME SoundCard, PlainLines
    PROVE  Spec => []LineCountExact
<1>1. Init => Counted
  <2> SUFFICES ASSUME Init PROVE Counted
    OBVIOUS
  <2>1. SoundInv /\ log = CsvHeader /\ ~s_ready /\ cardHdr.line_count = 0
    BY SoundInit DEF Init, SoundCard, FreshHeader, Header
  <2>2. OnCard = [i \in 1..Durable |-> log[i]] /\ Durable = Len(log) /\ log \in Seq(Bytes)
    BY <2>1, OnCardPrefix DEF SoundInv, OnDisk, TypeOK
  <2>3. OnCard = CsvHeader
    BY <2>1, <2>2
  <2> QED
    BY <2>1, <2>3 DEF Counted, PlainLines
<1>2. SoundInv /\ Counted => LineCountExact
  <2> SUFFICES ASSUME SoundInv, Counted, pc = "idle", s_ready
               PROVE  Cardinality({i \in 1..Total : ByteAt(i) = NL}) = 1 + s_hdr.line_count
    BY DEF LineCountExact
  <2>1. written = 0 /\ Len(log) \in Nat
    BY Numbers DEF SoundInv, Place, Appending
  <2>2. Total = Len(log) /\ \A i \in 1..Len(log) : ByteAt(i) = log[i]
    BY <2>1 DEF SoundInv, InRam
  <2>3. {i \in 1..Total : ByteAt(i) = NL} = Newlines(log)
    BY <2>2 DEF Newlines
  <2> QED
    BY <2>3 DEF Counted
<1>3. SoundInv /\ Counted /\ [Next]_vars => Counted'
  BY CountedStep
<1> QED
  BY <1>1, <1>2, <1>3, SoundReachable, PTL DEF Spec
=============================================================================
