------------------------------ MODULE Datalog -------------------------------
(***************************************************************************)
(* The CSV log on the SD card (storage/datalog.cpp) and the download of it *)
(* over HTTP (the /sd-csv path of portal/captive_portal.cpp), down to the  *)
(* single sector write, with power cuts between any two of them.           *)
(*                                                                         *)
(* Sector 0 of the card is cardHdr; sectors 1.. are card, laid end to end, *)
(* so that sector DATA_START + k is card[k*SectorSize+1 .. (k+1)*...].     *)
(* The firmware is one thread: append, flush and read_data never run at    *)
(* the same time, and pc says where the one that runs stands.  A block is  *)
(* written or not, never half written.                                     *)
(***************************************************************************)
EXTENDS Integers, Sequences, FiniteSets

CONSTANTS
    SectorSize,   \* 512 in the code
    Sectors,      \* data sectors of the card
    FlushEvery,   \* 10 in the code
    LineMax,      \* sizeof(tmp) in append, 256 in the code
    Bytes,        \* the bytes that occur
    NL,           \* the newline
    Zero,         \* what memset writes, and what a blank card holds
    CsvHeader,    \* the column header with its newline
    Lines,        \* what the main loop may append
    Counts,       \* how many bytes httpd asks for in one fs_read
    MaxLines,     \* bound: no append once that many lines are in the log
    BlankCard,    \* TRUE: the card has never held a log
    MayFail       \* which transfers may fail: a subset of {"read", "write"}

CardBytes == Sectors * SectorSize

ASSUME SizesAssumption ==
    /\ SectorSize \in Nat \ {0}
    /\ Sectors \in Nat \ {0}
    /\ FlushEvery \in Nat \ {0}
    /\ LineMax \in Nat
    /\ MaxLines \in Nat

ASSUME BytesAssumption ==
    /\ NL \in Bytes
    /\ Zero \in Bytes
    /\ CsvHeader \in Seq(Bytes)
    /\ Len(CsvHeader) < SectorSize
    /\ Lines \subseteq Seq(Bytes)

ASSUME EnvironmentAssumption ==
    /\ BlankCard \in BOOLEAN
    /\ MayFail \subseteq {"read", "write"}
    /\ Counts \subseteq Nat \ {0}

VARIABLES
    cardHdr,   \* sector 0
    card,      \* the data sectors
    s_hdr,     \* the header in RAM
    s_buf,     \* the sector being filled
    s_ready,
    pc,        \* "boot", "idle", or the step that comes next
    after,     \* where a running flush returns to
    tmp,       \* append: the line with its newline
    written,   \* append: bytes of tmp already in the buffer
    dl,        \* the running download
    log,       \* ghost: the bytes of every append that returned true
    clean,     \* ghost: the running flush has not failed so far
    synced     \* ghost: the content at the last flush that did not fail

cardVars == <<cardHdr, card>>
appendVars == <<tmp, written>>
ghosts == <<log, clean, synced>>
vars == <<cardHdr, card, s_hdr, s_buf, s_ready, pc, after, tmp, written, dl,
          log, clean, synced>>

\* The smaller of two numbers, as the ?: of the loops takes it.  (Mutant: the
\* chunk is not cut to the space that is left.)
LeastUncut(a, b) == a
Least(a, b) == IF a < b THEN a ELSE b

Header(m, d, l, b) ==
    [magic |-> m, data_bytes |-> d, line_count |-> l, buf_used |-> b]
ZeroHeader == Header(FALSE, 0, 0, 0)
FreshHeader == Header(TRUE, 0, 0, Len(CsvHeader))
Headers == [magic : BOOLEAN, data_bytes : Nat, line_count : Nat, buf_used : Nat]

ZeroBuffer == [i \in 1..SectorSize |-> Zero]
HeaderBuffer ==
    [i \in 1..SectorSize |-> IF i <= Len(CsvHeader) THEN CsvHeader[i] ELSE Zero]

NoDownload == [open |-> FALSE, len |-> 0, pos |-> 0, want |-> 0,
               got |-> << >>, snap |-> << >>]

\* get_data_bytes
Total == s_hdr.data_bytes + s_hdr.buf_used

\* Byte i of the log: on the card up to data_bytes, then in the buffer.
ByteAt(i) == IF i <= s_hdr.data_bytes THEN card[i] ELSE s_buf[i - s_hdr.data_bytes]
Content == [i \in 1..Total |-> ByteAt(i)]

\* Offset in card of the sector current_sector() names.  (Mutant: computed from
\* get_data_bytes(), so that a full buffer goes one sector too far.)
BaseAfterBuffer == (Total \div SectorSize) * SectorSize
Base == (s_hdr.data_bytes \div SectorSize) * SectorSize

\* What a boot takes over from the header it finds.  (Mutant: the lines are
\* counted from the boot on.)
ResumedSessionCount == [cardHdr EXCEPT !.line_count = 0]
ResumedHeader == cardHdr

\* A flush is due at this line count.  (Mutant: one line late.)
FlushDueLate(n) == n % (FlushEvery + 1) = 0
FlushDue(n) == n % FlushEvery = 0

\* flush has a partial sector to write.  (Mutant: only a full one.)
PendingFull == s_hdr.buf_used >= SectorSize
Pending == s_hdr.buf_used > 0

-----------------------------------------------------------------------------
(* Block transfers (sdcard::write_block, sdcard::read_block). *)

\* The card with the buffer in the current sector.
BufferOnCard ==
    [i \in 1..CardBytes |->
        IF Base < i /\ i <= Base + SectorSize THEN s_buf[i - Base] ELSE card[i]]

\* A write past the end of the card fails; a write that fails may have
\* reached the card all the same (the busy wait that follows can time out).
WriteBuffer(ok) ==
    IF ok
    THEN /\ Base + SectorSize <= CardBytes
         /\ card' = BufferOnCard
    ELSE /\ "write" \in MayFail \/ Base + SectorSize > CardBytes
         /\ card' = card \/ card' = BufferOnCard

WriteHeader(ok, hdr) ==
    IF ok
    THEN cardHdr' = hdr
    ELSE /\ "write" \in MayFail
         /\ cardHdr' = cardHdr \/ cardHdr' = hdr

-----------------------------------------------------------------------------
Init ==
    /\ cardHdr = IF BlankCard THEN ZeroHeader ELSE FreshHeader
    /\ card = [i \in 1..CardBytes |->
                  IF ~BlankCard /\ i <= Len(CsvHeader) THEN CsvHeader[i] ELSE Zero]
    /\ log = IF BlankCard THEN << >> ELSE CsvHeader
    /\ synced = IF BlankCard THEN << >> ELSE CsvHeader
    /\ s_hdr = ZeroHeader
    /\ s_buf = ZeroBuffer
    /\ s_ready = FALSE
    /\ pc = "boot"
    /\ after = "idle"
    /\ tmp = << >>
    /\ written = 0
    /\ dl = NoDownload
    /\ clean = TRUE

\* init: no card was detected; nothing is ever logged until the next boot.
BootWithoutCard ==
    /\ pc = "boot"
    /\ pc' = "idle"
    /\ UNCHANGED <<cardVars, s_hdr, s_buf, s_ready, after, appendVars, dl, ghosts>>

\* init: the header is there; a partial sector is read back, or given up when
\* it cannot be read.
BootResume ==
    /\ pc = "boot"
    /\ cardHdr.magic
    /\ LET base == (cardHdr.data_bytes \div SectorSize) * SectorSize
       IN \/ /\ cardHdr.buf_used = 0
             /\ s_hdr' = ResumedHeader
             /\ s_buf' = ZeroBuffer
          \/ /\ cardHdr.buf_used > 0
             /\ base + SectorSize <= CardBytes
             /\ s_hdr' = ResumedHeader
             /\ s_buf' = [i \in 1..SectorSize |-> card[base + i]]
          \/ /\ cardHdr.buf_used > 0
             /\ "read" \in MayFail \/ base + SectorSize > CardBytes
             /\ s_hdr' = [ResumedHeader EXCEPT !.buf_used = 0]
             /\ s_buf' = ZeroBuffer
    /\ s_ready' = TRUE
    /\ pc' = "idle"
    /\ UNCHANGED <<cardVars, after, appendVars, dl, ghosts>>

\* init: the header cannot be read, or has no magic: a new log is begun.  Its
\* header goes to the card at once, its first line stays in the buffer.
BootFresh ==
    /\ pc = "boot"
    /\ ~cardHdr.magic \/ "read" \in MayFail
    /\ s_hdr' = FreshHeader
    /\ s_buf' = HeaderBuffer
    /\ \E ok \in BOOLEAN : WriteHeader(ok, FreshHeader)
    /\ log' = CsvHeader
    /\ s_ready' = TRUE
    /\ pc' = "idle"
    /\ UNCHANGED <<card, after, appendVars, dl, clean, synced>>

-----------------------------------------------------------------------------
\* append: the line with its newline goes to tmp, if it fits there.
Append_(line) ==
    /\ pc = "idle"
    /\ s_ready
    /\ s_hdr.line_count < MaxLines
    /\ line # << >>
    /\ Len(line) + 1 <= LineMax
    /\ tmp' = line \o <<NL>>
    /\ written' = 0
    /\ pc' = "copy"
    /\ UNCHANGED <<cardVars, s_hdr, s_buf, s_ready, after, dl, ghosts>>

\* append, one turn of the loop: as much of tmp as the buffer takes.
CopyChunk ==
    /\ pc = "copy"
    /\ written < Len(tmp)
    /\ LET used == s_hdr.buf_used
           chunk == Least(Len(tmp) - written, SectorSize - used)
       IN /\ s_buf' = [i \in 1..SectorSize |->
                          IF used < i /\ i <= used + chunk
                          THEN tmp[written + i - used] ELSE s_buf[i]]
          /\ s_hdr' = [s_hdr EXCEPT !.buf_used = used + chunk]
          /\ written' = written + chunk
          /\ pc' = IF used + chunk >= SectorSize THEN "sector" ELSE "copy"
    /\ UNCHANGED <<cardVars, s_ready, after, tmp, dl, ghosts>>

\* append: the buffer is full and goes to the card.
WriteSector ==
    /\ pc = "sector"
    /\ WriteBuffer(TRUE)
    /\ s_hdr' = [s_hdr EXCEPT !.data_bytes = @ + SectorSize, !.buf_used = 0]
    /\ s_buf' = ZeroBuffer
    /\ pc' = "copy"
    /\ UNCHANGED <<cardHdr, s_ready, after, appendVars, dl, ghosts>>

\* append: the full buffer cannot be written; append returns false and leaves
\* header and buffer as they stand.  (Mutants: the sector is given up; the loop
\* goes on.)
WriteSectorGivesUp ==
    /\ pc = "sector"
    /\ WriteBuffer(FALSE)
    /\ s_hdr' = [s_hdr EXCEPT !.buf_used = 0]
    /\ tmp' = << >>
    /\ written' = 0
    /\ pc' = "idle"
    /\ UNCHANGED <<cardHdr, s_buf, s_ready, after, dl, ghosts>>
WriteSectorRetries ==
    /\ pc = "sector"
    /\ WriteBuffer(FALSE)
    /\ pc' = "copy"
    /\ UNCHANGED <<cardHdr, s_hdr, s_buf, s_ready, after, appendVars, dl, ghosts>>
WriteSectorFails ==
    /\ pc = "sector"
    /\ WriteBuffer(FALSE)
    /\ tmp' = << >>
    /\ written' = 0
    /\ pc' = "idle"
    /\ UNCHANGED <<cardHdr, s_hdr, s_buf, s_ready, after, dl, ghosts>>

\* append: the line is in; every FlushEvery lines it calls flush.
AppendEnd ==
    /\ pc = "copy"
    /\ written = Len(tmp)
    /\ s_hdr' = [s_hdr EXCEPT !.line_count = @ + 1]
    /\ log' = log \o tmp
    /\ tmp' = << >>
    /\ written' = 0
    /\ after' = "idle"
    /\ pc' = IF FlushDue(s_hdr.line_count + 1) THEN "flushData" ELSE "idle"
    /\ UNCHANGED <<cardVars, s_buf, s_ready, dl, clean, synced>>

-----------------------------------------------------------------------------
\* flush: the partial sector goes to the card; the result is not looked at.
FlushData ==
    /\ pc = "flushData"
    /\ IF Pending
       THEN \E ok \in BOOLEAN : WriteBuffer(ok) /\ clean' = ok
       ELSE clean' = TRUE /\ UNCHANGED card
    /\ pc' = "flushHeader"
    /\ UNCHANGED <<cardHdr, s_hdr, s_buf, s_ready, after, appendVars, dl, log, synced>>

\* flush: then the header, whose result is not looked at either.
FlushHeader ==
    /\ pc = "flushHeader"
    /\ \E ok \in BOOLEAN :
          /\ WriteHeader(ok, s_hdr)
          /\ synced' = IF ok /\ clean THEN Content ELSE synced
    /\ pc' = after
    /\ UNCHANGED <<card, s_hdr, s_buf, s_ready, after, appendVars, dl, log, clean>>

-----------------------------------------------------------------------------
\* fs_open_custom("/sd-csv"): prepare_sd_csv_download flushes ...
OpenDownload ==
    /\ pc = "idle"
    /\ s_ready
    /\ ~dl.open
    /\ pc' = "flushData"
    /\ after' = "open"
    /\ UNCHANGED <<cardVars, s_hdr, s_buf, s_ready, appendVars, dl, ghosts>>

\* ... and takes the size of the log as the length of the file.
FixLength ==
    /\ pc = "open"
    /\ dl' = [NoDownload EXCEPT !.open = TRUE, !.len = Total, !.snap = log]
    /\ pc' = "idle"
    /\ UNCHANGED <<cardVars, s_hdr, s_buf, s_ready, after, appendVars, ghosts>>

\* fs_read_custom: httpd asks for n bytes; read_data flushes first.
RequestChunk(n) ==
    /\ pc = "idle"
    /\ s_ready
    /\ dl.open
    /\ dl.pos < dl.len
    /\ dl.pos < Total
    /\ dl' = [dl EXCEPT !.want = Least(Least(n, dl.len - dl.pos), Total - dl.pos)]
    /\ pc' = "flushData"
    /\ after' = "read"
    /\ UNCHANGED <<cardVars, s_hdr, s_buf, s_ready, appendVars, ghosts>>

\* read_data: the bytes come off the card, sector by sector; a sector that
\* cannot be read ends the loop with what was copied before it.
ReadChunk ==
    /\ pc = "read"
    /\ \E k \in 0..dl.want :
          /\ dl.pos + k <= CardBytes
          /\ k < dl.want =>
                /\ "read" \in MayFail \/ dl.pos + k = CardBytes
                /\ k = 0 \/ (dl.pos + k) % SectorSize = 0
          /\ dl' = [dl EXCEPT !.pos = @ + k, !.want = 0,
                              !.got = @ \o [i \in 1..k |-> card[dl.pos + i]]]
    /\ pc' = "idle"
    /\ UNCHANGED <<cardVars, s_hdr, s_buf, s_ready, after, appendVars, ghosts>>

\* fs_close_custom, at the end of the file or when the client goes away.
CloseDownload ==
    /\ pc = "idle"
    /\ dl.open
    /\ dl' = NoDownload
    /\ UNCHANGED <<cardVars, s_hdr, s_buf, s_ready, pc, after, appendVars, ghosts>>

-----------------------------------------------------------------------------
\* Power is lost, or the watchdog reboots, between any two steps: RAM goes
\* back to its initial value.  The log is what the header on the card covers.
Crash ==
    /\ pc # "boot"
    /\ s_hdr' = ZeroHeader
    /\ s_buf' = ZeroBuffer
    /\ s_ready' = FALSE
    /\ pc' = "boot"
    /\ after' = "idle"
    /\ tmp' = << >>
    /\ written' = 0
    /\ dl' = NoDownload
    /\ clean' = TRUE
    /\ log' = SubSeq(log, 1, Least(Len(log), cardHdr.data_bytes + cardHdr.buf_used))
    /\ UNCHANGED <<cardVars, synced>>

Boot == BootWithoutCard \/ BootResume \/ BootFresh

\* The steps the processor takes by itself, once a call is under way.
Step ==
    \/ CopyChunk
    \/ WriteSector
    \/ WriteSectorFails
    \/ AppendEnd
    \/ FlushData
    \/ FlushHeader
    \/ FixLength
    \/ ReadChunk

Next ==
    \/ Boot
    \/ \E line \in Lines : Append_(line)
    \/ OpenDownload
    \/ \E n \in Counts : RequestChunk(n)
    \/ CloseDownload
    \/ Step
    \/ Crash

Spec == Init /\ [][Next]_vars

\* The processor does not stop in the middle of a call.
LiveSpec == Spec /\ WF_vars(Step)

-----------------------------------------------------------------------------
(* Properties. *)

\* Every variable has its type; what the buffer holds fits in it, and what is
\* committed is whole sectors of the card, in RAM and in the header on the card.
Sized(hdr) ==
    /\ hdr.buf_used <= SectorSize
    /\ \E q \in 0..Sectors : hdr.data_bytes = q * SectorSize
TypeOK ==
    /\ cardHdr \in Headers /\ Sized(cardHdr)
    /\ card \in [1..CardBytes -> Bytes]
    /\ s_hdr \in Headers /\ Sized(s_hdr)
    /\ s_buf \in [1..SectorSize -> Bytes]
    /\ s_ready \in BOOLEAN
    /\ pc \in {"boot", "idle", "copy", "sector", "flushData", "flushHeader", "open", "read"}
    /\ after \in {"idle", "open", "read"}
    /\ tmp \in Seq(Bytes)
    /\ written \in 0..Len(tmp)
    /\ dl \in [open : BOOLEAN, len : Nat, pos : Nat, want : Nat,
              got : Seq(Bytes), snap : Seq(Bytes)]
    /\ clean \in BOOLEAN
    /\ log \in Seq(Bytes)
    /\ synced \in Seq(Bytes)

\* Between two calls the log is exactly the lines whose append returned true:
\* none is lost, torn, repeated or reordered by the sector boundaries, by the
\* flushes of append and read_data, or by a restart (append, flush, init).
Mirror == pc = "idle" /\ s_ready => Content = log

\* The line count the dashboard shows is the number of lines a download would
\* contain, after any crash (line_count and the data reach the card apart).
LineCountExact ==
    pc = "idle" /\ s_ready =>
        Cardinality({i \in 1..Total : ByteAt(i) = NL}) = 1 + s_hdr.line_count

\* A download is the log as it was when the download was opened, however many
\* lines are appended, and sectors rewritten, between two of its chunks.
DownloadExact ==
    dl.open => dl.got = SubSeq(dl.snap, 1, Len(dl.got)) /\ dl.len = Len(dl.snap)

\* A flush whose writes both succeeded is never undone: its bytes are a prefix
\* of the log for ever after, whatever fails or crashes later.
DurablePrefix ==
    s_ready => /\ Len(synced) <= Total
               /\ \A i \in 1..Len(synced) : ByteAt(i) = synced[i]

\* What makes DurablePrefix inductive.  The card alone covers synced: every
\* later write of a sector repeats the synced bytes it holds ...
Covered ==
    /\ Len(synced) <= cardHdr.data_bytes + cardHdr.buf_used
    /\ Len(synced) <= CardBytes
    /\ \A i \in 1..Len(synced) : card[i] = synced[i]
\* ... before the header of a flush is written, its data is on the card ...
DataBeforeHeader ==
    pc = "flushHeader" /\ clean =>
        /\ Total <= CardBytes
        /\ \A i \in 1..Total : card[i] = ByteAt(i)
\* ... and what the control point and the magic say of the rest.
Control ==
    /\ ~cardHdr.magic => synced = << >>
    /\ s_ready => s_hdr.magic
    /\ pc \notin {"boot", "idle"} => s_ready
    /\ pc = "sector" => s_hdr.buf_used = SectorSize
DurableInv == TypeOK /\ Covered /\ DataBeforeHeader /\ Control /\ DurablePrefix

\* A call always returns, a write that fails or a card that is full included
\* (the retry of a full buffer in append must not spin).
CallsReturn == pc \notin {"boot", "idle"} ~> pc \in {"boot", "idle"}

\* The log the card alone holds: what a restart would find.
OnCard == [i \in 1..(cardHdr.data_bytes + cardHdr.buf_used) |-> card[i]]

\* The log implements the promise of CsvLog: a restart gives back a moment of
\* the log, at most FlushEvery lines old.
Abstract == INSTANCE CsvLog WITH
    durable <- OnCard,
    unsynced <- IF s_ready THEN s_hdr.line_count - cardHdr.line_count ELSE 0
ImplementsCsvLog == Abstract!Spec

-----------------------------------------------------------------------------
(* What a comment says and the code does not do. *)

\* "read header from SD card sector 0 to resume writing at the correct
\* position" (datalog.h:7): a log that is on the card is never begun over.
Resumes == [][cardHdr.magic => cardHdr'.line_count >= cardHdr.line_count]_vars
=============================================================================
