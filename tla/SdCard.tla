------------------------------- MODULE SdCard -------------------------------
(***************************************************************************)
(* The SD-card driver (storage/sdcard.cpp): identification of the card and *)
(* single-block transfers over SPI, one command or phase of a transfer a   *)
(* step.  Any command may go unanswered or be answered with an error, the  *)
(* card may be pulled out and another one pushed in between two steps, and *)
(* the power may go.                                                       *)
(*                                                                         *)
(* The card itself (kind, mode, store) is external, and is what the driver *)
(* relies on: a high-capacity card counts in blocks and never becomes      *)
(* ready for a host that does not announce it knows (HCS); the others      *)
(* count in bytes; none answers a transfer before it became ready.         *)
(***************************************************************************)
EXTENDS Naturals

CONSTANTS
    Sectors,        \* blocks of a card
    BlockSize,      \* 512 in the code
    AddressSpace,   \* 2^32: the argument of a command is a uint32_t
    Data,           \* what a block may hold; 0 stands for anything else
    MaxBlock,       \* the largest block number callers use
    MaxTries        \* how often ACMD41 is sent within its 2 s

ASSUME CardAssumption ==
    /\ Sectors \in Nat \ {0}
    /\ BlockSize \in Nat \ {0, 1}
    /\ AddressSpace \in Nat
    /\ MaxBlock \in Nat
    /\ MaxBlock * BlockSize < AddressSpace
    /\ MaxTries \in Nat

VARIABLES
    kind,           \* the card in the slot
    mode,           \* "off" until CMD0, "idle" until ACMD41 succeeds, then "ready"
    store,          \* what the card holds
    s_info,
    pc,             \* "boot", "idle", or the step that comes next
    v2_card,
    tries,          \* ACMD41 sent so far
    req,            \* the running read_block or write_block
    reply,          \* what the last one returned
    ocrLost         \* ghost: this identification got no answer to CMD58

card == <<kind, mode, store>>
driver == <<s_info, v2_card, tries, ocrLost>>
calls == <<req, reply>>
vars == <<card, pc, driver, calls>>

Kinds == {"SDSC1", "SDSC2", "SDHC"}
Blocks == 0..MaxBlock
Contents == [0..Sectors - 1 -> Data]
NoInfo == [detected |-> FALSE, type |-> "NONE", sectors |-> 0]
NoCall == [op |-> "none", block |-> 0, data |-> 0, done |-> FALSE]

Init ==
    /\ kind \in Kinds
    /\ mode = "off"
    /\ store \in Contents
    /\ s_info = NoInfo
    /\ pc = "boot"
    /\ v2_card = FALSE
    /\ tries = 0
    /\ req = NoCall
    /\ reply = [ok |-> FALSE, data |-> 0]
    /\ ocrLost = FALSE

-----------------------------------------------------------------------------
(* Identification. *)

\* init, at boot, and test, after a card was pushed in: sd_init_card begins.
Identify ==
    /\ pc \in {"boot", "idle"}
    /\ s_info' = NoInfo
    /\ pc' = "cmd0"
    /\ v2_card' = FALSE
    /\ tries' = 0
    /\ ocrLost' = FALSE
    /\ UNCHANGED <<card, calls>>

\* CMD0 resets the card.  Without the answer that it did, there is none.
GoIdle ==
    /\ pc = "cmd0"
    /\ \/ mode' = "idle" /\ pc' = "cmd8"
       \/ mode' \in {mode, "idle"} /\ pc' = "idle"
    /\ UNCHANGED <<kind, store, driver, calls>>

\* CMD8: a card of version 2 answers with what it was sent; any other r1, also
\* none, is taken for that of a card of version 1.
SendIfCond ==
    /\ pc = "cmd8"
    /\ \/ /\ mode = "idle" /\ kind # "SDSC1"
          /\ \/ v2_card' = TRUE /\ pc' = "acmd41"
             \/ UNCHANGED v2_card /\ pc' = "idle"          \* voltage mismatch
       \/ UNCHANGED v2_card /\ pc' = "acmd41"
    /\ UNCHANGED <<card, s_info, tries, ocrLost, calls>>

\* HCS is announced to cards of version 2 only.  (Mutant: to every card.)
HcsAlways == TRUE
Hcs == v2_card

\* ACMD41 is given up 2 s after the first.  (Mutant: never.)
TimedOutNever == FALSE
TimedOut == tries = MaxTries

\* ACMD41, until the card is ready.
SendOpCond ==
    /\ pc = "acmd41"
    /\ \/ /\ mode # "off" /\ (kind = "SDHC" => Hcs)
          /\ mode' = "ready"
          /\ pc' = IF v2_card THEN "cmd58" ELSE "cmd9"
          /\ s_info' = IF v2_card THEN s_info ELSE [s_info EXCEPT !.type = "SD_V1"]
          /\ UNCHANGED tries
       \/ /\ mode' \in {mode} \cup (IF mode = "idle" /\ (kind = "SDHC" => Hcs) THEN {"ready"} ELSE {})
          /\ pc' = IF TimedOut THEN "idle" ELSE "acmd41"
          /\ tries' = IF tries < MaxTries THEN tries + 1 ELSE tries
          /\ UNCHANGED s_info
    /\ UNCHANGED <<kind, store, v2_card, ocrLost, calls>>

\* CMD58: the CCS bit tells a high-capacity card.  A command that fails tells
\* the same as a bit that is not set.
ReadOcr ==
    /\ pc = "cmd58"
    /\ \/ /\ mode = "ready"
          /\ s_info' = [s_info EXCEPT !.type = IF kind = "SDHC" THEN "SDHC" ELSE "SD_V2"]
          /\ UNCHANGED ocrLost
       \/ /\ s_info' = [s_info EXCEPT !.type = "SD_V2"]
          /\ ocrLost' = TRUE
    /\ pc' = "cmd9"
    /\ UNCHANGED <<card, v2_card, tries, calls>>

\* read_csd: the capacity, or nothing.
Capacities == {0} \cup (IF mode = "ready" THEN {Sectors} ELSE {})

\* Without a capacity, the card counts as detected all the same.
ReadCsd ==
    /\ pc = "cmd9"
    /\ \E sectors \in Capacities :
           s_info' = [s_info EXCEPT !.sectors = sectors, !.detected = TRUE]
    /\ pc' = "idle"
    /\ UNCHANGED <<card, v2_card, tries, ocrLost, calls>>

-----------------------------------------------------------------------------
(* Transfers. *)

\* SDHC counts in blocks, the others in bytes.
Address(b) == IF s_info.type = "SDHC" THEN b ELSE (b * BlockSize) % AddressSpace

\* The sector the card takes an address for, which may be none of its own.
SectorAt(addr) == IF kind = "SDHC" THEN addr ELSE addr \div BlockSize
Target == SectorAt(Address(req.block))
Served == mode = "ready" /\ Target < Sectors

\* Without a card that was identified, both calls fail at once.  (Mutant: they
\* are sent to whatever card there is.)
RefusedNever == FALSE
Refused == ~s_info.detected

\* read_block and write_block are called.
Call(op, b, v) ==
    /\ pc = "idle"
    /\ IF Refused
       THEN reply' = [ok |-> FALSE, data |-> 0] /\ UNCHANGED <<pc, req>>
       ELSE /\ req' = [op |-> op, block |-> b, data |-> v, done |-> FALSE]
            /\ pc' = op
            /\ UNCHANGED reply
    /\ UNCHANGED <<card, driver>>

ReturnWith(ok, v) ==
    /\ reply' = [ok |-> ok, data |-> v]
    /\ req' = NoCall
    /\ pc' = "idle"

\* CMD17, or CMD24 after a wait for the line, is accepted.
Accept(command, next) ==
    /\ pc = command /\ Served
    /\ pc' = next
    /\ UNCHANGED <<card, driver, calls>>

ReadAccepted == Accept("read", "token")
WriteAccepted == Accept("write", "payload")
Accepted == ReadAccepted \/ WriteAccepted

\* The token and the data; their CRC is skipped, so that a card pulled out
\* after the token gives anything.
ReadData ==
    /\ pc = "token"
    /\ ReturnWith(TRUE, IF Served THEN store[Target] ELSE 0)
    /\ UNCHANGED <<card, driver>>

\* The data is sent and the card says it took it.
SendData ==
    /\ pc = "payload" /\ Served
    /\ pc' = "busy"
    /\ UNCHANGED <<card, driver, calls>>

\* The card (external) programs the block it took.
Program ==
    /\ pc = "busy" /\ Served /\ ~req.done
    /\ store' = [store EXCEPT ![Target] = req.data]
    /\ req' = [req EXCEPT !.done = TRUE]
    /\ UNCHANGED <<kind, mode, pc, driver, reply>>

\* The line is high again: the card has programmed the block, or is gone.
NotBusy == req.done \/ ~Served

WriteDone ==
    /\ pc = "busy" /\ NotBusy
    /\ ReturnWith(TRUE, 0)
    /\ UNCHANGED <<card, driver>>

\* An error or no answer to the command, no token, no data response or a line
\* that stays busy ends a transfer.
Fails(phases) ==
    /\ pc \in phases
    /\ ReturnWith(FALSE, 0)
    /\ UNCHANGED <<card, driver>>

CommandFails == Fails({"read", "write"})
TokenFails == Fails({"token"})
WriteFails == Fails({"payload", "busy"})
TransferFails == CommandFails \/ TokenFails \/ WriteFails

-----------------------------------------------------------------------------
(* What else happens. *)

\* The card is pulled out, and the same or another one pushed in, at any time.
Swap ==
    /\ kind' \in Kinds
    /\ store' \in Contents
    /\ mode' = "off"
    /\ UNCHANGED <<pc, driver, calls>>

Restart ==
    /\ pc' = "boot"
    /\ s_info' = NoInfo
    /\ v2_card' = FALSE
    /\ tries' = 0
    /\ req' = NoCall
    /\ ocrLost' = FALSE
    /\ UNCHANGED <<kind, store, reply>>

\* The power goes, and with it the card's; or main reboots between two calls,
\* and the card stays ready.
PowerCut == Restart /\ mode' = "off"
Reboot == pc = "idle" /\ Restart /\ UNCHANGED mode

Identification == GoIdle \/ SendIfCond \/ SendOpCond \/ ReadOcr \/ ReadCsd
Transfer == Accepted \/ ReadData \/ SendData \/ WriteDone \/ TransferFails
Caller ==
    \E b \in Blocks : Call("read", b, 0) \/ \E v \in Data : Call("write", b, v)

Next == Identify \/ Identification \/ Caller \/ Transfer \/ Program
        \/ Swap \/ PowerCut \/ Reboot

Spec == Init /\ [][Next]_vars

\* Every wait of the driver has a timeout.
LiveSpec == Spec /\ WF_vars(Identification) /\ WF_vars(Transfer)

-----------------------------------------------------------------------------
(* Properties. *)

\* Every variable has its type, and a transfer runs only on a card that was
\* identified completely.
TypeOK ==
    /\ kind \in Kinds
    /\ mode \in {"off", "idle", "ready"}
    /\ store \in Contents
    /\ s_info \in [detected : BOOLEAN, type : {"NONE", "SD_V1", "SD_V2", "SDHC"},
                   sectors : {0, Sectors}]
    /\ pc \in {"boot", "idle", "cmd0", "cmd8", "acmd41", "cmd58", "cmd9",
               "read", "token", "write", "payload", "busy"}
    /\ v2_card \in BOOLEAN
    /\ tries \in 0..MaxTries
    /\ req \in [op : {"none", "read", "write"}, block : Blocks, data : Data \cup {0},
                done : BOOLEAN]
    /\ reply \in [ok : BOOLEAN, data : Data \cup {0}]
    /\ ocrLost \in BOOLEAN
    /\ pc \in {"read", "token", "write", "payload", "busy"} => s_info.detected

\* The driver addresses the card the way the card counts.
RightAddressing == s_info.type = "SDHC" <=> kind = "SDHC"

\* Whatever commands fail during sd_init_card, and whatever cards come and go,
\* a card that answers transfers is addressed the way it counts, unless the
\* answer to CMD58 was lost.
OnlyOcrMisleads ==
    s_info.detected /\ mode = "ready" => RightAddressing \/ (ocrLost /\ kind = "SDHC")

\* What the driver promises (BlockStore): a block is where it was written, a
\* write that succeeds was done, a call succeeds only if an identified card took
\* it (so none that was begun on a card not identified does), and block 0, which
\* holds the header of the log, is right even in a session whose other blocks
\* are not.  A card that is lost after it took a call is the one exception: the
\* code then takes an idle line for the end of a write, and reads what it gets.
Session ==
    IF s_info.detected /\ mode = "ready"
    THEN IF RightAddressing THEN "sound" ELSE "astray"
    ELSE "none"
BS == INSTANCE BlockStore WITH blocks <- store, session <- Session, pending <- req,
                           taken <- pc \in {"token", "busy"}
ImplementsBlockStore == BS!Spec

\* read_block, write_block and sd_init_card return, whatever the card does,
\* unless the firmware restarts first.
CallsReturn == pc \notin {"boot", "idle"} ~> pc \in {"boot", "idle"}
=============================================================================
