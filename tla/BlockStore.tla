----------------------------- MODULE BlockStore -----------------------------
(***************************************************************************)
(* What the SD-card driver promises to the log, whatever commands, tokens  *)
(* and addresses it is made of: blocks that are read and written one at a  *)
(* time.  A write that succeeds was done; one that fails may have been.    *)
(*                                                                         *)
(* A call succeeds only after an identified card has taken it (Take); so a *)
(* call that begins without one fails.  The one exception to what a        *)
(* success means is a card that took the call and was lost before it was   *)
(* done: then a read may give anything, and a write may be missing.        *)
(*                                                                         *)
(* An identification that went wrong may mount a card "astray": blocks     *)
(* other than block 0 are then looked for in the wrong place.              *)
(***************************************************************************)
EXTENDS Naturals

CONSTANTS
    Sectors,    \* blocks of a card
    Data,       \* what a block may hold
    Blocks      \* the block numbers callers use

VARIABLES
    blocks,     \* what the card holds
    session,    \* the card in the slot: "none", "sound" or "astray"
    pending,    \* the call in progress
    taken,      \* an identified card has taken it
    reply       \* the answer to the last one

vars == <<blocks, session, pending, taken, reply>>

NoCall == [op |-> "none", block |-> 0, data |-> 0, done |-> FALSE]
Calls == [op : {"read"}, block : Blocks, data : {0}, done : {FALSE}]
         \cup [op : {"write"}, block : Blocks, data : Data, done : {FALSE}]
Failed == [ok |-> FALSE, data |-> 0]
Replies == [ok : BOOLEAN, data : Data \cup {0}]

Init ==
    /\ blocks \in [0..Sectors - 1 -> Data]
    /\ session = "none"
    /\ pending = NoCall
    /\ ~taken
    /\ reply = Failed

\* The firmware identifies the card.
Mount ==
    /\ session = "none" /\ session' \in {"sound", "astray"}
    /\ pending = NoCall
    /\ UNCHANGED <<blocks, pending, taken, reply>>

\* It begins an identification, or it restarts, in a call or not.
Unmount ==
    /\ session' = "none"
    /\ pending' = NoCall /\ ~taken'
    /\ UNCHANGED <<blocks, reply>>

\* A card is pulled out, and the same or another one pushed in.
Swap ==
    /\ session' = "none"
    /\ blocks' \in [0..Sectors - 1 -> Data]
    /\ UNCHANGED <<pending, taken, reply>>

Call ==
    /\ pending = NoCall
    /\ pending' \in Calls
    /\ UNCHANGED <<blocks, session, taken, reply>>

\* The card takes the command, and the data of a write.
Take ==
    /\ pending # NoCall /\ ~taken
    /\ session # "none"
    /\ taken'
    /\ UNCHANGED <<blocks, session, pending, reply>>

\* A write takes effect, once and after the card has taken it.
Commit ==
    /\ pending.op = "write" /\ ~pending.done /\ taken
    /\ session # "none"
    /\ \E b \in 0..Sectors - 1 :
           /\ session = "sound" \/ pending.block = 0 => b = pending.block
           /\ session = "astray" /\ pending.block # 0 => b # 0
           /\ blocks' = [blocks EXCEPT ![b] = pending.data]
    /\ pending' = [pending EXCEPT !.done = TRUE]
    /\ UNCHANGED <<session, taken, reply>>

\* A call succeeds: a card took it, and did what it says unless it was lost.
Success ==
    /\ taken
    /\ pending.op = "write" => pending.done \/ session = "none"
    /\ pending.op = "read" /\ (session = "sound" \/ (session = "astray" /\ pending.block = 0))
           => pending.block \in 0..Sectors - 1 /\ reply'.data = blocks[pending.block]

Return ==
    /\ pending # NoCall
    /\ reply' \in Replies
    /\ reply'.ok => Success
    /\ pending' = NoCall /\ ~taken'
    /\ UNCHANGED <<blocks, session>>

\* A call is refused when there is no card, or the driver knows of none.
Refuse ==
    /\ pending = NoCall /\ session = "none"
    /\ reply' = Failed
    /\ UNCHANGED <<blocks, session, pending, taken>>

Next == Mount \/ Unmount \/ Swap \/ Call \/ Take \/ Commit \/ Return \/ Refuse

Spec == Init /\ [][Next]_vars
=============================================================================
