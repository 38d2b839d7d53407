---------------------------- MODULE SdCardProofs ----------------------------
(***************************************************************************)
(* For every size of block, card and address space, and every loss of      *)
(* command, card or power: SdCard has its types, a card is misaddressed    *)
(* only after a lost answer to CMD58, and the driver implements            *)
(* BlockStore.                                                             *)
(***************************************************************************)
EXTENDS SdCard, TLAPS

Reading == {"read", "token"}
Writing == {"write", "payload", "busy"}
Identifying == {"boot", "cmd0", "cmd8", "acmd41", "cmd58", "cmd9"}

\* A call runs exactly while pc is in a transfer; a block counts as programmed
\* only while the card is busy with it.
InCall ==
    /\ pc \in Reading => req.op = "read" /\ req.data = 0
    /\ pc \in Writing => req.op = "write" /\ req.data \in Data
    /\ pc \notin Reading \cup Writing => req = NoCall
    /\ req.done => pc = "busy"

\* An identification decides the type once, when the card is ready.
Identified ==
    /\ pc \in Identifying => ~s_info.detected
    /\ pc = "cmd58" => v2_card
    /\ (pc = "cmd9" \/ s_info.detected) /\ mode = "ready"
          => RightAddressing \/ (ocrLost /\ kind = "SDHC")

\* A transfer the card accepted is about a block it has.
InRange == pc \in {"token", "payload", "busy"} /\ mode = "ready" => Target < Sectors

IInv == TypeOK /\ InCall /\ Identified /\ InRange

\* What most steps need of the constants.
LEMMA Sizes == 0 \in Blocks /\ 0 \in 0..MaxTries /\ Sectors \in Nat /\ MaxTries \in Nat
BY CardAssumption DEF Blocks

\* No call at all is one, as far as types go.
LEMMA NoCallType ==
    NoCall \in [op : {"none", "read", "write"}, block : Blocks, data : Data \cup {0}, done : BOOLEAN]
BY Sizes DEF NoCall

LEMMA InitIInv == Init => IInv
<1> SUFFICES ASSUME Init PROVE IInv
    OBVIOUS
<1>1. TypeOK
    BY Sizes DEF Init, TypeOK, NoInfo, NoCall
<1>2. InCall /\ Identified /\ InRange
    BY DEF Init, InCall, Identified, InRange, NoInfo, NoCall, Reading, Writing, Identifying
<1> QED BY <1>1, <1>2 DEF IInv

LEMMA NextInRange == InRange /\ [Next]_vars => InRange'
<1> SUFFICES ASSUME InRange, [Next]_vars, pc' \in {"token", "payload", "busy"}, mode' = "ready"
             PROVE  Target' < Sectors
    BY DEF InRange
<1> USE DEF InRange, Target, SectorAt, Address
<1>1. CASE Accepted \/ SendData
    BY <1>1 DEF Accepted, ReadAccepted, WriteAccepted, Accept, SendData, Served, card, driver, calls
<1>2. CASE Program
    BY <1>2 DEF Program, Served, driver
<1>3. CASE UNCHANGED vars
    BY <1>3 DEF vars, card, driver, calls
<1>4. CASE Identify \/ Identification
    BY <1>4
       DEF Identify, Identification, GoIdle, SendIfCond, SendOpCond, ReadOcr, ReadCsd, Capacities
<1>5. CASE Caller
    BY <1>5 DEF Caller, Call
<1>6. CASE ReadData \/ WriteDone \/ TransferFails
    BY <1>6
       DEF ReadData, WriteDone, TransferFails, CommandFails, TokenFails, WriteFails, Fails,
           ReturnWith
<1>7. CASE Swap \/ PowerCut \/ Reboot
    BY <1>7 DEF Swap, PowerCut, Reboot, Restart
<1> QED BY <1>1, <1>2, <1>3, <1>4, <1>5, <1>6, <1>7 DEF Next, Transfer

LEMMA NextIInv == IInv /\ [Next]_vars => IInv'
<1> SUFFICES ASSUME IInv, [Next]_vars PROVE IInv'
    OBVIOUS
<1>0. InRange'
    BY NextInRange DEF IInv
<1> USE DEF IInv, Reading, Writing, Identifying
<1>1. CASE Identify
  <2>1. TypeOK'
      BY <1>1, Sizes DEF Identify, TypeOK, NoInfo, card, calls
  <2>2. InCall' /\ Identified'
      BY <1>1, Sizes DEF Identify, TypeOK, InCall, Identified, NoInfo, NoCall, card, calls
  <2> QED BY <1>0, <2>1, <2>2
<1>2. CASE GoIdle
  <2>1. TypeOK' /\ InCall'
      BY <1>2 DEF GoIdle, TypeOK, InCall, NoCall, driver, calls
  <2>2. Identified'
      BY <1>2 DEF GoIdle, TypeOK, Identified, driver
  <2> QED BY <1>0, <2>1, <2>2
<1>3. CASE SendIfCond
  <2>1. TypeOK'
    <3>1. v2_card' \in BOOLEAN /\ pc' \in {"acmd41", "idle"}
        BY <1>3 DEF SendIfCond, TypeOK
    <3> QED BY <1>3, <3>1 DEF SendIfCond, TypeOK, card, calls
  <2>2. InCall' /\ Identified'
      BY <1>3 DEF SendIfCond, TypeOK, InCall, Identified, NoCall, RightAddressing, card, calls
  <2> QED BY <1>0, <2>1, <2>2
<1>4. CASE SendOpCond
  <2>1. TypeOK' /\ InCall'
      BY <1>4, Sizes DEF SendOpCond, TypeOK, InCall, NoCall, calls
  <2>2. Identified'
      BY <1>4 DEF SendOpCond, Hcs, TypeOK, Identified, RightAddressing
  <2> QED BY <1>0, <2>1, <2>2
<1>5. CASE ReadOcr
  <2>1. TypeOK'
      BY <1>5 DEF ReadOcr, TypeOK, card, calls
  <2>2. InCall' /\ Identified'
      BY <1>5 DEF ReadOcr, TypeOK, InCall, Identified, NoCall, RightAddressing, card, calls
  <2> QED BY <1>0, <2>1, <2>2
<1>6. CASE ReadCsd
  <2>1. TypeOK'
    <3>1. /\ s_info' \in [detected : BOOLEAN, type : {"NONE", "SD_V1", "SD_V2", "SDHC"},
                          sectors : {0, Sectors}]
          /\ s_info'.detected
        BY <1>6 DEF ReadCsd, Capacities, TypeOK
    <3>2. pc' = "idle"
        BY <1>6 DEF ReadCsd
    <3> QED BY <1>6, <3>1, <3>2 DEF ReadCsd, TypeOK, card, calls
  <2>2. InCall'
      BY <1>6 DEF ReadCsd, TypeOK, InCall, NoCall, card, calls
  <2>3. Identified'
      BY <1>6 DEF ReadCsd, Capacities, TypeOK, Identified, RightAddressing, card, calls
  <2> QED BY <1>0, <2>1, <2>2, <2>3
<1>7. CASE Caller
  <2>1. PICK b \in Blocks : Call("read", b, 0) \/ \E v \in Data : Call("write", b, v)
      BY <1>7 DEF Caller
  <2>2. CASE Call("read", b, 0)
    <3>1. TypeOK'
      <4> DEFINE r == [op |-> "read", block |-> b, data |-> 0, done |-> FALSE]
      <4>1. r \in [op : {"none", "read", "write"}, block : Blocks, data : Data \cup {0}, done : BOOLEAN]
          OBVIOUS
      <4>2. [ok |-> FALSE, data |-> 0] \in [ok : BOOLEAN, data : Data \cup {0}]
          OBVIOUS
      <4>3. /\ req' \in {req, r}
            /\ reply' \in {reply, [ok |-> FALSE, data |-> 0]}
            /\ pc' = "idle" \/ (pc' = "read" /\ s_info.detected)
          BY <2>2 DEF Call, Refused
      <4>4. UNCHANGED <<card, driver>>
          BY <2>2 DEF Call
      <4> HIDE DEF r
      <4>5. req' \in [op : {"none", "read", "write"}, block : Blocks, data : Data \cup {0}, done : BOOLEAN]
          BY <4>1, <4>3 DEF TypeOK
      <4>6. reply' \in [ok : BOOLEAN, data : Data \cup {0}]
          BY <4>2, <4>3 DEF TypeOK
      <4>7. /\ pc' \in {"boot", "idle", "cmd0", "cmd8", "acmd41", "cmd58", "cmd9",
                         "read", "token", "write", "payload", "busy"}
            /\ pc' \in {"read", "token", "write", "payload", "busy"} => s_info.detected
          BY <4>3
      <4> QED BY <4>4, <4>5, <4>6, <4>7 DEF TypeOK, card, driver
    <3>2. InCall' /\ Identified'
        BY <2>2 DEF Call, Refused, TypeOK, InCall, Identified, NoCall, RightAddressing, card, driver
    <3> QED BY <1>0, <3>1, <3>2
  <2>3. ASSUME NEW v \in Data, Call("write", b, v) PROVE IInv'
    <3>1. TypeOK'
      <4> DEFINE r == [op |-> "write", block |-> b, data |-> v, done |-> FALSE]
      <4>1. r \in [op : {"none", "read", "write"}, block : Blocks, data : Data \cup {0}, done : BOOLEAN]
          OBVIOUS
      <4>2. [ok |-> FALSE, data |-> 0] \in [ok : BOOLEAN, data : Data \cup {0}]
          OBVIOUS
      <4>3. /\ req' \in {req, r}
            /\ reply' \in {reply, [ok |-> FALSE, data |-> 0]}
            /\ pc' = "idle" \/ (pc' = "write" /\ s_info.detected)
          BY <2>3 DEF Call, Refused
      <4>4. UNCHANGED <<card, driver>>
          BY <2>3 DEF Call
      <4> HIDE DEF r
      <4>5. req' \in [op : {"none", "read", "write"}, block : Blocks, data : Data \cup {0}, done : BOOLEAN]
          BY <4>1, <4>3 DEF TypeOK
      <4>6. reply' \in [ok : BOOLEAN, data : Data \cup {0}]
          BY <4>2, <4>3 DEF TypeOK
      <4>7. /\ pc' \in {"boot", "idle", "cmd0", "cmd8", "acmd41", "cmd58", "cmd9",
                         "read", "token", "write", "payload", "busy"}
            /\ pc' \in {"read", "token", "write", "payload", "busy"} => s_info.detected
          BY <4>3
      <4> QED BY <4>4, <4>5, <4>6, <4>7 DEF TypeOK, card, driver
    <3>2. InCall' /\ Identified'
        BY <2>3 DEF Call, Refused, TypeOK, InCall, Identified, NoCall, RightAddressing, card, driver
    <3> QED BY <1>0, <3>1, <3>2
  <2> QED BY <2>1, <2>2, <2>3
<1>8. CASE Transfer
  <2>1. TypeOK'
    <3>1. CASE ReadData
      <4>1. Served => Target \in 0..Sectors - 1
          BY CardAssumption DEF Served, Target, SectorAt, Address, TypeOK, Blocks
      <4> QED BY <1>8, <3>1, <4>1, Sizes
         DEF ReadData, ReturnWith, TypeOK, NoCall, Contents, card, driver
    <3>2. CASE Accepted \/ SendData
        BY <3>2
           DEF Accepted, ReadAccepted, WriteAccepted, Accept, SendData, TypeOK, InCall, card,
               driver, calls
    <3>3. CASE WriteDone \/ TransferFails
      <4>1. pc' = "idle" /\ req' = NoCall /\ \E ok \in BOOLEAN : reply' = [ok |-> ok, data |-> 0]
          BY <3>3
             DEF WriteDone, TransferFails, CommandFails, TokenFails, WriteFails, Fails, ReturnWith
      <4>2. UNCHANGED <<card, driver>>
          BY <3>3 DEF WriteDone, TransferFails, CommandFails, TokenFails, WriteFails, Fails
      <4>3. reply' \in [ok : BOOLEAN, data : Data \cup {0}]
          BY <4>1
      <4> QED BY <4>1, <4>2, <4>3, NoCallType DEF TypeOK, card, driver
    <3> QED BY <1>8, <3>1, <3>2, <3>3 DEF Transfer
  <2>2. InCall' /\ Identified'
      BY <1>8
         DEF Transfer, Accepted, ReadAccepted, WriteAccepted, Accept, ReadData, SendData,
             WriteDone, TransferFails, CommandFails, TokenFails, WriteFails, Fails, ReturnWith,
         TypeOK, InCall, Identified, NoCall, RightAddressing, card, driver, calls
  <2> QED BY <1>0, <2>1, <2>2
<1>9. CASE Program
  <2>1. TypeOK'
      BY <1>9 DEF Program, TypeOK, Contents, InCall, driver
  <2>2. InCall' /\ Identified'
      BY <1>9 DEF Program, TypeOK, InCall, Identified, NoCall, RightAddressing, driver
  <2> QED BY <1>0, <2>1, <2>2
<1>10. CASE Swap
  <2>1. TypeOK'
      BY <1>10 DEF Swap, TypeOK, driver, calls
  <2>2. InCall' /\ Identified'
      BY <1>10 DEF Swap, InCall, Identified, NoCall, driver, calls
  <2> QED BY <1>0, <2>1, <2>2
<1>11. CASE PowerCut \/ Reboot
  <2>1. TypeOK'
    <3>1. req' \in [op : {"none", "read", "write"}, block : Blocks, data : Data \cup {0}, done : BOOLEAN]
        BY <1>11, NoCallType DEF PowerCut, Reboot, Restart
    <3>2. mode' \in {mode, "off"} /\ UNCHANGED <<kind, store, reply>> /\ pc' = "boot"
          /\ s_info' = NoInfo /\ v2_card' = FALSE /\ tries' = 0 /\ ocrLost' = FALSE
        BY <1>11 DEF PowerCut, Reboot, Restart
    <3> QED BY <3>1, <3>2, Sizes DEF TypeOK, NoInfo
  <2>2. InCall' /\ Identified'
      BY <1>11 DEF PowerCut, Reboot, Restart, InCall, Identified, NoCall, NoInfo
  <2> QED BY <1>0, <2>1, <2>2
<1>12. CASE UNCHANGED vars
    BY <1>0, <1>12
       DEF vars, card, driver, calls, TypeOK, InCall, Identified, NoCall, RightAddressing
<1> QED
    BY <1>1, <1>2, <1>3, <1>4, <1>5, <1>6, <1>7, <1>8, <1>9, <1>10, <1>11, <1>12
       DEF Next, Identification

-----------------------------------------------------------------------------
(* The types, and what an identification may get wrong. *)

\* The reachable states are inside the inductive invariant.
THEOREM Reachable == Spec => []IInv
<1>1. Init => IInv BY InitIInv
<1>2. IInv /\ [Next]_vars => IInv' BY NextIInv
<1> QED BY <1>1, <1>2, PTL DEF Spec

\* For every card and every loss: every variable has its type, and a transfer
\* runs only on a card identified completely (sd_init_card, read_block,
\* write_block).
THEOREM TypeCorrect == Spec => []TypeOK
<1>1. IInv => TypeOK BY DEF IInv
<1> QED BY Reachable, <1>1, PTL

\* Whatever commands fail in sd_init_card, and whatever cards come and go, only
\* a lost answer to CMD58 makes the driver address a card the wrong way.
THEOREM Addressing == Spec => []OnlyOcrMisleads
<1>1. IInv => OnlyOcrMisleads BY DEF IInv, Identified, OnlyOcrMisleads
<1> QED BY Reachable, <1>1, PTL

-----------------------------------------------------------------------------
(* The refinement. *)

\* Where a block is looked for: in its place if the card is addressed the way
\* it counts; otherwise only block 0 is.
LEMMA TargetPlace ==
    ASSUME IInv, mode = "ready", s_info.detected, req.block \in Blocks
    PROVE  /\ RightAddressing => Target = req.block
           /\ ~RightAddressing => (Target = 0 <=> req.block = 0)
           /\ Target \in Nat
<1> DEFINE b == req.block
<1>1. b \in Nat /\ b <= MaxBlock /\ MaxBlock \in Nat /\ BlockSize \in Nat /\ BlockSize > 1
    BY CardAssumption DEF Blocks
<1>2. b * BlockSize <= MaxBlock * BlockSize /\ b * BlockSize \in Nat
    BY <1>1
<1>3. (b * BlockSize) % AddressSpace = b * BlockSize
  <2> DEFINE x == b * BlockSize
  <2>1. x \in Nat /\ AddressSpace \in Nat /\ x < AddressSpace
      BY <1>1, <1>2, CardAssumption
  <2> HIDE DEF x
  <2>2. x % AddressSpace = x
      BY <2>1
  <2> QED BY <2>2 DEF x
<1>4. (b * BlockSize) \div BlockSize = b
    BY <1>1
<1>5. b * BlockSize = 0 <=> b = 0
    BY <1>1
<1>6. CASE s_info.type = "SDHC"
    BY <1>1, <1>6 DEF IInv, Identified, Target, SectorAt, Address, RightAddressing
<1>7. CASE s_info.type # "SDHC"
  <2>1. Address(req.block) = b * BlockSize
      BY <1>3, <1>7 DEF Address
  <2> QED BY <1>1, <1>2, <1>4, <1>5, <1>7, <2>1 DEF Target, SectorAt, RightAddressing
<1> QED BY <1>6, <1>7

LEMMA InitRefines == Init => BS!Init
BY DEF Init, BS!Init, Session, NoInfo, NoCall, BS!NoCall, BS!Failed, Contents

LEMMA StepRefines == IInv /\ IInv' /\ [Next]_vars => [BS!Next]_(BS!vars)
<1> SUFFICES ASSUME IInv, IInv', [Next]_vars PROVE BS!Next \/ UNCHANGED BS!vars
    OBVIOUS
<1> USE DEF Reading, Writing, Identifying
<1> DEFINE Taken == pc \in {"token", "busy"}
<1>0. /\ Session \in {"none", "sound", "astray"}
      /\ NoCall = BS!NoCall
      /\ req = NoCall <=> req.op = "none"
      /\ req = NoCall => ~Taken
    BY DEF Session, NoCall, BS!NoCall, IInv, InCall, TypeOK
<1>1. CASE Identify
    BY <1>0, <1>1 DEF IInv, InCall, Identify, Session, NoInfo, card, calls, BS!Next, BS!Unmount
<1>2. CASE GoIdle \/ SendIfCond \/ SendOpCond \/ ReadOcr
  <2>1. ~s_info.detected /\ ~s_info'.detected
      BY <1>2 DEF GoIdle, SendIfCond, SendOpCond, ReadOcr, driver, IInv, Identified, TypeOK
  <2>2. UNCHANGED <<store, calls>>
      BY <1>2 DEF GoIdle, SendIfCond, SendOpCond, ReadOcr, card
  <2>3. ~Taken /\ ~Taken'
      BY <1>2 DEF GoIdle, SendIfCond, SendOpCond, ReadOcr
  <2> QED BY <2>1, <2>2, <2>3 DEF Session, calls, BS!vars
<1>3. CASE ReadCsd
  <2>1. /\ ~s_info.detected /\ s_info'.detected /\ UNCHANGED <<card, calls>> /\ req = NoCall
        /\ ~Taken /\ ~Taken'
      BY <1>3 DEF ReadCsd, Capacities, IInv, Identified, InCall, TypeOK
  <2>2. CASE mode = "ready"
      BY <1>0, <2>1, <2>2 DEF Session, card, calls, BS!Next, BS!Mount
  <2>3. CASE mode # "ready"
      BY <2>1, <2>3 DEF Session, card, calls, BS!vars
  <2> QED BY <2>2, <2>3
<1>4. CASE Caller
  <2>1. PICK b \in Blocks : Call("read", b, 0) \/ \E v \in Data : Call("write", b, v)
      BY <1>4 DEF Caller
  <2>2. req = NoCall /\ ~Taken /\ ~Taken'
      BY <2>1 DEF Call, IInv, InCall
  <2>3. UNCHANGED <<card, driver>>
      BY <2>1 DEF Call
  <2>4. CASE ~s_info.detected
      BY <1>0, <2>1, <2>2, <2>3, <2>4
         DEF Call, Refused, Session, card, driver, BS!Next, BS!Refuse, BS!Failed
  <2>5. CASE s_info.detected
    <3>1. req' \in BS!Calls /\ reply' = reply
      <4>1. CASE Call("read", b, 0)
        <5>1. [op |-> "read", block |-> b, data |-> 0, done |-> FALSE] \in BS!Calls
            BY DEF BS!Calls
        <5> QED BY <2>5, <4>1, <5>1 DEF Call, Refused
      <4>2. ASSUME NEW v \in Data, Call("write", b, v) PROVE req' \in BS!Calls /\ reply' = reply
        <5>1. [op |-> "write", block |-> b, data |-> v, done |-> FALSE] \in BS!Calls
            BY DEF BS!Calls
        <5> QED BY <2>5, <4>2, <5>1 DEF Call, Refused
      <4> QED BY <2>1, <4>1, <4>2
    <3>2. Session' = Session /\ store' = store
        BY <2>3 DEF card, driver, Session, RightAddressing
    <3> QED BY <1>0, <2>2, <3>1, <3>2 DEF BS!Next, BS!Call
  <2> QED BY <2>4, <2>5
<1>5. CASE WriteAccepted
    BY <1>5
       DEF WriteAccepted, Accept, card, driver, calls, Session, RightAddressing, BS!vars
<1>5b. CASE ReadAccepted \/ SendData
  <2>1. /\ ~Taken /\ Taken' /\ UNCHANGED <<card, driver, calls>>
        /\ mode = "ready" /\ s_info.detected /\ req # NoCall
      BY <1>5b
         DEF ReadAccepted, Accept, SendData, Served, IInv, InCall, TypeOK, NoCall
  <2>2. Session # "none" /\ Session' = Session
      BY <2>1 DEF Session, RightAddressing, card, driver
  <2> QED BY <1>0, <2>1, <2>2 DEF card, calls, BS!Next, BS!Take
<1>6. CASE ReadData
  <2>1. /\ req.op = "read" /\ req.block \in Blocks /\ s_info.detected
        /\ req' = NoCall /\ reply' = [ok |-> TRUE, data |-> IF Served THEN store[Target] ELSE 0]
        /\ Taken /\ ~Taken'
      BY <1>6 DEF ReadData, ReturnWith, IInv, InCall, TypeOK
  <2>2. Session' = Session /\ store' = store
      BY <1>6 DEF ReadData, card, driver, Session, RightAddressing
  <2>3. reply' \in BS!Replies
      BY <2>1 DEF IInv, TypeOK, BS!Replies
  <2>4. Session = "sound" \/ (Session = "astray" /\ req.block = 0)
           => req.block \in 0..Sectors - 1 /\ reply'.data = store[req.block]
    <3> SUFFICES ASSUME Session = "sound" \/ (Session = "astray" /\ req.block = 0)
                 PROVE  req.block \in 0..Sectors - 1 /\ reply'.data = store[req.block]
        OBVIOUS
    <3>1. mode = "ready" /\ (RightAddressing \/ (~RightAddressing /\ req.block = 0))
        BY DEF Session
    <3>2. Target = req.block /\ Target \in Nat
        BY <2>1, <3>1, TargetPlace
    <3>3. Served /\ Target < Sectors
        BY <1>6, <3>1 DEF ReadData, IInv, InRange, Served
    <3> QED BY <2>1, <3>2, <3>3, Sizes
  <2> QED BY <1>0, <2>1, <2>2, <2>3, <2>4 DEF BS!Next, BS!Return, BS!Success
<1>7. CASE WriteDone
  <2>1. /\ req.op = "write" /\ s_info.detected /\ (req.done \/ ~Served)
        /\ req' = NoCall /\ reply' = [ok |-> TRUE, data |-> 0]
        /\ Taken /\ ~Taken'
      BY <1>7 DEF WriteDone, NotBusy, ReturnWith, IInv, InCall, TypeOK
  <2>2. Session' = Session /\ store' = store
      BY <1>7 DEF WriteDone, card, driver, Session, RightAddressing
  <2>3. req.done \/ Session = "none"
      BY <1>7, <2>1 DEF WriteDone, Session, IInv, InRange, Served
  <2>4. reply' \in BS!Replies
      BY <2>1 DEF BS!Replies
  <2>5. req # NoCall /\ BS!Success
      BY <2>1, <2>3 DEF NoCall, BS!Success
  <2> QED BY <1>0, <2>1, <2>2, <2>4, <2>5 DEF BS!Next, BS!Return
<1>8. CASE TransferFails
  <2>1. req # NoCall /\ req' = NoCall /\ reply' = [ok |-> FALSE, data |-> 0] /\ ~Taken'
      BY <1>8
         DEF TransferFails, CommandFails, TokenFails, WriteFails, Fails, ReturnWith, IInv, InCall,
             NoCall
  <2>2. Session' = Session /\ store' = store
      BY <1>8
         DEF TransferFails, CommandFails, TokenFails, WriteFails, Fails, card, driver, Session,
             RightAddressing
  <2>3. reply' \in BS!Replies
      BY <2>1 DEF BS!Replies
  <2> QED BY <1>0, <2>1, <2>2, <2>3 DEF BS!Next, BS!Return
<1>9. CASE Program
  <2>1. /\ req.op = "write" /\ ~req.done /\ req.block \in Blocks /\ s_info.detected
        /\ mode = "ready" /\ Target < Sectors
        /\ store' = [store EXCEPT ![Target] = req.data]
        /\ req' = [req EXCEPT !.done = TRUE] /\ reply' = reply
        /\ Taken /\ Taken'
      BY <1>9 DEF Program, Served, IInv, InCall, TypeOK
  <2>2. Session' = Session /\ Session # "none"
      BY <1>9, <2>1 DEF Program, driver, Session, RightAddressing
  <2>3. /\ Target \in 0..Sectors - 1
        /\ Session = "sound" \/ req.block = 0 => Target = req.block
        /\ Session = "astray" /\ req.block # 0 => Target # 0
      BY <2>1, TargetPlace, Sizes DEF Session
  <2> QED BY <2>1, <2>2, <2>3 DEF BS!Next, BS!Commit
<1>10. CASE Swap
    BY <1>10 DEF Swap, Session, calls, driver, Contents, BS!Next, BS!Swap
<1>11. CASE PowerCut \/ Reboot
    BY <1>0, <1>11 DEF PowerCut, Reboot, Restart, NoInfo, Session, BS!Next, BS!Unmount
<1>12. CASE UNCHANGED vars
    BY <1>12 DEF vars, card, driver, calls, Session, RightAddressing, BS!vars
<1> QED
    BY <1>1, <1>2, <1>3, <1>4, <1>5, <1>5b, <1>6, <1>7, <1>8, <1>9, <1>10, <1>11, <1>12
       DEF Next, Identification, Transfer, Accepted

\* The driver keeps the promise of BlockStore: every behaviour of SdCard is one
\* of BlockStore, its blocks being what the card in the slot holds.  So a call
\* of read_block or write_block that succeeds was taken by an identified card,
\* and did what it says, unless that card was lost before its end.
THEOREM Refines == Spec => ImplementsBlockStore
<1>1. Init => BS!Init BY InitRefines
<1>2. IInv /\ IInv' /\ [Next]_vars => [BS!Next]_(BS!vars) BY StepRefines
<1> QED BY <1>1, <1>2, Reachable, PTL DEF Spec, BS!Spec, ImplementsBlockStore
=============================================================================
