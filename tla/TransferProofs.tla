--------------------------- MODULE TransferProofs ---------------------------
(***************************************************************************)
(* Theorems about what goes over the wire in ControllerDriver, and what     *)
(* comes back: for every number of clients, every FIFO depth, and every     *)
(* set of requests, when interrupt handlers are not overtaken by threads.   *)
(***************************************************************************)
EXTENDS ControllerDriverProofs

(* A client is between prepareTransferI2C's resets and its toggleBusState(Off). *)
Serving == \E c \in Clients : pc[c] \in InTransfer

(* The position of a byte of the transfer in hand. *)
InMessages(p) == p[1] \in 1..Len(msgs) /\ p[2] \in 1..msgs[p[1]].len

(* p comes before q in the transfer. *)
Ahead(p, q) == p[1] < q[1] \/ (p[1] = q[1] /\ p[2] < q[2])

-----------------------------------------------------------------------------
(* The transfer as it is set up. *)

(* Nothing has been moved yet. *)
Fresh ==
  /\ ~merr /\ ~cerr /\ ~wip /\ ~rip /\ widx = 1 /\ ridx = 1 /\ outst = 0
  /\ bus = "idle" /\ txfifo = << >> /\ rxfifo = << >> /\ sent = Before

SetupInv ==
  \A c \in Clients :
    /\ pc[c] \in {"request", "enable", "unmask"} => Fresh
    /\ pc[c] \in {"enable", "unmask"} => ~stopdet /\ ~abrt
    /\ pc[c] \in InTransfer => msgs = req[c]
    /\ pc[c] \in InTransfer \ {"request"} => tar = msgs[1].addr
    /\ pc[c] \in Programmed => enable

-----------------------------------------------------------------------------
(* The commands on their way out. *)

(* The command does what its position in the transfer calls for. *)
Faithful(command) ==
  /\ InMessages(command.at)
  /\ command.rd = msgs[command.at[1]].rd
  /\ command.stop <=> command.at = LastOf(msgs)

(* The position the transmit FIFO continues from, and the one it ends with. *)
Front == IF bus = "byte" THEN shift.at ELSE sent
LastQueued == IF txfifo = << >> THEN Front ELSE txfifo[Len(txfifo)].at

(* What is being shifted follows what was sent, and the FIFO follows that without a gap. *)
ChainInv ==
  /\ bus = "byte" => shift.at = After(msgs, sent) /\ Faithful(shift)
  /\ txfifo # << >> => txfifo[1].at = After(msgs, Front)
  /\ \A i \in 1..Len(txfifo) : Faithful(txfifo[i])
  /\ \A i \in 2..Len(txfifo) : txfifo[i].at = After(msgs, txfifo[i - 1].at)

(* The last byte of message i; the moment before the transfer for i = 0. *)
EndOf(i) == IF i = 0 THEN Before ELSE <<i, msgs[i].len>>

(* How much of message widx transferMessageToBus still has to write. *)
Unwritten == IF h = "push" THEN left ELSE IF wip THEN tlen ELSE msgs[widx].len

(* The last position it has written. *)
Written ==
  IF widx > Len(msgs) THEN EndOf(widx - 1)
  ELSE IF Unwritten = msgs[widx].len THEN EndOf(widx - 1)
  ELSE <<widx, msgs[widx].len - Unwritten>>

(* message_write_index, transaction_buffer_length and STATUS_WRITE_IN_PROGRESS say where
   the queued commands end. *)
WriteInv ==
  /\ widx <= Len(msgs) + 1
  /\ \A i \in 1..(widx - 1) : msgs[i].len > 0
  /\ wip => widx <= Len(msgs) /\ 0 < tlen /\ tlen <= msgs[widx].len
  /\ h = "push" => widx <= Len(msgs) /\ left <= msgs[widx].len /\ 0 < msgs[widx].len
  /\ h = "txmsg" => left = tlen
  /\ LastQueued = Written

(* An abort, latched or reported, ends all this. *)
OrderInv == Serving /\ ~cerr /\ ~abrt => ChainInv /\ WriteInv

SentInv == Serving => sent = Before \/ InMessages(sent)

-----------------------------------------------------------------------------
(* The bytes on their way back. *)

(* How much of message ridx readFromBus still has to read, and the byte it waits for. *)
Unfetched == IF h = "rxbyte" THEN left ELSE IF rip THEN rlen ELSE msgs[ridx].len
Cursor == <<ridx, IF h = "rxbyte" \/ rip THEN msgs[ridx].len - Unfetched + 1 ELSE 1>>

ReadPosition(p) == InMessages(p) /\ msgs[p[1]].rd

(* The receive FIFO holds in order the read positions from the cursor up to what was sent;
   what lies before the cursor has been sent, and has been taken from the FIFO. *)
FetchInv ==
  /\ h = "rxbyte" => ridx <= Len(msgs) /\ msgs[ridx].rd /\ left <= msgs[ridx].len
  /\ rip => ridx <= Len(msgs) /\ msgs[ridx].rd /\ 0 < rlen /\ rlen <= msgs[ridx].len
  /\ \A i, j \in 1..Len(rxfifo) : i < j => Ahead(rxfifo[i], rxfifo[j])
  /\ \A i \in 1..Len(rxfifo) :
       ReadPosition(rxfifo[i]) /\ ~Ahead(rxfifo[i], Cursor) /\ ~Ahead(sent, rxfifo[i])
  /\ \A p \in Position :
       ReadPosition(p) /\ ~Ahead(p, Cursor) /\ ~Ahead(sent, p) =>
         \E i \in 1..Len(rxfifo) : rxfifo[i] = p
  /\ \A p \in Position : ReadPosition(p) /\ Ahead(p, Cursor) => ~Ahead(sent, p)

ReadInv == Serving /\ ~cerr => FetchInv

TransferInv == SetupInv /\ OrderInv /\ SentInv /\ ReadInv

-----------------------------------------------------------------------------
(* Facts about positions. *)

(* A position is the pair of its coordinates. *)
LEMMA PositionPair ==
  ASSUME NEW p \in Position, NEW q \in Position, p[1] = q[1], p[2] = q[2]
  PROVE  p = q
BY DEF Position

(* Positions are totally ordered. *)
LEMMA AheadTotal ==
  ASSUME NEW p \in Position, NEW q \in Position
  PROVE  /\ Ahead(p, q) \/ p = q \/ Ahead(q, p)
         /\ ~(Ahead(p, q) /\ Ahead(q, p)) /\ ~Ahead(p, p)
<1>1. p[1] \in Int /\ p[2] \in Int /\ q[1] \in Int /\ q[2] \in Int
  BY DEF Position
<1> QED
  BY <1>1, PositionPair DEF Ahead

LEMMA AheadTransitive ==
  ASSUME NEW p \in Position, NEW q \in Position, NEW r \in Position
  PROVE  /\ Ahead(p, q) /\ Ahead(q, r) => Ahead(p, r)
         /\ ~Ahead(p, q) /\ ~Ahead(q, r) => ~Ahead(p, r)
<1>1. /\ p[1] \in Int /\ p[2] \in Int /\ q[1] \in Int /\ q[2] \in Int
      /\ r[1] \in Int /\ r[2] \in Int
  BY DEF Position
<1> QED
  BY <1>1 DEF Ahead

(* A message of the transfer has typed fields; there is one if a transfer is being served. *)
LEMMA FieldsAt ==
  ASSUME TypeOK, NEW i \in Int, 1 <= i, i <= Len(msgs)
  PROVE  msgs[i].addr \in Nat /\ msgs[i].rd \in BOOLEAN /\ msgs[i].len \in Nat
BY MessageAt DEF TypeOK

(* Between a position and the one that follows it lies nothing. *)
LEMMA NothingBetween ==
  ASSUME TypeOK, NEW s \in Position, s = Before \/ InMessages(s),
         InMessages(After(msgs, s)),
         NEW p \in Position, InMessages(p)
  PROVE  Ahead(s, p) <=> p = After(msgs, s) \/ Ahead(After(msgs, s), p)
<1> DEFINE a == After(msgs, s)
<1>1. p[1] \in Int /\ p[2] \in Int /\ s[1] \in Int /\ s[2] \in Int
  BY DEF Position
<1>2. p[1] >= 1 /\ p[1] <= Len(msgs) /\ p[2] >= 1 /\ p[2] <= msgs[p[1]].len /\ msgs[p[1]].len \in Nat
  BY <1>1, FieldsAt, LenProperties DEF InMessages, TypeOK, BusTypeOK
<1>3. a \in Position
  BY <1>1 DEF After, Position
<1>4. CASE s = Before
  <2>1. a[1] = 1 /\ a[2] = 1 /\ s[1] = 0 /\ s[2] = 0
    BY <1>4 DEF After, Before
  <2> QED
    BY <1>1, <1>2, <1>3, <2>1, PositionPair DEF Ahead
<1>5. CASE s # Before /\ InMessages(s)
  <2>1. /\ s[1] >= 1 /\ s[1] <= Len(msgs) /\ s[2] >= 1 /\ s[2] <= msgs[s[1]].len
        /\ msgs[s[1]].len \in Nat
    BY <1>1, <1>5, FieldsAt, LenProperties DEF InMessages, TypeOK, BusTypeOK
  <2>2. CASE s[2] >= msgs[s[1]].len
    <3>1. a[1] = s[1] + 1 /\ a[2] = 1
      BY <2>2, <1>5 DEF After
    <3>2. p[1] = s[1] => p[2] <= s[2]
      BY <1>1, <1>2, <2>1, <2>2
    <3> QED
      BY <1>1, <1>2, <1>3, <2>1, <3>1, <3>2, PositionPair DEF Ahead
  <2>3. CASE ~(s[2] >= msgs[s[1]].len)
    <3>1. a[1] = s[1] /\ a[2] = s[2] + 1
      BY <2>3, <1>5 DEF After
    <3> QED
      BY <1>1, <1>2, <1>3, <2>1, <3>1, PositionPair DEF Ahead
  <2> QED
    BY <2>2, <2>3
<1> QED
  BY <1>4, <1>5

-----------------------------------------------------------------------------
(* Setting up a transfer. *)

(* While the client programs the block the handler finds nothing to do, and neither does
   the block. *)
LEMMA FreshRests ==
  ASSUME Settled, FifoInv, SetupInv, NEW c \in Clients, pc[c] \in {"request", "enable", "unmask"}
  PROVE  /\ h \in {"idle", "clear", "rx", "tx", "wake", "remask"}
         /\ h \in {"rx", "tx", "remask"} => stat = {}
         /\ pc[c] = "unmask" => mask = {}
         /\ ~Hardware
<1>1. Fresh
  BY DEF SetupInv
<1>2. ~Hardware
  BY <1>1 DEF Fresh, Hardware, HwStep, StartByte, Acknowledged, NotAcknowledged, StopCondition,
     StopOnEmpty, Settle
<1>3. CASE pc[c] = "unmask"
  BY <1>2, <1>3 DEF FifoInv, RequestInv, Quiet
<1>4. CASE pc[c] \in {"request", "enable"}
  BY <1>2, <1>4, RestBeforeProgram
<1> QED
  BY <1>3, <1>4

(* A client thread sets its own transfer up and touches no other. *)
LEMMA ThreadSetup ==
  ASSUME Unhurried, Settled, FifoInv, SetupInv, NEW c \in Clients, Thread(c)
  PROVE  SetupInv'
<1> USE DEF Settled, TypeOK, ThreadTypeOK, InTransfer, Programmed
<1>0. ~env.lateirq
  BY DEF Unhurried
<1>1. ASSUME Call(c) \/ Lock(c) \/ RefuseBusy(c) \/ Unlock(c) PROVE SetupInv'
  <2>1. /\ UNCHANGED <<hwVars, busVars>>
        /\ \A d \in Clients \ {c} : req'[d] = req[d]
        /\ \E to \in ThreadPC \ InTransfer : pc' = [pc EXCEPT ![c] = to]
    BY <1>1 DEF Call, Lock, RefuseBusy, Unlock, Goto, ThreadPC
  <2> QED
    BY <2>1 DEF SetupInv, Fresh, hwVars, busVars
<1>2. ASSUME Setup(c) PROVE SetupInv'
  <2>1. ~enable /\ txfifo = << >> /\ rxfifo = << >> /\ pc[c] = "prepare" /\ bus = "idle"
    BY <1>2, RestBeforeProgram DEF Setup, Goto, Activity
  <2>2. \A d \in Clients \ {c} : pc[d] \in Unlocked
    BY <2>1, OnlyOne DEF Unlocked
  <2>3. Fresh'
    BY <1>2, <2>1 DEF Setup, Fresh
  <2> QED
    BY <1>2, <2>2, <2>3 DEF Setup, Goto, SetupInv, Unlocked
<1>3. ASSUME Reprogram(c) PROVE SetupInv'
  <2>1. pc[c] = "request" /\ Fresh /\ msgs = req[c]
    BY <1>3 DEF Reprogram, Goto, SetupInv
  <2>2. \A d \in Clients \ {c} : pc[d] \in Unlocked
    BY <2>1, OnlyOne DEF Unlocked
  <2>3. Fresh' /\ ~stopdet' /\ ~abrt'
    BY <1>3, <2>1 DEF Reprogram, Fresh, Disabled, Activity, busVars
  <2>4. Len(msgs) >= 1
    BY <2>1, EmptySeq, LenProperties DEF Transfer
  <2>5. tar' = msgs[1].addr
    BY <1>3, <2>1, <2>4 DEF Reprogram, Target, Fresh
  <2> QED
    BY <1>3, <2>1, <2>2, <2>3, <2>5 DEF Reprogram, Goto, SetupInv, Unlocked, busVars
<1>4. ASSUME Enable(c) \/ Unmask(c) PROVE SetupInv'
  <2>1. /\ pc[c] \in {"enable", "unmask"} /\ Fresh /\ msgs = req[c] /\ tar = msgs[1].addr
        /\ ~stopdet /\ ~abrt
    BY <1>4 DEF Enable, Unmask, Goto, SetupInv
  <2>2. \A d \in Clients \ {c} : pc[d] \in Unlocked
    BY <2>1, OnlyOne DEF Unlocked
  <2>3. /\ Fresh' /\ msgs' = msgs /\ req' = req /\ tar' = tar /\ ~stopdet' /\ ~abrt'
        /\ \E to \in {"unmask", "sleep"} : pc' = [pc EXCEPT ![c] = to]
    BY <1>4, <2>1 DEF Enable, Unmask, Goto, Fresh, busVars
  <2>4. enable'
    BY <1>4 DEF Enable, Unmask, Goto, SetupInv
  <2> QED
    BY <2>1, <2>2, <2>3, <2>4 DEF SetupInv, Unlocked
<1>5. ASSUME Sleep(c) \/ Deadline(c) \/ Signal(c) PROVE SetupInv'
  <2>1. /\ UNCHANGED <<hwVars, busVars, req>>
        /\ pc[c] \in Programmed \ {"unmask"}
        /\ \E to \in Programmed \ {"unmask"} : pc' = [pc EXCEPT ![c] = to]
    BY <1>5 DEF Sleep, Deadline, Signal, Goto
  <2> QED
    BY <2>1 DEF SetupInv, Fresh, hwVars, busVars
<1>6. ASSUME Finish(c) \/ TimedOut(c) PROVE SetupInv'
  <2>1. pc[c] \notin Unlocked /\ pc' = [pc EXCEPT ![c] = "unlock"]
    BY <1>0, <1>6 DEF Finish, TimedOut, Leave, Goto, Unlocked
  <2>2. \A d \in Clients \ {c} : pc[d] \in Unlocked
    BY <2>1, OnlyOne
  <2> QED
    BY <2>1, <2>2 DEF SetupInv, Unlocked
<1> QED
  BY <1>1, <1>2, <1>3, <1>4, <1>5, <1>6 DEF Thread, Proceed

(* The power manager, the handler and the block leave a transfer that is being set up alone. *)
LEMMA OthersSetup ==
  ASSUME Settled, FifoInv, SetupInv, Hardware \/ Power \/ HandlerEnter \/ HandlerStep
  PROVE  SetupInv'
<1> USE DEF Settled, TypeOK, ThreadTypeOK, InTransfer, Programmed
<1>1. CASE Hardware
  <2>1. /\ UNCHANGED <<pc, req, msgs, tar, enable>>
    BY <1>1 DEF Hardware, HwStep, StartByte, Acknowledged, NotAcknowledged, StopCondition,
       StopOnEmpty, Settle, busVars, threadVars
  <2>2. \A c \in Clients : pc[c] \notin {"request", "enable", "unmask"}
    BY <1>1, FreshRests
  <2> QED
    BY <2>1, <2>2 DEF SetupInv
<1>2. CASE PowerOff \/ PowerOn
  <2>1. lock = Free /\ UNCHANGED pc
    BY <1>2 DEF PowerOff, PowerOn, threadVars
  <2>2. \A c \in Clients : pc[c] \in Unlocked
    BY <2>1, ActorAssumption DEF Locking, Owned
  <2> QED
    BY <2>1, <2>2 DEF SetupInv, Unlocked
<1>3. CASE StopInterrupt
  BY <1>3 DEF StopInterrupt, SetupInv, Fresh, hwVars, busVars
<1>4. CASE HandlerEnter \/ HandlerStep
  <2>1. /\ UNCHANGED <<req, msgs, tar, enable>>
        /\ \A c \in Clients : pc'[c] = pc[c] \/ (pc[c] = "sleeping" /\ pc'[c] = "woken")
    BY <1>4 DEF HandlerEnter, HandlerStep, ReadClear, RxEnd, RxSkipWrite, RxBegin, RxByte, RxPause,
       RxMessageDone, TxSkip, TxEnter, TxBadMessage, TxBegin, TxPush, TxPause, TxMessageDone, TxEnd,
       TxSetMask, Wakeup, HandlerReturn, ReadMask, RestoreMask, hwVars, busVars, threadVars
  <2>2. ASSUME NEW c \in Clients, pc[c] \in {"request", "enable", "unmask"}
        PROVE  /\ UNCHANGED <<merr, cerr, wip, rip, widx, ridx, outst, bus, txfifo, rxfifo, sent>>
               /\ ~stopdet /\ ~abrt => ~stopdet' /\ ~abrt'
    <3>1. /\ h \in {"idle", "clear", "rx", "tx", "wake", "remask"}
          /\ h \in {"rx", "tx", "remask"} => stat = {}
      BY <2>2, FreshRests
    <3>2. h = "clear" => mask = {}
      BY <2>2, FreshRests, NobodyPrograms
    <3>3. CASE ReadClear
      <4>1. stat' = {}
        BY <3>2, <3>3 DEF ReadClear, Handler
      <4> QED
        BY <3>3, <4>1 DEF ReadClear, Handler
    <3>4. CASE HandlerEnter \/ RxEnd \/ TxSkip \/ Wakeup \/ HandlerReturn \/ ReadMask \/ RestoreMask
      BY <3>4 DEF HandlerEnter, RxEnd, TxSkip, Wakeup, HandlerReturn, ReadMask, RestoreMask,
         hwVars, busVars
    <3> QED
      BY <1>4, <3>1, <3>3, <3>4 DEF HandlerStep, RxSkipWrite, RxBegin, RxByte, RxPause, RxMessageDone,
         TxEnter, TxBadMessage, TxBegin, TxPush, TxPause, TxMessageDone, TxEnd, TxSetMask, Handler
  <2> QED
    BY <2>1, <2>2 DEF SetupInv, Fresh
<1> QED
  BY <1>1, <1>2, <1>3, <1>4 DEF Power

-----------------------------------------------------------------------------
(* The order of what is sent. *)

(* Who is being served holds the lock; the transfer has a message. *)
LEMMA ServedTransfer ==
  ASSUME Settled, SetupInv, Serving
  PROVE  msgs \in Transfer /\ msgs \in Seq(Message) /\ Len(msgs) \in Nat /\ Len(msgs) >= 1
<1>1. PICK c \in Clients : pc[c] \in InTransfer
  BY DEF Serving
<1>2. msgs = req[c] /\ pc[c] # "idle"
  BY <1>1 DEF SetupInv, InTransfer
<1>3. msgs \in Transfer
  BY <1>2 DEF Settled, TypeOK, ThreadTypeOK
<1> QED
  BY <1>3, EmptySeq, LenProperties DEF Transfer

(* Steps that leave the commands and the write position alone. *)
LEMMA OrderKept ==
  ASSUME Serving' /\ ~cerr' /\ ~abrt' => ChainInv /\ WriteInv,
         UNCHANGED <<msgs, bus, sent, txfifo, widx, wip, tlen>>, bus = "byte" => shift' = shift,
         h \notin {"push", "txmsg"}, h' \notin {"push", "txmsg"}
  PROVE  OrderInv'
<1> SUFFICES ASSUME Serving', ~cerr', ~abrt' PROVE ChainInv' /\ WriteInv'
  BY DEF OrderInv
<1>1. ChainInv /\ WriteInv
  OBVIOUS
<1>2. ChainInv'
  BY <1>1 DEF ChainInv, Front, Faithful, InMessages
<1>3. LastQueued' = LastQueued
  BY DEF LastQueued, Front
<1>4. Written' = Written
  BY DEF Written, Unwritten, EndOf
<1> QED
  BY <1>1, <1>2, <1>3, <1>4 DEF WriteInv

(* Steps of others that leave the block and the handler alone. *)
LEMMA OrderSame ==
  ASSUME OrderInv, Serving' => Serving, UNCHANGED <<hwVars, busVars, h, localVars>>
  PROVE  OrderInv'
<1> SUFFICES ASSUME Serving', ~cerr', ~abrt' PROVE ChainInv' /\ WriteInv'
  BY DEF OrderInv
<1>1. ChainInv /\ WriteInv
  BY DEF OrderInv, hwVars, busVars
<1>2. ChainInv'
  BY <1>1 DEF ChainInv, Front, Faithful, InMessages, hwVars, busVars
<1>3. LastQueued' = LastQueued
  BY DEF LastQueued, Front, hwVars
<1>4. Written' = Written
  BY DEF Written, Unwritten, EndOf, busVars, localVars
<1> QED
  BY <1>1, <1>2, <1>3, <1>4 DEF WriteInv, busVars, localVars

(* The positions of queued commands are positions. *)
LEMMA QueueTyped ==
  ASSUME TypeOK
  PROVE  /\ \A i \in 1..Len(txfifo) : txfifo[i] \in Command /\ txfifo[i].at \in Position
         /\ shift.at \in Position /\ sent \in Position /\ Front \in Position
         /\ Len(txfifo) \in Nat
<1>1. txfifo \in Seq(Command) /\ shift \in Command /\ sent \in Position
  BY DEF TypeOK, HwTypeOK
<1>2. Len(txfifo) \in Nat
  BY <1>1, LenProperties
<1>3. \A i \in 1..Len(txfifo) : txfifo[i] \in Command
  BY <1>1, ElementOfSeq
<1> QED
  BY <1>1, <1>2, <1>3 DEF Command, Front

(* The block shifts the commands out in the order in which it got them. *)
LEMMA HardwareOrder ==
  ASSUME Settled, FifoInv, SetupInv, OrderInv, Hardware
  PROVE  OrderInv'
<1> USE DEF Settled, TypeOK
<1>0. UNCHANGED <<enable, cerr, h, pc, msgs, widx, wip, tlen, left>>
  BY DEF Hardware, HwStep, StartByte, Acknowledged, NotAcknowledged, StopCondition, StopOnEmpty,
     Settle, busVars, threadVars, localVars
<1> SUFFICES ASSUME Serving', ~cerr', ~abrt' PROVE ChainInv' /\ WriteInv'
  BY DEF OrderInv
<1>1. Serving /\ ~cerr
  BY <1>0 DEF Serving
<1>2. ~abrt
  BY DEF Hardware, HwStep, StartByte, Acknowledged, NotAcknowledged, StopCondition, StopOnEmpty, Settle
<1>3. ChainInv /\ WriteInv
  BY <1>1, <1>2 DEF OrderInv
<1>4. Written' = Written
  BY <1>0 DEF Written, Unwritten, EndOf
<1>5. \A k : Faithful(k) => (Faithful(k))'
  BY <1>0 DEF Faithful, InMessages
<1>6. SUFFICES ChainInv' /\ LastQueued' = LastQueued
  BY <1>0, <1>3, <1>4 DEF WriteInv
<1>7. CASE StartByte
  <2>1. /\ txfifo # << >> /\ txfifo' = Tail(txfifo) /\ shift' = Head(txfifo)
        /\ bus # "byte" /\ bus' = "byte" /\ sent' = sent /\ Len(txfifo) \in Nat /\ Len(txfifo) > 0
    BY <1>7, EmptySeq, LenProperties DEF StartByte, HwTypeOK
  <2>2. /\ Len(txfifo') = Len(txfifo) - 1
        /\ \A i \in 1..Len(txfifo') : txfifo'[i] = txfifo[i + 1]
        /\ shift' = txfifo[1]
    BY <2>1, HeadTailProperties DEF HwTypeOK
  <2>3. Front = sent /\ Front' = txfifo[1].at
    BY <2>1, <2>2 DEF Front
  <2>4. shift'.at = After(msgs, sent) /\ Faithful(shift')
    BY <2>1, <2>2, <2>3, <1>3 DEF ChainInv
  <2>5. Faithful(shift)'
    BY <1>0, <2>4 DEF Faithful, InMessages
  <2>6. \A i \in 1..Len(txfifo') : Faithful(txfifo[i + 1])
    BY <1>3, <2>1, <2>2 DEF ChainInv
  <2>7. \A i \in 1..Len(txfifo)' : Faithful(txfifo[i])'
    BY <1>0, <2>2, <2>6 DEF Faithful, InMessages
  <2>8. txfifo' # << >> => Len(txfifo') >= 1
    BY <2>1, <2>2, EmptySeq, HeadTailProperties, LenProperties DEF HwTypeOK
  <2>9. txfifo' # << >> => txfifo'[1].at = After(msgs, txfifo[1].at)
    <3>1. txfifo' # << >> => 2 \in 2..Len(txfifo) /\ txfifo'[1] = txfifo[2]
      BY <2>1, <2>2, <2>8
    <3> QED
      BY <1>3, <3>1 DEF ChainInv
  <2>10. \A i \in 2..Len(txfifo') : txfifo'[i].at = After(msgs, txfifo'[i - 1].at)
    <3>1. \A i \in 2..Len(txfifo') : /\ i + 1 \in 2..Len(txfifo) /\ (i + 1) - 1 = i
                                      /\ txfifo'[i] = txfifo[i + 1] /\ txfifo'[i - 1] = txfifo[i]
      BY <2>1, <2>2
    <3> QED
      BY <1>3, <3>1 DEF ChainInv
  <2>11. ChainInv'
    BY <1>0, <2>1, <2>3, <2>4, <2>5, <2>7, <2>9, <2>10 DEF ChainInv
  <2>12. LastQueued' = LastQueued
    <3>1. CASE ~(Len(txfifo) > 1)
      <4>1. txfifo' = << >>
        BY <2>1, <2>2, <2>8, <3>1
      <4>2. \A n \in Nat : n > 0 /\ ~(n > 1) => n = 1
        OBVIOUS
      <4>3. Len(txfifo) = 1
        BY <2>1, <3>1, <4>2, Zenon
      <4> QED
        BY <2>1, <2>3, <4>1, <4>3, Zenon DEF LastQueued
    <3>2. CASE Len(txfifo) > 1
      <4>1. Len(txfifo') \in 1..Len(txfifo') /\ Len(txfifo') + 1 = Len(txfifo)
        BY <2>1, <2>2, <3>2
      <4>2. txfifo' # << >>
        BY <2>2, <3>2, <4>1, EmptySeq
      <4>3. txfifo'[Len(txfifo')] = txfifo[Len(txfifo)]
        BY <2>2, <4>1
      <4> QED
        BY <2>1, <4>2, <4>3 DEF LastQueued
    <3> QED
      BY <3>1, <3>2
  <2> QED
    BY <2>11, <2>12
<1>8. CASE Acknowledged
  <2>1. bus = "byte" /\ bus' # "byte" /\ sent' = shift.at /\ txfifo' = txfifo
    BY <1>8 DEF Acknowledged
  <2>2. Front' = Front
    BY <2>1 DEF Front
  <2> QED
    BY <1>0, <1>3, <2>1, <2>2 DEF ChainInv, LastQueued, Faithful, InMessages
<1>9. CASE StopCondition \/ StopOnEmpty
  <2>1. bus # "byte" /\ bus' # "byte" /\ sent' = sent /\ txfifo' = txfifo
    BY <1>9 DEF StopCondition, StopOnEmpty
  <2>2. Front' = Front
    BY <2>1 DEF Front
  <2> QED
    BY <1>0, <1>3, <2>1, <2>2 DEF ChainInv, LastQueued, Faithful, InMessages
<1>10. CASE Settle
  <2>1. PICK c \in Clients : pc[c] \in InTransfer
    BY <1>1 DEF Serving
  <2>2. pc[c] \in {"request", "enable"}
    BY <1>10, <2>1 DEF Settle, SetupInv, Programmed
  <2> QED
    BY <2>2, FreshRests
<1> QED
  BY <1>7, <1>8, <1>9, <1>10 DEF Hardware, HwStep, NotAcknowledged

(* A transfer that has just been set up is in order. *)
LEMMA FreshOrder ==
  ASSUME Settled, SetupInv, NEW c \in Clients, pc[c] \in {"request", "enable", "unmask"},
         h \notin {"push", "txmsg"}
  PROVE  ChainInv /\ WriteInv
<1>1. Fresh
  BY DEF SetupInv
<1>2. Len(msgs) \in Nat /\ Len(msgs) >= 1
  BY ServedTransfer DEF Serving, InTransfer
<1>3. Len(txfifo) = 0
  BY <1>1, EmptySeq DEF Fresh
<1>4. ChainInv
  BY <1>1, <1>3 DEF Fresh, ChainInv
<1>5. Written = Before
  BY <1>1, <1>2 DEF Fresh, Written, Unwritten, EndOf
<1>6. LastQueued = Before
  BY <1>1 DEF Fresh, LastQueued, Front
<1> QED
  BY <1>1, <1>2, <1>4, <1>5, <1>6 DEF Fresh, WriteInv

(* Client threads. *)
LEMMA ThreadOrder ==
  ASSUME Unhurried, Settled, FifoInv, SetupInv, OrderInv, NEW c \in Clients, Thread(c)
  PROVE  OrderInv'
<1> USE DEF Settled, TypeOK, ThreadTypeOK, InTransfer
<1>0. ~env.lateirq
  BY DEF Unhurried
<1>1. ASSUME \/ Call(c) \/ Lock(c) \/ RefuseBusy(c) \/ Sleep(c) \/ Deadline(c) \/ Signal(c)
             \/ Unlock(c)
      PROVE  OrderInv'
  <2>1. /\ UNCHANGED <<hwVars, busVars, h, localVars>>
        /\ \E to \in ThreadPC : /\ pc' = [pc EXCEPT ![c] = to]
                                /\ to \in InTransfer => pc[c] \in InTransfer
    BY <1>1 DEF Call, Lock, RefuseBusy, Sleep, Deadline, Signal, Unlock, Goto, ThreadPC
  <2>2. \A d \in Clients : pc'[d] \in InTransfer => pc[d] \in InTransfer
    BY <2>1
  <2>3. Serving' => Serving
    BY <2>2 DEF Serving
  <2> QED
    BY <2>1, <2>3, OrderSame
<1>2. ASSUME Setup(c) PROVE OrderInv'
  <2>1. /\ ~enable /\ txfifo = << >> /\ h = "idle" /\ pc[c] = "prepare" /\ bus = "idle"
    BY <1>2, RestBeforeProgram DEF Setup, Goto, Activity
  <2>2. /\ h' = "idle" /\ txfifo' = << >> /\ bus' = "idle" /\ sent' = Before
        /\ widx' = 1 /\ ~wip' /\ msgs' = req[c]
    BY <1>2, <2>1 DEF Setup
  <2>3. Len(msgs') \in Nat /\ Len(msgs') >= 1
    BY <2>1, <2>2, EmptySeq, LenProperties DEF Transfer
  <2>4. Len(txfifo') = 0
    BY <2>2, EmptySeq
  <2>5. ChainInv'
    BY <2>2, <2>4 DEF ChainInv
  <2>6. Written' = Before
    BY <2>2, <2>3 DEF Written, Unwritten, EndOf
  <2>7. LastQueued' = Before
    BY <2>2 DEF LastQueued, Front
  <2>8. WriteInv'
    BY <2>2, <2>3, <2>6, <2>7 DEF WriteInv
  <2> QED
    BY <2>5, <2>8 DEF OrderInv
<1>3. ASSUME Reprogram(c) \/ Enable(c) \/ Unmask(c) PROVE OrderInv'
  <2>1. pc[c] \in {"request", "enable", "unmask"}
    BY <1>3 DEF Reprogram, Enable, Unmask, Goto
  <2>2. Fresh /\ h \notin {"push", "txmsg"}
    BY <2>1, FreshRests DEF SetupInv
  <2>3. ChainInv /\ WriteInv
    BY <2>1, <2>2, FreshOrder
  <2>4. UNCHANGED <<msgs, bus, sent, txfifo, widx, wip, tlen, h>>
    BY <1>3, <2>2 DEF Reprogram, Enable, Unmask, Disabled, Activity, Fresh, busVars
  <2> QED
    BY <2>2, <2>3, <2>4, OrderKept DEF Fresh
<1>4. ASSUME Finish(c) \/ TimedOut(c) PROVE OrderInv'
  <2>1. pc[c] \notin Unlocked /\ pc' = [pc EXCEPT ![c] = "unlock"]
    BY <1>0, <1>4 DEF Finish, TimedOut, Leave, Goto, Unlocked
  <2>2. \A d \in Clients \ {c} : pc[d] \in Unlocked
    BY <2>1, OnlyOne
  <2>3. ~Serving'
    BY <2>1, <2>2 DEF Serving, Unlocked
  <2> QED
    BY <2>3 DEF OrderInv
<1> QED
  BY <1>1, <1>2, <1>3, <1>4 DEF Thread, Proceed

(* Power management waits until nobody is served. *)
LEMMA PowerServes ==
  ASSUME Settled, PowerOff \/ PowerOn
  PROVE  ~Serving /\ ~Serving' /\ UNCHANGED pc
<1>1. lock = Free /\ UNCHANGED pc
  BY DEF PowerOff, PowerOn, threadVars
<1>2. \A c \in Clients : pc[c] \in Unlocked
  BY <1>1, ActorAssumption DEF Settled, Locking, Owned
<1> QED
  BY <1>1, <1>2 DEF Serving, Unlocked, InTransfer

LEMMA PowerOrder == ASSUME Settled, OrderInv, Power PROVE OrderInv'
<1>1. CASE StopInterrupt
  BY <1>1, OrderSame DEF StopInterrupt, Serving
<1>2. CASE PowerOff \/ PowerOn
  BY <1>2, PowerServes DEF OrderInv
<1> QED
  BY <1>1, <1>2 DEF Power

(* The handler's steps that write no command. *)
LEMMA HandlerServes ==
  ASSUME Settled, HandlerEnter \/ HandlerStep
  PROVE  /\ Serving' => Serving
         /\ UNCHANGED <<msgs, bus, shift, sent, enable>>
<1> USE DEF Settled, TypeOK, ThreadTypeOK
<1>1. /\ \A c \in Clients : pc'[c] = pc[c] \/ (pc[c] = "sleeping" /\ pc'[c] = "woken")
      /\ UNCHANGED <<msgs, bus, shift, sent, enable>>
  BY DEF HandlerEnter, HandlerStep, ReadClear, RxEnd, RxSkipWrite, RxBegin, RxByte, RxPause,
     RxMessageDone, TxSkip, TxEnter, TxBadMessage, TxBegin, TxPush, TxPause, TxMessageDone, TxEnd,
     TxSetMask, Wakeup, HandlerReturn, ReadMask, RestoreMask, hwVars, busVars, threadVars
<1> QED
  BY <1>1 DEF Serving, InTransfer

LEMMA ReadOrder ==
  ASSUME Settled, OrderInv,
         \/ HandlerEnter \/ ReadClear
         \/ RxEnd \/ RxSkipWrite \/ RxBegin \/ RxByte \/ RxPause \/ RxMessageDone
         \/ TxSkip \/ TxSetMask \/ Wakeup \/ HandlerReturn \/ ReadMask \/ RestoreMask
  PROVE  OrderInv'
<1>1. h \notin {"push", "txmsg"} /\ h' \notin {"push", "txmsg"}
  BY DEF HandlerEnter, ReadClear, RxEnd, RxSkipWrite, RxBegin, RxByte, RxPause, RxMessageDone,
     TxSkip, TxSetMask, Wakeup, HandlerReturn, ReadMask, RestoreMask, Handler
<1>2. (Serving' => Serving) /\ UNCHANGED <<msgs, bus, shift, sent>>
  BY HandlerServes DEF HandlerStep
<1>3. UNCHANGED <<txfifo, widx, tlen>>
  BY DEF HandlerEnter, ReadClear, RxEnd, RxSkipWrite, RxBegin, RxByte, RxPause, RxMessageDone,
     TxSkip, TxSetMask, Wakeup, HandlerReturn, ReadMask, RestoreMask, hwVars, busVars
<1>4. CASE ReadClear
  <2>1. CASE "TX_ABRT" \in stat'
    BY <1>4, <2>1 DEF ReadClear, OrderInv
  <2>2. CASE "TX_ABRT" \notin stat'
    <3>1. UNCHANGED <<cerr, wip>> /\ (abrt => abrt')
      BY <1>4, <2>2 DEF ReadClear
    <3> QED
      BY <1>1, <1>2, <1>3, <3>1, OrderKept DEF OrderInv
  <2> QED
    BY <2>1, <2>2
<1>5. CASE ~ReadClear
  <2>1. UNCHANGED <<cerr, abrt, wip>>
    BY <1>5 DEF HandlerEnter, RxEnd, RxSkipWrite, RxBegin, RxByte, RxPause, RxMessageDone,
       TxSkip, TxSetMask, Wakeup, HandlerReturn, ReadMask, RestoreMask, hwVars, busVars
  <2> QED
    BY <1>1, <1>2, <1>3, <2>1, OrderKept DEF OrderInv
<1> QED
  BY <1>4, <1>5

(* The position after the last one written is the one transferMessageToBus writes next. *)
LEMMA AfterWritten ==
  ASSUME TypeOK, widx <= Len(msgs), NEW n \in Nat, 0 < n, n <= msgs[widx].len,
         NEW w, w = IF n = msgs[widx].len THEN EndOf(widx - 1) ELSE <<widx, msgs[widx].len - n>>
  PROVE  After(msgs, w) = <<widx, msgs[widx].len - n + 1>>
<1>1. widx \in Nat /\ widx >= 1 /\ msgs[widx].len \in Nat
  BY FieldsAt DEF TypeOK, BusTypeOK
<1>2. CASE n # msgs[widx].len
  BY <1>1, <1>2 DEF After, Before
<1>3. CASE n = msgs[widx].len /\ widx = 1
  BY <1>1, <1>3 DEF After, Before, EndOf
<1>4. CASE n = msgs[widx].len /\ widx # 1
  <2>1. w = <<widx - 1, msgs[widx - 1].len>> /\ widx - 1 >= 1
    BY <1>1, <1>4 DEF EndOf
  <2>2. msgs[widx - 1].len \in Nat
    BY <1>1, <2>1, FieldsAt
  <2> QED
    BY <1>1, <1>4, <2>1, <2>2 DEF After, Before
<1> QED
  BY <1>2, <1>3, <1>4

(* The command it writes is the one that position calls for. *)
LEMMA NextFaithful ==
  ASSUME TypeOK, widx <= Len(msgs), 0 < left, left <= msgs[widx].len
  PROVE  /\ Faithful(NextCommand) /\ NextCommand \in Command
         /\ NextCommand.at = <<widx, msgs[widx].len - left + 1>>
<1>1. /\ widx \in Nat /\ widx >= 1 /\ msgs[widx].len \in Nat /\ left \in Nat
      /\ msgs[widx].rd \in BOOLEAN /\ restart \in BOOLEAN
  BY FieldsAt DEF TypeOK, BusTypeOK, HandlerTypeOK
<1>2. Len(msgs) \in Nat
  BY EmptySeq, LenProperties DEF TypeOK, BusTypeOK, Transfer
<1>3. NextCommand.at = <<widx, msgs[widx].len - left + 1>>
  BY DEF NextCommand
<1>4. NextCommand \in Command
  BY <1>1 DEF NextCommand, Command, Position
<1>5. InMessages(NextCommand.at)
  BY <1>1, <1>2, <1>3 DEF InMessages
<1>6. NextCommand.rd = msgs[NextCommand.at[1]].rd
  BY <1>1, <1>3 DEF NextCommand
<1>7. NextCommand.stop <=> NextCommand.at = LastOf(msgs)
  <2>1. NextCommand.at = LastOf(msgs) <=> widx = Len(msgs) /\ left = 1
    <3>1. NextCommand.at = LastOf(msgs) <=>
            widx = Len(msgs) /\ msgs[widx].len - left + 1 = msgs[Len(msgs)].len
      BY <1>3 DEF LastOf
    <3> QED
      BY <1>1, <1>2, <3>1
  <2> QED
    BY <2>1 DEF NextCommand
<1> QED
  BY <1>3, <1>4, <1>5, <1>6, <1>7 DEF Faithful

(* transferMessageToBus continues where it left off. *)
LEMMA WriteOrder ==
  ASSUME Settled, FifoInv, SetupInv, OrderInv,
         \/ TxEnter \/ TxBadMessage \/ TxBegin \/ TxPush \/ TxPause \/ TxMessageDone \/ TxEnd
  PROVE  OrderInv'
<1> USE DEF Settled, TypeOK
<1>0. /\ h \in {"tx", "txmsg", "push"}
      /\ UNCHANGED <<msgs, bus, shift, sent, pc, cerr, abrt, enable>>
  BY DEF TxEnter, TxBadMessage, TxBegin, TxPush, TxPause, TxMessageDone, TxEnd, Handler, hwVars,
     busVars, threadVars
<1> SUFFICES ASSUME Serving', ~cerr', ~abrt' PROVE ChainInv' /\ WriteInv'
  BY DEF OrderInv
<1>1. ChainInv /\ WriteInv /\ ~cerr /\ ~abrt
  BY <1>0 DEF OrderInv, Serving
<1>2. /\ Len(msgs) \in Nat /\ widx \in Nat /\ widx >= 1 /\ left \in Nat /\ tlen \in Nat
      /\ widx <= Len(msgs) => msgs[widx].len \in Nat
  BY FieldsAt, EmptySeq, LenProperties DEF BusTypeOK, HandlerTypeOK, Transfer
<1>3. ASSUME txfifo' = txfifo PROVE ChainInv' /\ LastQueued' = LastQueued
  BY <1>0, <1>1, <1>3 DEF ChainInv, Front, Faithful, InMessages, LastQueued
<1>4. CASE TxEnter \/ TxBadMessage \/ TxEnd
  <2>1. UNCHANGED <<txfifo, widx, wip, tlen>> /\ h # "push" /\ h' # "push"
    BY <1>4 DEF TxEnter, TxBadMessage, TxEnd, Handler, hwVars, busVars
  <2>2. h' = "txmsg" => left' = tlen'
    BY <1>4, <2>1 DEF TxEnter, TxBadMessage, TxEnd, Handler
  <2>3. Written' = Written
    BY <1>0, <2>1 DEF Written, Unwritten, EndOf
  <2> QED
    BY <1>0, <1>1, <1>3, <2>1, <2>2, <2>3 DEF WriteInv
<1>5. CASE TxBegin
  <2>1. /\ UNCHANGED <<txfifo, widx, wip, tlen>> /\ h = "txmsg" /\ h' = "push"
        /\ left' = IF wip THEN left ELSE msgs[widx].len
        /\ widx <= Len(msgs) /\ msgs[widx].len > 0
    BY <1>5 DEF TxBegin, Handler, WriteLength, Sendable, hwVars, busVars
  <2>2. left = tlen
    BY <1>1, <2>1 DEF WriteInv
  <2>3. Written' = Written
    BY <1>0, <2>1, <2>2 DEF Written, Unwritten, EndOf
  <2>4. left' <= msgs[widx].len
    BY <1>1, <1>2, <2>1, <2>2 DEF WriteInv
  <2> QED
    BY <1>0, <1>1, <1>3, <2>1, <2>3, <2>4 DEF WriteInv
<1>6. CASE TxPause
  <2>1. /\ UNCHANGED <<txfifo, widx>> /\ h = "push" /\ h' = "txmask"
        /\ left > 0 /\ tlen' = left /\ wip'
    BY <1>6 DEF TxPause, Handler, hwVars
  <2>2. Written' = Written
    BY <1>0, <2>1 DEF Written, Unwritten, EndOf
  <2> QED
    BY <1>0, <1>1, <1>3, <2>1, <2>2 DEF WriteInv
<1>7. CASE TxMessageDone
  <2>1. /\ txfifo' = txfifo /\ h = "push" /\ h' = "txmsg"
        /\ left = 0 /\ tlen' = left /\ left' = left /\ ~wip' /\ widx' = widx + 1
    BY <1>7 DEF TxMessageDone, Handler, hwVars, localVars
  <2>2. widx <= Len(msgs) /\ 0 < msgs[widx].len
    BY <1>1, <2>1 DEF WriteInv
  <2>3. Written = <<widx, msgs[widx].len>>
    BY <1>2, <2>1, <2>2 DEF Written, Unwritten
  <2>4. EndOf(widx)' = <<widx + 1, msgs[widx + 1].len>>
    BY <1>0, <1>2, <2>1 DEF EndOf
  <2>5. Written' = <<widx, msgs[widx].len>>
    <3>1. widx' - 1 = widx /\ widx # 0
      BY <1>2, <2>1
    <3>2. Written' = IF widx' - 1 = 0 THEN Before ELSE <<widx' - 1, msgs[widx' - 1].len>>
      BY <1>0, <2>1 DEF Written, Unwritten, EndOf
    <3> QED
      BY <3>1, <3>2
  <2>6. \A i \in 1..(widx' - 1) : msgs[i].len > 0
    <3>1. \A i \in 1..(widx' - 1) : i \in 1..(widx - 1) \/ i = widx
      BY <1>2, <2>1
    <3> QED
      BY <1>1, <1>2, <2>2, <3>1 DEF WriteInv
  <2> QED
    BY <1>0, <1>1, <1>2, <1>3, <2>1, <2>2, <2>3, <2>5, <2>6 DEF WriteInv
<1>8. CASE TxPush
  <2>1. /\ h = "push" /\ h' = "push" /\ left > 0 /\ tlim > 0 /\ left' = left - 1
        /\ Pushed(NextCommand) /\ UNCHANGED <<widx, wip, tlen>>
    BY <1>8 DEF TxPush, MayPush, Handler
  <2>2. enable
    BY <2>1 DEF SetupInv, HandlerHasOwner
  <2>3. widx <= Len(msgs) /\ left <= msgs[widx].len /\ 0 < msgs[widx].len
    BY <1>1, <2>1 DEF WriteInv
  <2>4. txfifo' = Append(txfifo, NextCommand)
    <3>1. Len(txfifo) + tlim <= TxDepth
      BY <2>1 DEF FifoInv, LimitInv
    <3>2. Len(txfifo) \in Nat /\ tlim \in Nat /\ TxDepth \in Nat
      BY LenProperties, DepthAssumption DEF HwTypeOK, HandlerTypeOK
    <3>3. Len(txfifo) < TxDepth
      BY <2>1, <3>1, <3>2
    <3> QED
      BY <1>1, <2>1, <2>2, <3>3 DEF Pushed
  <2>5. /\ Faithful(NextCommand) /\ NextCommand \in Command
        /\ NextCommand.at = <<widx, msgs[widx].len - left + 1>>
    BY <2>1, <2>3, NextFaithful
  <2>6. NextCommand.at = After(msgs, LastQueued)
    <3>1. LastQueued = IF left = msgs[widx].len THEN EndOf(widx - 1) ELSE <<widx, msgs[widx].len - left>>
      BY <1>1, <1>2, <2>1, <2>3 DEF WriteInv, Written, Unwritten
    <3> QED
      BY <1>2, <2>1, <2>3, <2>5, <3>1, AfterWritten
  <2>7. /\ Len(txfifo) \in Nat /\ Len(txfifo') = Len(txfifo) + 1
        /\ \A i \in 1..Len(txfifo) : txfifo'[i] = txfifo[i]
        /\ txfifo'[Len(txfifo) + 1] = NextCommand
    BY <2>4, <2>5, AppendProperties, LenProperties DEF HwTypeOK
  <2>8. txfifo' # << >>
    BY <2>7, EmptySeq
  <2>9. Front' = Front
    BY <1>0 DEF Front
  <2>10. \A i \in 1..Len(txfifo') : Faithful(txfifo'[i])
    <3>1. \A i \in 1..Len(txfifo') : i \in 1..Len(txfifo) \/ i = Len(txfifo) + 1
      BY <2>7
    <3> QED
      BY <1>1, <2>5, <2>7, <3>1 DEF ChainInv
  <2>11. (\A i \in 1..Len(txfifo) : Faithful(txfifo[i]))'
    BY <1>0, <2>10 DEF Faithful, InMessages
  <2>12. txfifo = << >> => Len(txfifo) = 0
    BY EmptySeq
  <2>13. txfifo # << >> => Len(txfifo) >= 1
    BY <2>7, EmptySeq DEF HwTypeOK
  <2>14. txfifo'[1].at = After(msgs, Front)
    <3>1. CASE txfifo = << >>
      BY <2>6, <2>7, <2>12, <3>1 DEF LastQueued
    <3>2. CASE txfifo # << >>
      <4>1. 1 \in 1..Len(txfifo)
        BY <2>7, <2>13, <3>2
      <4> QED
        BY <1>1, <2>7, <3>2, <4>1 DEF ChainInv
    <3> QED
      BY <3>1, <3>2
  <2>15. \A i \in 2..Len(txfifo') : txfifo'[i].at = After(msgs, txfifo'[i - 1].at)
    <3> SUFFICES ASSUME NEW i \in 2..Len(txfifo') PROVE txfifo'[i].at = After(msgs, txfifo'[i - 1].at)
      OBVIOUS
    <3>1. CASE i <= Len(txfifo)
      <4>1. i \in 2..Len(txfifo) /\ i \in 1..Len(txfifo) /\ i - 1 \in 1..Len(txfifo)
        BY <2>7, <3>1
      <4> QED
        BY <1>1, <2>7, <4>1 DEF ChainInv
    <3>2. CASE ~(i <= Len(txfifo))
      <4>1. i = Len(txfifo) + 1 /\ i - 1 = Len(txfifo) /\ Len(txfifo) \in 1..Len(txfifo)
        BY <2>7, <3>2
      <4>2. txfifo # << >>
        BY <2>7, <2>12, <4>1
      <4> QED
        BY <2>6, <2>7, <4>1, <4>2 DEF LastQueued
    <3> QED
      BY <3>1, <3>2
  <2>16. ChainInv'
    BY <1>0, <1>1, <2>9, <2>11, <2>14, <2>15 DEF ChainInv, Faithful, InMessages
  <2>17. LastQueued' = NextCommand.at
    BY <2>7, <2>8 DEF LastQueued
  <2>18. Written' = <<widx, msgs[widx].len - left + 1>>
    <3>1. left - 1 # msgs[widx].len /\ msgs[widx].len - (left - 1) = msgs[widx].len - left + 1
      BY <1>2, <2>3
    <3>2. Written' = <<widx, msgs[widx].len - (left - 1)>>
      BY <1>0, <1>2, <2>1, <2>3, <3>1 DEF Written, Unwritten
    <3> QED
      BY <3>1, <3>2
  <2> QED
    BY <1>0, <1>1, <1>2, <2>1, <2>3, <2>5, <2>16, <2>17, <2>18 DEF WriteInv
<1> QED
  BY <1>4, <1>5, <1>6, <1>7, <1>8

(* Every step keeps the commands in order. *)
LEMMA NextOrder ==
  ASSUME Unhurried, Settled, FifoInv, SetupInv, OrderInv, [Next]_vars
  PROVE  OrderInv'
<1>1. CASE UNCHANGED vars
  BY <1>1, OrderSame DEF vars, threadVars, Serving
<1>2. CASE Next
  BY <1>2, HardwareOrder, ThreadOrder, PowerOrder, ReadOrder, WriteOrder DEF Next, HandlerStep
<1> QED
  BY <1>1, <1>2

-----------------------------------------------------------------------------
(* The bytes that come back. *)

(* What was sent last is a byte of the transfer. *)
LEMMA NextSent ==
  ASSUME Unhurried, Settled, FifoInv, SetupInv, OrderInv, SentInv, [Next]_vars
  PROVE  SentInv'
<1> USE DEF Settled, TypeOK, ThreadTypeOK
<1>0. ~env.lateirq
  BY DEF Unhurried
<1>1. ASSUME Serving' => Serving, UNCHANGED <<msgs, sent>> PROVE SentInv'
  BY <1>1 DEF SentInv, InMessages
<1>2. ASSUME NEW c \in Clients, Thread(c) PROVE SentInv'
  <2>1. CASE Setup(c)
    BY <2>1 DEF Setup, SentInv
  <2>2. CASE ~Setup(c)
    <3>1. /\ UNCHANGED <<msgs, sent>>
          /\ \E to \in ThreadPC : /\ pc' = [pc EXCEPT ![c] = to]
                                  /\ to \in InTransfer => pc[c] \in InTransfer
      BY <1>2, <2>2 DEF Thread, Proceed, Call, Lock, RefuseBusy, Reprogram, Enable, Unmask, Sleep,
         Deadline, Signal, Finish, TimedOut, Leave, Unlock, Goto, ThreadPC, InTransfer, hwVars, busVars
    <3>2. \A d \in Clients : pc'[d] \in InTransfer => pc[d] \in InTransfer
      BY <3>1
    <3> QED
      BY <1>1, <3>1, <3>2 DEF Serving
  <2> QED
    BY <2>1, <2>2
<1>3. CASE Power
  BY <1>1, <1>3 DEF Power, PowerOff, PowerOn, StopInterrupt, Serving, hwVars, busVars, threadVars
<1>4. CASE HandlerEnter \/ HandlerStep
  BY <1>1, <1>4, HandlerServes
<1>5. CASE Hardware
  <2>1. UNCHANGED <<msgs, pc, cerr>>
    BY <1>5 DEF Hardware, busVars, threadVars
  <2>2. CASE Acknowledged
    <3>1. sent' = shift.at /\ bus = "byte" /\ enable
      BY <2>2 DEF Acknowledged
    <3>2. ~cerr /\ ~abrt
      BY <3>1 DEF FifoInv, AccountInv, AbortInv, Aborted
    <3>3. Serving => InMessages(shift.at)
      BY <3>1, <3>2 DEF OrderInv, ChainInv, Faithful
    <3> QED
      BY <2>1, <3>1, <3>3 DEF SentInv, Serving, InMessages
  <2>3. CASE ~Acknowledged
    <3>1. sent' = sent
      BY <1>5, <2>3 DEF Hardware, HwStep, StartByte, NotAcknowledged, StopCondition, StopOnEmpty, Settle
    <3> QED
      BY <1>1, <2>1, <3>1 DEF Serving
  <2> QED
    BY <2>2, <2>3
<1>6. CASE UNCHANGED vars
  BY <1>1, <1>6 DEF vars, threadVars, busVars, hwVars, Serving
<1> QED
  BY <1>2, <1>3, <1>4, <1>5, <1>6 DEF Next

(* The positions in the receive FIFO, and the cursor, are positions. *)
LEMMA ReceivedTyped ==
  ASSUME TypeOK
  PROVE  /\ \A i \in 1..Len(rxfifo) : rxfifo[i] \in Position
         /\ Len(rxfifo) \in Nat /\ sent \in Position /\ ridx \in Nat /\ ridx >= 1
<1>1. rxfifo \in Seq(Position) /\ sent \in Position
  BY DEF TypeOK, HwTypeOK
<1>2. Len(rxfifo) \in Nat /\ \A i \in 1..Len(rxfifo) : rxfifo[i] \in Position
  BY <1>1, LenProperties, ElementOfSeq
<1> QED
  BY <1>1, <1>2 DEF TypeOK, BusTypeOK

(* A step that leaves the receive FIFO alone and moves the cursor past no byte to be read. *)
LEMMA FetchKept ==
  ASSUME TypeOK, FetchInv, UNCHANGED <<msgs, rxfifo, sent>>,
         \A p \in Position : ReadPosition(p) => (Ahead(p, Cursor') <=> Ahead(p, Cursor)),
         h' = "rxbyte" => ridx' <= Len(msgs) /\ msgs[ridx'].rd /\ left' <= msgs[ridx'].len,
         rip' => ridx' <= Len(msgs) /\ msgs[ridx'].rd /\ 0 < rlen' /\ rlen' <= msgs[ridx'].len
  PROVE  FetchInv'
<1>1. \A p : ReadPosition(p)' <=> ReadPosition(p)
  BY DEF ReadPosition, InMessages
<1>2. \A i \in 1..Len(rxfifo) :
        ReadPosition(rxfifo[i]) /\ ~Ahead(rxfifo[i], Cursor') /\ ~Ahead(sent, rxfifo[i])
  BY ReceivedTyped DEF FetchInv
<1>3. \A p \in Position :
        ReadPosition(p) /\ ~Ahead(p, Cursor') /\ ~Ahead(sent, p) =>
          \E i \in 1..Len(rxfifo) : rxfifo[i] = p
  BY DEF FetchInv
<1>4. \A p \in Position : ReadPosition(p) /\ Ahead(p, Cursor') => ~Ahead(sent, p)
  BY DEF FetchInv
<1>5. \A i, j \in 1..Len(rxfifo) : i < j => Ahead(rxfifo[i], rxfifo[j])
  BY DEF FetchInv
<1> HIDE DEF Cursor
<1>6. (\A i \in 1..Len(rxfifo) :
         ReadPosition(rxfifo[i]) /\ ~Ahead(rxfifo[i], Cursor) /\ ~Ahead(sent, rxfifo[i]))'
  BY <1>2 DEF Ahead, ReadPosition, InMessages
<1>7. (\A p \in Position :
         ReadPosition(p) /\ ~Ahead(p, Cursor) /\ ~Ahead(sent, p) =>
           \E i \in 1..Len(rxfifo) : rxfifo[i] = p)'
  BY <1>3 DEF Ahead, ReadPosition, InMessages
<1>8. (\A p \in Position : ReadPosition(p) /\ Ahead(p, Cursor) => ~Ahead(sent, p))'
  BY <1>4 DEF Ahead, ReadPosition, InMessages
<1>9. (\A i, j \in 1..Len(rxfifo) : i < j => Ahead(rxfifo[i], rxfifo[j]))'
  BY <1>5 DEF Ahead
<1> QED
  BY <1>6, <1>7, <1>8, <1>9 DEF FetchInv

(* Steps that have nothing to do with reading. *)
LEMMA ReadKept ==
  ASSUME TypeOK, ReadInv, Serving' => Serving, cerr => cerr',
         UNCHANGED <<msgs, rxfifo, sent, ridx, rip, rlen>>,
         \/ h # "rxbyte" /\ h' # "rxbyte"
         \/ UNCHANGED <<h, left>>
  PROVE  ReadInv'
<1> SUFFICES ASSUME Serving', ~cerr' PROVE FetchInv'
  BY DEF ReadInv
<1>1. FetchInv
  BY DEF ReadInv
<1>2. Cursor' = Cursor
  BY DEF Cursor, Unfetched
<1>3. \A p \in Position : ReadPosition(p) => (Ahead(p, Cursor') <=> Ahead(p, Cursor))
  BY <1>2
<1>4. /\ h' = "rxbyte" => ridx' <= Len(msgs) /\ msgs[ridx'].rd /\ left' <= msgs[ridx'].len
      /\ rip' => ridx' <= Len(msgs) /\ msgs[ridx'].rd /\ 0 < rlen' /\ rlen' <= msgs[ridx'].len
  BY <1>1 DEF FetchInv
<1> QED
  BY <1>1, <1>3, <1>4, FetchKept

(* The block puts each byte it reads at the end of the receive FIFO. *)
LEMMA HardwareRead ==
  ASSUME Settled, FifoInv, SetupInv, OrderInv, SentInv, ReadInv, Hardware
  PROVE  ReadInv'
<1> USE DEF Settled, TypeOK
<1>0. UNCHANGED <<enable, cerr, h, pc, msgs, ridx, rip, rlen, left>>
  BY DEF Hardware, HwStep, StartByte, Acknowledged, NotAcknowledged, StopCondition, StopOnEmpty,
     Settle, busVars, threadVars, localVars
<1>1. CASE ~Acknowledged
  <2>1. UNCHANGED <<sent, rxfifo>>
    BY <1>1 DEF Hardware, HwStep, StartByte, NotAcknowledged, StopCondition, StopOnEmpty, Settle
  <2> QED
    BY <1>0, <2>1, ReadKept DEF Serving
<1>2. CASE Acknowledged
  <2> SUFFICES ASSUME Serving', ~cerr' PROVE FetchInv'
    BY DEF ReadInv
  <2> DEFINE a == shift.at
  <2>1. bus = "byte" /\ enable /\ sent' = a /\ ~cerr /\ Serving /\ FetchInv
    BY <1>0, <1>2 DEF Acknowledged, ReadInv, Serving
  <2>2. ~abrt
    BY <2>1 DEF FifoInv, AbortInv
  <2>3. a = After(msgs, sent) /\ InMessages(a) /\ shift.rd = msgs[a[1]].rd
    BY <2>1, <2>2 DEF OrderInv, ChainInv, Faithful
  <2>4. shift.rd <=> ReadPosition(a)
    BY <2>3 DEF ReadPosition
  <2>5. a \in Position /\ sent \in Position /\ Len(rxfifo) \in Nat /\ ridx \in Nat
    BY QueueTyped, ReceivedTyped
  <2>6. sent = Before \/ InMessages(sent)
    BY <2>1 DEF SentInv
  <2>7. \A p \in Position : InMessages(p) => (Ahead(sent, p) <=> p = a \/ Ahead(a, p))
    BY <2>3, <2>5, <2>6, NothingBetween
  <2>8. shift.rd => Len(rxfifo) < RxDepth
    <3>1. Accounted
      BY <2>1 DEF FifoInv, AccountInv
    <3>2. BeingRead \in {0, 1} /\ Unread \in Int /\ txfifo \in Seq(Command)
      BY <2>5 DEF BeingRead, Unread, BusTypeOK, HwTypeOK
    <3>3. Unread >= 0
      BY <3>1, <3>2, ReadsWeaken DEF Accounted
    <3> QED
      BY <2>1, <2>5, <3>1, <3>2, <3>3, DepthAssumption DEF Accounted, Unread, BeingRead, BusTypeOK
  <2>9. rxfifo' = IF shift.rd THEN Append(rxfifo, a) ELSE rxfifo
    BY <1>2, <2>8 DEF Acknowledged
  <2>10. Cursor' = Cursor
    BY <1>0 DEF Cursor, Unfetched
  <2>11. /\ h' = "rxbyte" => ridx' <= Len(msgs') /\ msgs'[ridx'].rd /\ left' <= msgs'[ridx'].len
         /\ rip' => ridx' <= Len(msgs') /\ msgs'[ridx'].rd /\ 0 < rlen' /\ rlen' <= msgs'[ridx'].len
    BY <1>0, <2>1 DEF FetchInv
  <2>12. ReadPosition(a) => ~Ahead(a, Cursor)
    BY <2>1, <2>3, <2>5, <2>7 DEF FetchInv
  <2>13. \A p \in Position : ReadPosition(p) /\ Ahead(p, Cursor) => ~Ahead(a, p)
    BY <2>1, <2>7 DEF FetchInv, ReadPosition
  <2>14. \A p \in Position : InMessages(p) /\ ~Ahead(sent, p) => ~Ahead(a, p) /\ Ahead(p, a)
    BY <2>5, <2>7, AheadTotal
  <2>15. \A i \in 1..Len(rxfifo) :
           /\ rxfifo[i] \in Position /\ ReadPosition(rxfifo[i]) /\ ~Ahead(rxfifo[i], Cursor)
           /\ ~Ahead(a, rxfifo[i]) /\ Ahead(rxfifo[i], a)
    BY <2>1, <2>14, ReceivedTyped DEF FetchInv, ReadPosition
  <2>16. ~Ahead(a, a)
    BY <2>5, AheadTotal
  <2>17. \A p \in Position :
           ReadPosition(p) /\ ~Ahead(p, Cursor) /\ ~Ahead(a, p) =>
             p = a \/ \E i \in 1..Len(rxfifo) : rxfifo[i] = p
    BY <2>1, <2>7 DEF FetchInv, ReadPosition
  <2>18. CASE ~shift.rd
    <3>1. rxfifo' = rxfifo
      BY <2>9, <2>18
    <3>2. \A p \in Position :
           ReadPosition(p) /\ ~Ahead(p, Cursor) /\ ~Ahead(a, p) =>
             \E i \in 1..Len(rxfifo) : rxfifo[i] = p
      BY <2>4, <2>17, <2>18
    <3>3. \A i, j \in 1..Len(rxfifo) : i < j => Ahead(rxfifo[i], rxfifo[j])
      BY <2>1 DEF FetchInv
    <3> QED
      BY <1>0, <2>1, <2>10, <2>11, <2>13, <2>15, <3>1, <3>2, <3>3
         DEF FetchInv, Ahead, ReadPosition, InMessages
  <2>19. CASE shift.rd
    <3>1. /\ Len(rxfifo') = Len(rxfifo) + 1
          /\ \A i \in 1..Len(rxfifo) : rxfifo'[i] = rxfifo[i]
          /\ rxfifo'[Len(rxfifo) + 1] = a
      BY <2>5, <2>9, <2>19, AppendProperties DEF HwTypeOK
    <3>2. \A i \in 1..Len(rxfifo') : i \in 1..Len(rxfifo) \/ i = Len(rxfifo) + 1
      BY <2>5, <3>1
    <3>3. \A i, j \in 1..Len(rxfifo') : i < j => Ahead(rxfifo'[i], rxfifo'[j])
      <4> SUFFICES ASSUME NEW i \in 1..Len(rxfifo'), NEW j \in 1..Len(rxfifo'), i < j
                   PROVE  Ahead(rxfifo'[i], rxfifo'[j])
        OBVIOUS
      <4>1. i \in 1..Len(rxfifo)
        BY <2>5, <3>1
      <4>2. CASE j \in 1..Len(rxfifo)
        BY <2>1, <3>1, <4>1, <4>2 DEF FetchInv
      <4>3. CASE j = Len(rxfifo) + 1
        BY <2>15, <3>1, <4>1, <4>3
      <4> QED
        BY <3>2, <4>2, <4>3
    <3>4. \A i \in 1..Len(rxfifo') :
            ReadPosition(rxfifo'[i]) /\ ~Ahead(rxfifo'[i], Cursor) /\ ~Ahead(a, rxfifo'[i])
      BY <2>4, <2>12, <2>15, <2>16, <2>19, <3>1, <3>2
    <3>5. \A p \in Position :
           ReadPosition(p) /\ ~Ahead(p, Cursor) /\ ~Ahead(a, p) =>
             \E i \in 1..Len(rxfifo') : rxfifo'[i] = p
      <4>1. Len(rxfifo) + 1 \in 1..Len(rxfifo') /\ \A i \in 1..Len(rxfifo) : i \in 1..Len(rxfifo')
        BY <2>5, <3>1
      <4> QED
        BY <2>17, <3>1, <4>1
    <3> QED
      BY <1>0, <2>1, <2>10, <2>11, <2>13, <3>3, <3>4, <3>5
         DEF FetchInv, Ahead, ReadPosition, InMessages
  <2> QED
    BY <2>18, <2>19
<1> QED
  BY <1>1, <1>2

(* Client threads: what a client sets up has nothing to be read. *)
LEMMA ThreadRead ==
  ASSUME Unhurried, Settled, FifoInv, SetupInv, ReadInv, NEW c \in Clients, Thread(c)
  PROVE  ReadInv'
<1> USE DEF Settled, TypeOK, ThreadTypeOK, InTransfer
<1>0. ~env.lateirq
  BY DEF Unhurried
<1>1. ASSUME \/ Call(c) \/ Lock(c) \/ RefuseBusy(c) \/ Sleep(c) \/ Deadline(c) \/ Signal(c)
             \/ Unlock(c)
      PROVE  ReadInv'
  <2>1. /\ UNCHANGED <<hwVars, busVars, h, localVars>>
        /\ \E to \in ThreadPC : /\ pc' = [pc EXCEPT ![c] = to]
                                /\ to \in InTransfer => pc[c] \in InTransfer
    BY <1>1 DEF Call, Lock, RefuseBusy, Sleep, Deadline, Signal, Unlock, Goto, ThreadPC
  <2>2. \A d \in Clients : pc'[d] \in InTransfer => pc[d] \in InTransfer
    BY <2>1
  <2>3. Serving' => Serving
    BY <2>2 DEF Serving
  <2> QED
    BY <2>1, <2>3, ReadKept DEF hwVars, busVars, localVars
<1>2. ASSUME Setup(c) PROVE ReadInv'
  <2>1. /\ rxfifo = << >> /\ h = "idle" /\ pc[c] = "prepare"
    BY <1>2, RestBeforeProgram DEF Setup, Goto
  <2>2. /\ h' = "idle" /\ rxfifo' = << >> /\ sent' = Before /\ ridx' = 1 /\ ~rip'
    BY <1>2, <2>1 DEF Setup
  <2>3. Len(rxfifo') = 0
    BY <2>2, EmptySeq
  <2>4. Cursor' = <<1, 1>>
    BY <2>2 DEF Cursor
  <2>5. \A p \in Position : InMessages(p)' => Ahead(Before, p) /\ ~Ahead(p, <<1, 1>>)
    BY DEF InMessages, Ahead, Before, Position
  <2>6. FetchInv'
    BY <2>2, <2>3, <2>4, <2>5 DEF FetchInv, ReadPosition, Ahead
  <2> QED
    BY <2>6 DEF ReadInv
<1>3. ASSUME Reprogram(c) \/ Enable(c) \/ Unmask(c) PROVE ReadInv'
  <2>1. pc[c] \in {"request", "enable", "unmask"}
    BY <1>3 DEF Reprogram, Enable, Unmask, Goto
  <2>2. Fresh /\ h # "rxbyte" /\ Serving
    BY <2>1, FreshRests DEF SetupInv, Serving
  <2>3. UNCHANGED <<msgs, rxfifo, sent, ridx, rip, rlen, cerr, h>>
    BY <1>3, <2>2 DEF Reprogram, Enable, Unmask, Disabled, Fresh, busVars
  <2> QED
    BY <2>2, <2>3, ReadKept
<1>4. ASSUME Finish(c) \/ TimedOut(c) PROVE ReadInv'
  <2>1. pc[c] \notin Unlocked /\ pc' = [pc EXCEPT ![c] = "unlock"]
    BY <1>0, <1>4 DEF Finish, TimedOut, Leave, Goto, Unlocked
  <2>2. \A d \in Clients \ {c} : pc[d] \in Unlocked
    BY <2>1, OnlyOne
  <2>3. ~Serving'
    BY <2>1, <2>2 DEF Serving, Unlocked
  <2> QED
    BY <2>3 DEF ReadInv
<1> QED
  BY <1>1, <1>2, <1>3, <1>4 DEF Thread, Proceed

LEMMA PowerRead == ASSUME Settled, ReadInv, Power PROVE ReadInv'
<1>1. CASE StopInterrupt
  BY <1>1, ReadKept DEF StopInterrupt, Serving, Settled, hwVars, busVars
<1>2. CASE PowerOff \/ PowerOn
  BY <1>2, PowerServes DEF ReadInv
<1> QED
  BY <1>1, <1>2 DEF Power

(* The byte readFromBus takes is the one its read buffer waits for. *)
LEMMA HeadIsCursor ==
  ASSUME Settled, FifoInv, FetchInv, h = "rxbyte", left > 0, valid > 0
  PROVE  /\ Len(rxfifo) \in Nat /\ Len(rxfifo) > 0 /\ rxfifo[1] = Cursor
         /\ Cursor = <<ridx, msgs[ridx].len - left + 1>> /\ Cursor \in Position
         /\ ReadPosition(Cursor) /\ ~Ahead(sent, Cursor)
<1> USE DEF Settled, TypeOK
<1>1. /\ Len(rxfifo) \in Nat /\ sent \in Position /\ ridx \in Nat /\ ridx >= 1
      /\ \A i \in 1..Len(rxfifo) : rxfifo[i] \in Position
  BY ReceivedTyped
<1>2. valid \in Nat /\ left \in Nat /\ valid <= Len(rxfifo)
  BY DEF HandlerTypeOK, FifoInv, LimitInv
<1>3. Len(rxfifo) > 0 /\ 1 \in 1..Len(rxfifo)
  BY <1>1, <1>2
<1>4. ridx <= Len(msgs) /\ msgs[ridx].rd /\ left <= msgs[ridx].len /\ msgs[ridx].len \in Nat
  BY <1>1, FieldsAt DEF FetchInv
<1>5. Len(msgs) \in Nat
  BY EmptySeq, LenProperties DEF BusTypeOK, Transfer
<1>6. Cursor = <<ridx, msgs[ridx].len - left + 1>>
  BY DEF Cursor, Unfetched
<1>7. Cursor \in Position /\ ReadPosition(Cursor)
  BY <1>1, <1>2, <1>4, <1>5, <1>6 DEF Position, ReadPosition, InMessages
<1>8. rxfifo[1] \in Position /\ ~Ahead(rxfifo[1], Cursor) /\ ~Ahead(sent, rxfifo[1])
  BY <1>1, <1>3 DEF FetchInv
<1>9. ~Ahead(sent, Cursor) /\ ~Ahead(Cursor, Cursor)
  BY <1>1, <1>7, <1>8, AheadTransitive, AheadTotal
<1>10. PICK i \in 1..Len(rxfifo) : rxfifo[i] = Cursor
  BY <1>7, <1>9 DEF FetchInv
<1>11. 1 < i => Ahead(rxfifo[1], rxfifo[i])
  BY <1>3 DEF FetchInv
<1>12. i = 1
  BY <1>1, <1>8, <1>10, <1>11
<1> QED
  BY <1>1, <1>3, <1>6, <1>7, <1>9, <1>10, <1>12

(* Taking it moves the cursor to the next byte. *)
LEMMA ByteRead == ASSUME Settled, FifoInv, ReadInv, RxByte PROVE ReadInv'
<1> USE DEF Settled, TypeOK
<1>0. /\ h = "rxbyte" /\ h' = "rxbyte" /\ left > 0 /\ valid > 0
      /\ UNCHANGED <<msgs, sent, ridx, rip, rlen, cerr, pc>>
      /\ left' = left - 1
  BY DEF RxByte, Handler, threadVars
<1> SUFFICES ASSUME Serving', ~cerr' PROVE FetchInv'
  BY DEF ReadInv
<1>1. FetchInv
  BY <1>0 DEF ReadInv, Serving
<1>2. /\ Len(rxfifo) \in Nat /\ Len(rxfifo) > 0 /\ rxfifo[1] = Cursor
      /\ Cursor = <<ridx, msgs[ridx].len - left + 1>> /\ Cursor \in Position
      /\ ReadPosition(Cursor) /\ ~Ahead(sent, Cursor)
  BY <1>0, <1>1, HeadIsCursor
<1>3. rxfifo # << >>
  BY <1>2, EmptySeq
<1>4. /\ Len(rxfifo') = Len(rxfifo) - 1
      /\ \A i \in 1..Len(rxfifo') : rxfifo'[i] = rxfifo[i + 1]
  BY <1>3, HeadTailProperties DEF RxByte, HwTypeOK
<1>5. ridx \in Nat /\ ridx >= 1 /\ left \in Nat /\ ridx <= Len(msgs) /\ msgs[ridx].rd
      /\ left <= msgs[ridx].len /\ msgs[ridx].len \in Nat
  BY <1>0, <1>1, ReceivedTyped, FieldsAt DEF FetchInv, HandlerTypeOK
<1>6. Cursor' = <<ridx, msgs[ridx].len - left + 2>>
  BY <1>0, <1>5 DEF Cursor, Unfetched
<1>7. \A p \in Position : Ahead(p, Cursor') <=> p = Cursor \/ Ahead(p, Cursor)
  <2> SUFFICES ASSUME NEW p \in Position PROVE Ahead(p, Cursor') <=> p = Cursor \/ Ahead(p, Cursor)
    OBVIOUS
  <2>1. p[1] \in Int /\ p[2] \in Int
    BY DEF Position
  <2>2. p = Cursor <=> p[1] = ridx /\ p[2] = msgs[ridx].len - left + 1
    BY <1>2, PositionPair
  <2> QED
    BY <1>2, <1>5, <1>6, <2>1, <2>2 DEF Ahead
<1>8. \A i \in 1..Len(rxfifo') : i \in 1..Len(rxfifo) /\ i + 1 \in 1..Len(rxfifo) /\ 1 < i + 1
  BY <1>2, <1>4
<1>9. 1 \in 1..Len(rxfifo) /\ \A i \in 1..Len(rxfifo) : rxfifo[i] \in Position
  BY <1>2, ReceivedTyped
<1>10. \A i, j \in 1..Len(rxfifo') : i < j => Ahead(rxfifo'[i], rxfifo'[j])
  <2> SUFFICES ASSUME NEW i \in 1..Len(rxfifo'), NEW j \in 1..Len(rxfifo'), i < j
               PROVE  Ahead(rxfifo[i + 1], rxfifo[j + 1])
    BY <1>4
  <2>1. i + 1 < j + 1
    BY <1>8
  <2> QED
    BY <1>1, <1>8, <2>1 DEF FetchInv
<1>11. \A i \in 1..Len(rxfifo') :
         ReadPosition(rxfifo'[i]) /\ ~Ahead(rxfifo'[i], Cursor') /\ ~Ahead(sent, rxfifo'[i])
  <2> SUFFICES ASSUME NEW i \in 1..Len(rxfifo')
               PROVE  /\ ReadPosition(rxfifo[i + 1]) /\ ~Ahead(rxfifo[i + 1], Cursor')
                      /\ ~Ahead(sent, rxfifo[i + 1])
    BY <1>4
  <2>1. Ahead(rxfifo[1], rxfifo[i + 1])
    BY <1>1, <1>8, <1>9 DEF FetchInv
  <2>2. rxfifo[i + 1] # Cursor /\ ~Ahead(rxfifo[i + 1], Cursor)
    <3>1. rxfifo[i + 1] \in Position /\ Ahead(Cursor, rxfifo[i + 1])
      BY <1>2, <1>8, <1>9, <2>1
    <3> HIDE DEF Cursor, Ahead
    <3> QED
      BY <1>2, <3>1, AheadTotal
  <2> QED
    BY <1>1, <1>7, <1>8, <1>9, <2>2 DEF FetchInv
<1>12. \A p \in Position :
         ReadPosition(p) /\ ~Ahead(p, Cursor') /\ ~Ahead(sent, p) =>
           \E i \in 1..Len(rxfifo') : rxfifo'[i] = p
  <2> SUFFICES ASSUME NEW p \in Position, ReadPosition(p), ~Ahead(p, Cursor'), ~Ahead(sent, p)
               PROVE  \E i \in 1..Len(rxfifo') : rxfifo'[i] = p
    OBVIOUS
  <2>1. p # Cursor /\ ~Ahead(p, Cursor)
    BY <1>7
  <2>2. PICK i \in 1..Len(rxfifo) : rxfifo[i] = p
    BY <1>1, <2>1 DEF FetchInv
  <2>3. i - 1 \in 1..Len(rxfifo') /\ (i - 1) + 1 = i
    BY <1>2, <1>4, <2>1, <2>2
  <2> QED
    BY <1>4, <2>2, <2>3
<1>13. \A p \in Position : ReadPosition(p) /\ Ahead(p, Cursor') => ~Ahead(sent, p)
  BY <1>1, <1>2, <1>7 DEF FetchInv
<1>14. left' <= msgs[ridx].len
  BY <1>0, <1>5
<1>15. rip => 0 < rlen /\ rlen <= msgs[ridx].len
  BY <1>1 DEF FetchInv
<1> QED
  BY <1>0, <1>5, <1>10, <1>11, <1>12, <1>13, <1>14, <1>15 DEF FetchInv, Ahead, ReadPosition, InMessages

(* The rest of readFromBus moves the cursor past no byte to be read. *)
LEMMA CursorKept ==
  ASSUME Settled, ReadInv, RxSkipWrite \/ RxBegin \/ RxPause \/ RxMessageDone
  PROVE  ReadInv'
<1> USE DEF Settled, TypeOK
<1>0. UNCHANGED <<msgs, rxfifo, sent, cerr, pc>> /\ h \in {"rx", "rxbyte"} /\ ridx <= Len(msgs)
  BY DEF RxSkipWrite, RxBegin, RxPause, RxMessageDone, Handler, hwVars, busVars, threadVars, HandlerTypeOK
<1> SUFFICES ASSUME Serving', ~cerr' PROVE FetchInv'
  BY DEF ReadInv
<1>1. FetchInv
  BY <1>0 DEF ReadInv, Serving
<1>2. ridx \in Nat /\ ridx >= 1 /\ left \in Nat /\ rlen \in Nat /\ msgs[ridx].len \in Nat
  BY <1>0, ReceivedTyped, FieldsAt DEF HandlerTypeOK, BusTypeOK
<1>3. \A p \in Position : ReadPosition(p) =>
        p[1] \in Int /\ p[2] \in Int /\ p[2] >= 1 /\ p[2] <= msgs[p[1]].len /\ msgs[p[1]].rd
  BY FieldsAt DEF ReadPosition, InMessages, Position
<1>4. CASE RxSkipWrite
  <2>1. /\ h = "rx" /\ h' = "rx" /\ ridx' = ridx + 1 /\ ~msgs[ridx].rd /\ rip' = rip
    BY <1>4 DEF RxSkipWrite, Handler
  <2>2. ~rip /\ ~rip'
    BY <1>1, <2>1 DEF FetchInv
  <2>3. Cursor = <<ridx, 1>> /\ Cursor' = <<ridx + 1, 1>>
    BY <2>1, <2>2 DEF Cursor
  <2>4. \A p \in Position : ReadPosition(p) => (Ahead(p, Cursor') <=> Ahead(p, Cursor))
    <3> SUFFICES ASSUME NEW p \in Position, ReadPosition(p) PROVE Ahead(p, Cursor') <=> Ahead(p, Cursor)
      OBVIOUS
    <3>1. p[1] \in Int /\ p[2] \in Int /\ p[2] >= 1 /\ p[1] # ridx
      BY <1>3, <2>1
    <3> QED
      BY <1>2, <2>3, <3>1 DEF Ahead
  <2> QED
    BY <1>0, <1>1, <2>1, <2>2, <2>4, FetchKept
<1>5. CASE RxBegin
  <2>1. /\ h = "rx" /\ h' = "rxbyte" /\ UNCHANGED <<ridx, rip, rlen>> /\ msgs[ridx].rd
        /\ left' = IF rip THEN rlen ELSE msgs[ridx].len
    BY <1>5 DEF RxBegin, Handler, ReadLength, busVars
  <2>2. left' <= msgs[ridx].len /\ rip => 0 < rlen /\ rlen <= msgs[ridx].len
    BY <1>1, <1>2, <2>1 DEF FetchInv
  <2>3. Cursor' = Cursor
    BY <1>0, <1>2, <2>1 DEF Cursor, Unfetched
  <2>4. left' <= msgs[ridx].len
    BY <1>1, <1>2, <2>1 DEF FetchInv
  <2>5. \A p \in Position : ReadPosition(p) => (Ahead(p, Cursor') <=> Ahead(p, Cursor))
    BY <2>3
  <2>6. rip => 0 < rlen /\ rlen <= msgs[ridx].len
    BY <1>1 DEF FetchInv
  <2> QED
    BY <1>0, <1>1, <2>1, <2>4, <2>5, <2>6, FetchKept
<1>6. CASE RxPause
  <2>1. h = "rxbyte" /\ h' = "tx" /\ ridx' = ridx /\ rip' /\ rlen' = left /\ left > 0
    BY <1>6 DEF RxPause, Handler
  <2>2. Cursor' = Cursor
    BY <1>0, <1>2, <2>1 DEF Cursor, Unfetched
  <2>3. left <= msgs[ridx].len /\ msgs[ridx].rd
    BY <1>1, <2>1 DEF FetchInv
  <2>4. \A p \in Position : ReadPosition(p) => (Ahead(p, Cursor') <=> Ahead(p, Cursor))
    BY <2>2
  <2> QED
    BY <1>0, <1>1, <2>1, <2>3, <2>4, FetchKept
<1>7. CASE RxMessageDone
  <2>1. h = "rxbyte" /\ h' = "rx" /\ ridx' = ridx + 1 /\ ~rip' /\ left = 0
    BY <1>7 DEF RxMessageDone, Handler
  <2>2. Cursor = <<ridx, msgs[ridx].len + 1>> /\ Cursor' = <<ridx + 1, 1>>
    BY <1>2, <2>1 DEF Cursor, Unfetched
  <2>3. \A p \in Position : ReadPosition(p) => (Ahead(p, Cursor') <=> Ahead(p, Cursor))
    <3> SUFFICES ASSUME NEW p \in Position, ReadPosition(p) PROVE Ahead(p, Cursor') <=> Ahead(p, Cursor)
      OBVIOUS
    <3>1. /\ p[1] \in Int /\ p[2] \in Int /\ p[2] >= 1
          /\ p[1] = ridx => p[2] <= msgs[ridx].len
      BY <1>3
    <3> QED
      BY <1>2, <2>2, <3>1 DEF Ahead
  <2> QED
    BY <1>0, <1>1, <2>1, <2>3, FetchKept
<1> QED
  BY <1>4, <1>5, <1>6, <1>7

(* The handler outside readFromBus. *)
LEMMA OtherRead ==
  ASSUME Settled, ReadInv,
         \/ HandlerEnter \/ ReadClear \/ RxEnd
         \/ TxSkip \/ TxEnter \/ TxBadMessage \/ TxBegin \/ TxPush \/ TxPause \/ TxMessageDone
         \/ TxEnd \/ TxSetMask
         \/ Wakeup \/ HandlerReturn \/ ReadMask \/ RestoreMask
  PROVE  ReadInv'
<1>1. (Serving' => Serving) /\ UNCHANGED <<msgs, sent>>
  BY HandlerServes DEF HandlerStep
<1>2. h # "rxbyte" /\ h' # "rxbyte"
  BY DEF HandlerEnter, ReadClear, RxEnd, TxSkip, TxEnter, TxBadMessage, TxBegin, TxPush, TxPause,
     TxMessageDone, TxEnd, TxSetMask, Wakeup, HandlerReturn, ReadMask, RestoreMask, Handler
<1>3. UNCHANGED <<rxfifo, ridx, rlen>>
  BY DEF HandlerEnter, ReadClear, RxEnd, TxSkip, TxEnter, TxBadMessage, TxBegin, TxPush, TxPause,
     TxMessageDone, TxEnd, TxSetMask, Wakeup, HandlerReturn, ReadMask, RestoreMask, hwVars, busVars
<1>4. CASE ReadClear /\ "TX_ABRT" \in stat'
  BY <1>4 DEF ReadClear, ReadInv
<1>5. CASE ~(ReadClear /\ "TX_ABRT" \in stat')
  <2>1. UNCHANGED <<rip, cerr>>
    BY <1>5 DEF HandlerEnter, ReadClear, RxEnd, TxSkip, TxEnter, TxBadMessage, TxBegin, TxPush, TxPause,
       TxMessageDone, TxEnd, TxSetMask, Wakeup, HandlerReturn, ReadMask, RestoreMask, busVars
  <2> QED
    BY <1>1, <1>2, <1>3, <2>1, ReadKept DEF Settled
<1> QED
  BY <1>4, <1>5

(* Every step keeps the receive FIFO and the cursor in step. *)
LEMMA NextRead ==
  ASSUME Unhurried, Settled, FifoInv, SetupInv, OrderInv, SentInv, ReadInv, [Next]_vars
  PROVE  ReadInv'
<1>1. CASE UNCHANGED vars
  BY <1>1, ReadKept DEF vars, hwVars, busVars, localVars, threadVars, Serving, Settled
<1>2. CASE Next
  BY <1>2, HardwareRead, ThreadRead, PowerRead, ByteRead, CursorKept, OtherRead DEF Next, HandlerStep
<1> QED
  BY <1>1, <1>2

(* Together. *)
LEMMA NextTransfer ==
  ASSUME Unhurried, Settled, FifoInv, TransferInv, [Next]_vars
  PROVE  TransferInv'
<1> USE DEF TransferInv
<1>1. SetupInv'
  <2>1. CASE UNCHANGED vars
    BY <2>1 DEF vars, hwVars, busVars, threadVars, SetupInv, Fresh
  <2>2. CASE Next
    BY <2>2, ThreadSetup, OthersSetup DEF Next
  <2> QED
    BY <2>1, <2>2
<1>2. OrderInv' /\ SentInv' /\ ReadInv'
  BY NextOrder, NextSent, NextRead
<1> QED
  BY <1>1, <1>2

LEMMA InitTransfer == Init => Settled /\ FifoInv /\ TransferInv
<1>1. Init => Settled /\ FifoInv
  BY InitTyped, InitLocking, InitFifo DEF Init, HwInit, Settled, HandlerHasOwner
<1>2. Init => ~Serving /\ SetupInv
  BY DEF Init, Serving, InTransfer, Programmed, SetupInv
<1> QED
  BY <1>1, <1>2 DEF TransferInv, OrderInv, SentInv, ReadInv

LEMMA AlwaysTransfer == ASSUME Unhurried PROVE Spec => [](Settled /\ FifoInv /\ TransferInv)
<1>1. Settled /\ FifoInv /\ TransferInv /\ [Next]_vars => Settled' /\ FifoInv' /\ TransferInv'
  BY NextSettled, NextFifo, NextTransfer
<1> QED
  BY InitTransfer, <1>1, PTL DEF Spec

-----------------------------------------------------------------------------
(* What follows for the wire and for the caller's buffers. *)

(* While a byte is shifted or a stop condition is put on the bus of an enabled block, a
   transfer is being served; while a byte is shifted nothing has gone wrong with it. *)
LEMMA MovingServes ==
  ASSUME Settled, FifoInv, enable
  PROVE  /\ \E c \in Clients : pc[c] \in Programmed
         /\ Serving
         /\ bus = "byte" => ~cerr /\ ~abrt
BY DEF Settled, Locking, EnabledForOwner, Serving, Programmed, FifoInv, AccountInv, AbortInv, Aborted

(* IC_TAR holds the address of the transfer whenever the bus moves, for every set of
   requests and every number of clients: requestTransferI2C writes it in each call before
   the block is enabled, and nobody else writes it. *)
THEOREM TargetsSlaveUnhurried == Unhurried => (Spec => []TargetsSlave)
<1> SUFFICES ASSUME Unhurried PROVE Spec => []TargetsSlave
  OBVIOUS
<1>1. Settled /\ FifoInv /\ TransferInv => TargetsSlave
  BY MovingServes DEF TransferInv, SetupInv, TargetsSlave, Programmed
<1> QED
  BY AlwaysTransfer, <1>1, PTL

(* Each byte on the wire is the one after the last acknowledged byte, in the direction of
   its message, and the stop bit is on the last byte of the last message and on no other,
   for FIFOs of any depth and transfers of any shape: however the handler's runs split the
   work, transferMessageToBus continues where it left off, and the FIFO keeps the order. *)
THEOREM ByteIsNextUnhurried == Unhurried => (Spec => []ByteIsNext)
<1> SUFFICES ASSUME Unhurried PROVE Spec => []ByteIsNext
  OBVIOUS
<1>1. Settled /\ FifoInv /\ TransferInv => ByteIsNext
  BY MovingServes DEF TransferInv, OrderInv, ChainInv, Faithful, ByteIsNext
<1> QED
  BY AlwaysTransfer, <1>1, PTL

(* readFromBus stores each byte where it belongs, for FIFOs of any depth and transfers of
   any shape: the byte it takes from the receive FIFO is the one its buffer waits for. *)
THEOREM ReadsPlacedUnhurried == Unhurried => (Spec => []ReadsPlaced)
<1> SUFFICES ASSUME Unhurried PROVE Spec => []ReadsPlaced
  OBVIOUS
<1>1. Settled /\ FifoInv /\ TransferInv => ReadsPlaced
  <2> SUFFICES ASSUME Settled, FifoInv, TransferInv, h = "rxbyte", left > 0, valid > 0
               PROVE  rxfifo # << >> /\ Head(rxfifo) = <<ridx, msgs[ridx].len - left + 1>>
    BY DEF ReadsPlaced
  <2>1. PICK c \in Clients : pc[c] \in Programmed
    BY DEF Settled, HandlerHasOwner
  <2>2. enable /\ Serving
    BY <2>1 DEF TransferInv, SetupInv, Serving, Programmed
  <2>3. ~cerr
    BY <2>2 DEF FifoInv, AccountInv, Aborted, Quiet
  <2>4. FetchInv
    BY <2>2, <2>3 DEF TransferInv, ReadInv
  <2>5. Len(rxfifo) \in Nat /\ Len(rxfifo) > 0 /\ rxfifo[1] = <<ridx, msgs[ridx].len - left + 1>>
    BY <2>4, HeadIsCursor
  <2>6. rxfifo # << >>
    BY <2>5, EmptySeq
  <2> QED
    BY <2>5, <2>6, HeadTailProperties DEF Settled, TypeOK, HwTypeOK
<1> QED
  BY AlwaysTransfer, <1>1, PTL

=============================================================================
