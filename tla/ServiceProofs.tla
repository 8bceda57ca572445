---------------------------- MODULE ServiceProofs ----------------------------
(***************************************************************************)
(* Theorems about what ControllerDriver tells its callers: what Success     *)
(* means, that the driver implements I2CService, and that a sleeping caller *)
(* is not forgotten, in environments where only the end of a transfer ends  *)
(* it.                                                                      *)
(***************************************************************************)
EXTENDS TransferProofs

(* The block holds the bus when its FIFO runs empty, no signal interrupts a sleeping caller,
   and handlers are not overtaken by threads. *)
Calm == \A e \in Envs : e.hold /\ ~e.signals /\ ~e.lateirq

-----------------------------------------------------------------------------
(* What the handler has read from IC_INTR_STAT, and what the latches stand for. *)

(* The masks the driver ever writes. *)
Masks == {{}, DefaultMask, DefaultMask \ {"TX_EMPTY"}}

(* The local status holds what readClearInterruptBits returned. *)
StatusRead == h \notin {"idle", "clear", "remask"}

MaskInv == mask \in Masks /\ (h = "remask" => stat \in Masks)

(* A stop condition, reported or latched, with no abort about, means that the last byte has
   been sent. *)
StopInv ==
  /\ StatusRead /\ "TX_ABRT" \in stat => cerr
  /\ StatusRead /\ "STOP_DET" \in stat /\ ~cerr => sent = LastOf(msgs) /\ ~abrt
  /\ enable /\ ~cerr /\ ~abrt /\ (stopdet \/ bus = "stop") => sent = LastOf(msgs)

AllRead == \A i \in 1..Len(msgs) : msgs[i].rd => i < ridx

(* Who is woken up has an error to report, or is done. *)
WokenInv ==
  \A c \in Clients : pc[c] = "woken" => merr \/ cerr \/ (sent = LastOf(msgs) /\ AllRead)

OutcomeInv == MaskInv /\ StopInv /\ WokenInv /\ SuccessMeansDone

-----------------------------------------------------------------------------

(* Calm environments are unhurried; nobody is overtaken or interrupted in them. *)
LEMMA CalmNow ==
  ASSUME Calm, Settled
  PROVE  Unhurried /\ env.hold /\ ~env.signals /\ ~env.lateirq
BY DEF Calm, Unhurried, Settled

(* Nothing follows the last byte: the block does not shift a byte any more. *)
LEMMA NothingAfterLast ==
  ASSUME Settled, FifoInv, TransferInv, enable, bus = "byte"
  PROVE  sent # LastOf(msgs)
<1> SUFFICES ASSUME sent = LastOf(msgs) PROVE FALSE
  OBVIOUS
<1>1. Serving /\ ~cerr /\ ~abrt
  BY MovingServes
<1>2. shift.at = After(msgs, sent) /\ InMessages(shift.at)
  BY <1>1 DEF TransferInv, OrderInv, ChainInv, Faithful
<1>3. Len(msgs) \in Nat /\ Len(msgs) >= 1
  BY <1>1, ServedTransfer DEF TransferInv
<1>4. LastOf(msgs)[1] = Len(msgs) /\ LastOf(msgs)[2] = msgs[Len(msgs)].len
  BY DEF LastOf
<1>5. msgs[Len(msgs)].len \in Nat
  BY <1>3, FieldsAt DEF Settled
<1>6. After(msgs, LastOf(msgs))[1] = Len(msgs) + 1
  BY <1>3, <1>4, <1>5 DEF After
<1> QED
  BY <1>2, <1>3, <1>6 DEF InMessages

(* With the last byte sent, the transmit FIFO is empty and the handler has written everything. *)
LEMMA AllWritten ==
  ASSUME Settled, FifoInv, TransferInv, Serving, enable, ~cerr, ~abrt, sent = LastOf(msgs)
  PROVE  txfifo = << >> /\ (widx > Len(msgs) \/ (h = "push" /\ left = 0))
<1> USE DEF Settled, TypeOK
<1>1. OrderInv /\ SetupInv
  BY DEF TransferInv
<1>2. ChainInv /\ WriteInv
  BY <1>1 DEF OrderInv
<1>3. Len(msgs) \in Nat /\ Len(msgs) >= 1
  BY <1>1, ServedTransfer
<1>4. bus # "byte"
  BY NothingAfterLast
<1>5. LastOf(msgs)[1] = Len(msgs) /\ LastOf(msgs)[2] = msgs[Len(msgs)].len
  BY DEF LastOf
<1>6. msgs[Len(msgs)].len \in Nat
  BY <1>3, FieldsAt
<1>7. txfifo = << >>
  <2> SUFFICES ASSUME txfifo # << >> PROVE FALSE
    OBVIOUS
  <2>1. Len(txfifo) \in Nat /\ Len(txfifo) >= 1
    BY EmptySeq, LenProperties DEF HwTypeOK
  <2>2. txfifo[1].at = After(msgs, sent) /\ InMessages(txfifo[1].at)
    BY <1>2, <1>4, <2>1 DEF ChainInv, Front, Faithful
  <2>3. After(msgs, LastOf(msgs))[1] = Len(msgs) + 1
    BY <1>3, <1>5, <1>6 DEF After
  <2> QED
    BY <1>3, <2>2, <2>3 DEF InMessages
<1>8. Written = LastOf(msgs)
  BY <1>2, <1>4, <1>7 DEF WriteInv, LastQueued, Front
<1>9. ASSUME widx <= Len(msgs) PROVE h = "push" /\ left = 0
  <2>1. widx \in Nat /\ widx >= 1 /\ tlen \in Nat /\ left \in Nat /\ msgs[widx].len \in Nat
    BY <1>9, FieldsAt DEF BusTypeOK, HandlerTypeOK
  <2>2. Written[1] = Len(msgs) /\ Written[2] = msgs[Len(msgs)].len
    BY <1>5, <1>8
  <2>3. Unwritten = IF h = "push" THEN left ELSE IF wip THEN tlen ELSE msgs[widx].len
    BY DEF Unwritten
  <2>4. wip => 0 < tlen /\ tlen <= msgs[widx].len
    BY <1>2 DEF WriteInv
  <2>5. CASE Unwritten = msgs[widx].len
    <3>1. Written = EndOf(widx - 1)
      BY <2>5, <2>1, <1>3, <1>9 DEF Written
    <3>2. EndOf(widx - 1)[1] = widx - 1
      BY <2>1 DEF EndOf, Before
    <3> QED
      BY <1>3, <1>9, <2>1, <2>2, <3>1, <3>2
  <2>6. CASE Unwritten # msgs[widx].len
    <3>1. Written = <<widx, msgs[widx].len - Unwritten>>
      BY <2>6, <2>1, <1>3, <1>9 DEF Written
    <3>2. widx = Len(msgs) /\ msgs[widx].len - Unwritten = msgs[widx].len
      BY <2>2, <3>1
    <3> QED
      BY <1>3, <2>1, <2>3, <2>4, <2>6, <3>2
  <2> QED
    BY <2>5, <2>6
<1> QED
  BY <1>3, <1>7, <1>9 DEF BusTypeOK

(* When a caller is woken with the last byte sent and no reads outstanding, every byte it
   reads is in its buffer. *)
LEMMA DoneMeansRead ==
  ASSUME Settled, FifoInv, TransferInv, Serving, enable, ~cerr, ~abrt,
         h = "wake", outst = 0, sent = LastOf(msgs)
  PROVE  AllRead
<1> USE DEF Settled, TypeOK
<1>1. OrderInv /\ ReadInv /\ SetupInv
  BY DEF TransferInv
<1>2. ChainInv /\ WriteInv /\ FetchInv
  BY <1>1 DEF OrderInv, ReadInv
<1>3. Len(msgs) \in Nat /\ Len(msgs) >= 1
  BY <1>1, ServedTransfer
<1>4. bus # "byte"
  BY NothingAfterLast
<1>5. Len(rxfifo) = 0
  <2>1. Accounted
    BY DEF FifoInv, AccountInv
  <2>2. Len(rxfifo) \in Nat /\ BeingRead = 0 /\ Unread \in Int /\ txfifo \in Seq(Command)
    BY <1>4, LenProperties DEF BeingRead, Unread, BusTypeOK, HwTypeOK
  <2>3. Unread >= 0
    BY <2>1, <2>2, ReadsWeaken DEF Accounted
  <2> QED
    BY <2>2, <2>3 DEF Unread
<1>6. LastOf(msgs)[1] = Len(msgs) /\ LastOf(msgs)[2] = msgs[Len(msgs)].len
  BY DEF LastOf
<1>7. msgs[Len(msgs)].len \in Nat
  BY <1>3, FieldsAt
<1>10. widx > Len(msgs)
  BY AllWritten
<1> SUFFICES ASSUME NEW i \in 1..Len(msgs), msgs[i].rd, ~(i < ridx) PROVE FALSE
  BY DEF AllRead
<1>11. ridx \in Nat /\ rlen \in Nat /\ i \in Nat /\ 1 <= i /\ i <= Len(msgs) /\ i >= ridx
  BY <1>3 DEF BusTypeOK
<1>12. msgs[i].len \in Nat /\ msgs[i].len > 0
  <2>1. i \in 1..(widx - 1)
    BY <1>2, <1>3, <1>10, <1>11 DEF WriteInv, BusTypeOK
  <2> QED
    BY <1>2, <1>11, <2>1, FieldsAt DEF WriteInv
<1> DEFINE p == <<i, msgs[i].len>>
<1>13. p \in Position /\ ReadPosition(p)
  BY <1>11, <1>12 DEF Position, ReadPosition, InMessages
<1>14. ~Ahead(sent, p)
  BY <1>3, <1>6, <1>7, <1>11, <1>12 DEF Ahead
<1>15. ~Ahead(p, Cursor)
  <2>1. Cursor = <<ridx, IF rip THEN msgs[ridx].len - rlen + 1 ELSE 1>>
    BY DEF Cursor, Unfetched
  <2>2. rip => 0 < rlen
    BY <1>2 DEF FetchInv
  <2> QED
    BY <1>11, <1>12, <2>1, <2>2 DEF Ahead
<1>16. \E j \in 1..Len(rxfifo) : rxfifo[j] = p
  BY <1>2, <1>13, <1>14, <1>15 DEF FetchInv
<1> QED
  BY <1>5, <1>16

-----------------------------------------------------------------------------
(* The interrupt masks. *)

LEMMA NextMask == ASSUME Settled, MaskInv, [Next]_vars PROVE MaskInv'
<1> USE DEF MaskInv, Masks
<1>1. ASSUME NEW c \in Clients, Thread(c) PROVE MaskInv'
  <2>1. h' = h /\ stat' = stat
    BY <1>1 DEF Thread, Proceed, Call, Lock, RefuseBusy, Setup, Reprogram, Enable, Unmask, Sleep,
       Deadline, Signal, Finish, TimedOut, Leave, Unlock, localVars
  <2>2. mask' \in {mask, {}, DefaultMask}
    BY <1>1 DEF Thread, Proceed, Call, Lock, RefuseBusy, Setup, Reprogram, Enable, Unmask, Sleep,
       Deadline, Signal, Finish, TimedOut, Leave, Unlock, hwVars
  <2> QED
    BY <2>1, <2>2
<1>2. CASE Power \/ Hardware \/ HandlerEnter \/ UNCHANGED vars
  <2>1. mask' \in {mask, {}} /\ (h' = h \/ h' = "clear") /\ stat' = stat
    BY <1>2 DEF Power, PowerOff, PowerOn, StopInterrupt, Hardware, HwStep, StartByte, Acknowledged,
       NotAcknowledged, StopCondition, StopOnEmpty, Settle, HandlerEnter, Handler, vars, hwVars, localVars
  <2> QED
    BY <2>1
<1>3. CASE ReadClear
  BY <1>3 DEF ReadClear, Handler
<1>4. CASE TxSetMask
  BY <1>4 DEF TxSetMask, TxMask, Handler
<1>5. CASE ReadMask \/ RestoreMask
  BY <1>5 DEF ReadMask, RestoreMask, Handler, hwVars
<1>6. CASE \/ RxEnd \/ RxSkipWrite \/ RxBegin \/ RxByte \/ RxPause \/ RxMessageDone
           \/ TxSkip \/ TxEnter \/ TxBadMessage \/ TxBegin \/ TxPush \/ TxPause \/ TxMessageDone
           \/ TxEnd \/ Wakeup \/ HandlerReturn
  <2>1. mask' = mask /\ h' # "remask"
    BY <1>6 DEF RxEnd, RxSkipWrite, RxBegin, RxByte, RxPause, RxMessageDone, TxSkip, TxEnter,
       TxBadMessage, TxBegin, TxPush, TxPause, TxMessageDone, TxEnd, Wakeup, HandlerReturn,
       Handler, hwVars
  <2> QED
    BY <2>1
<1> QED
  BY <1>1, <1>2, <1>3, <1>4, <1>5, <1>6 DEF Next, HandlerStep

-----------------------------------------------------------------------------
(* The outcome, one kind of step at a time. *)

(* Steps of others that leave the block, bus_device and the handler alone. *)
LEMMA StopSame ==
  ASSUME StopInv, UNCHANGED <<hwVars, busVars, h, localVars>>
  PROVE  StopInv'
BY DEF StopInv, StatusRead, hwVars, busVars, localVars

(* The block. *)
LEMMA HardwareOutcome ==
  ASSUME Calm, Settled, FifoInv, TransferInv, StopInv, WokenInv, SuccessMeansDone, Hardware
  PROVE  StopInv' /\ WokenInv' /\ SuccessMeansDone'
<1>0. /\ env.hold
      /\ UNCHANGED <<enable, cerr, merr, h, pc, msgs, ridx, stat, req, ret>>
  BY CalmNow DEF Hardware, HwStep, StartByte, Acknowledged, NotAcknowledged, StopCondition, StopOnEmpty,
     Settle, busVars, threadVars, localVars
<1>1. sent = LastOf(msgs) /\ enable => sent' = sent /\ (abrt' = abrt)
  BY NothingAfterLast DEF Hardware, HwStep, StartByte, Acknowledged, NotAcknowledged, StopCondition,
     StopOnEmpty, Settle
<1>2. ~enable => sent' = sent /\ abrt' = abrt
  BY DEF Hardware, HwStep, StartByte, Acknowledged, NotAcknowledged, StopCondition, StopOnEmpty, Settle
<1>3. (enable /\ ~cerr /\ ~abrt /\ (stopdet \/ bus = "stop") => sent = LastOf(msgs))'
  <2> SUFFICES ASSUME enable, ~cerr, ~abrt', stopdet' \/ bus' = "stop" PROVE sent' = LastOf(msgs)
    BY <1>0
  <2>1. CASE Acknowledged
    <3>1. bus = "byte" /\ sent' = shift.at /\ (bus' = "stop" => shift.stop) /\ stopdet' = stopdet
      BY <2>1 DEF Acknowledged
    <3>2. ~abrt /\ Serving
      BY <3>1, MovingServes
    <3>3. Faithful(shift)
      BY <3>1, <3>2 DEF TransferInv, OrderInv, ChainInv
    <3>4. sent # LastOf(msgs)
      BY <3>1, NothingAfterLast
    <3>5. ~stopdet
      BY <3>2, <3>4 DEF StopInv
    <3> QED
      BY <3>1, <3>3, <3>5 DEF Faithful
  <2>2. CASE ~Acknowledged
    <3>1. ~abrt /\ (stopdet \/ bus = "stop") /\ sent' = sent
      BY <1>0, <2>2 DEF Hardware, HwStep, StartByte, NotAcknowledged, StopCondition, StopOnEmpty, Settle
    <3> QED
      BY <3>1 DEF StopInv
  <2> QED
    BY <2>1, <2>2
<1>4. StopInv'
  BY <1>0, <1>1, <1>2, <1>3 DEF StopInv, StatusRead
<1>5. WokenInv'
  BY <1>0, <1>1, <1>2 DEF WokenInv, AllRead
<1>6. SuccessMeansDone'
  <2>1. \A c \in Clients : pc[c] = "unlock" => ~enable
    BY RestBeforeProgram
  <2> QED
    BY <1>0, <1>2, <2>1 DEF SuccessMeansDone
<1> QED
  BY <1>4, <1>5, <1>6

(* Client threads. *)
LEMMA ThreadOutcome ==
  ASSUME Calm, Settled, FifoInv, TransferInv, StopInv, WokenInv, SuccessMeansDone,
         NEW c \in Clients, Thread(c)
  PROVE  StopInv' /\ WokenInv' /\ SuccessMeansDone'
<1> USE DEF Settled, TypeOK, ThreadTypeOK
<1>0. ~env.lateirq /\ ~env.signals
  BY CalmNow
<1>1. ASSUME Call(c) \/ Lock(c) \/ Unlock(c) \/ Sleep(c) \/ Deadline(c)
      PROVE  StopInv' /\ WokenInv' /\ SuccessMeansDone'
  <2>1. UNCHANGED <<hwVars, busVars, h, localVars>>
    BY <1>1 DEF Call, Lock, Unlock, Sleep, Deadline
  <2>2. /\ pc'[c] \notin {"woken", "unlock"}
        /\ \A d \in Clients \ {c} : pc'[d] = pc[d] /\ req'[d] = req[d] /\ ret'[d] = ret[d]
    BY <1>1 DEF Call, Lock, Unlock, Sleep, Deadline, Goto
  <2>3. WokenInv'
    BY <2>1, <2>2 DEF WokenInv, AllRead, hwVars, busVars
  <2>4. SuccessMeansDone'
    BY <2>1, <2>2 DEF SuccessMeansDone, hwVars, busVars
  <2> QED
    BY <2>1, <2>3, <2>4, StopSame
<1>2. ASSUME RefuseBusy(c) PROVE StopInv' /\ WokenInv' /\ SuccessMeansDone'
  <2>1. UNCHANGED <<hwVars, busVars, h, localVars>>
    BY <1>2 DEF RefuseBusy
  <2>2. /\ pc'[c] = "unlock" /\ ret'[c] = "Busy"
        /\ \A d \in Clients \ {c} : pc'[d] = pc[d] /\ req'[d] = req[d] /\ ret'[d] = ret[d]
    BY <1>2 DEF RefuseBusy, Goto
  <2>3. WokenInv'
    BY <2>1, <2>2 DEF WokenInv, AllRead, hwVars, busVars
  <2>4. SuccessMeansDone'
    BY <2>1, <2>2 DEF SuccessMeansDone, hwVars, busVars
  <2> QED
    BY <2>1, <2>3, <2>4, StopSame
<1>3. ASSUME Setup(c) \/ Reprogram(c) \/ Enable(c) \/ Unmask(c)
      PROVE  StopInv' /\ WokenInv' /\ SuccessMeansDone'
  <2>1. pc[c] \in {"prepare", "request", "enable", "unmask"}
    BY <1>3 DEF Setup, Reprogram, Enable, Unmask, Goto
  <2>2. /\ pc'[c] \in {"request", "enable", "unmask", "sleep"}
        /\ \A d \in Clients \ {c} : pc'[d] = pc[d] /\ pc[d] \in Unlocked
    BY <1>3, <2>1, OnlyOne DEF Setup, Reprogram, Enable, Unmask, Goto, Unlocked
  <2>3. WokenInv' /\ SuccessMeansDone'
    BY <2>2 DEF WokenInv, SuccessMeansDone, Unlocked
  <2>4. CASE Setup(c) \/ Reprogram(c)
    <3>1. h = "idle"
      BY <2>4, RestBeforeProgram DEF Setup, Reprogram, Goto
    <3>2. h' = "idle" /\ ~enable'
      BY <2>4, <3>1, RestBeforeProgram DEF Setup, Reprogram, Goto, Disabled
    <3> QED
      BY <2>3, <3>2 DEF StopInv, StatusRead
  <2>5. CASE Enable(c) \/ Unmask(c)
    <3>1. Fresh /\ ~stopdet /\ ~abrt
      BY <2>5 DEF TransferInv, SetupInv, Enable, Unmask, Goto
    <3>2. ~stopdet' /\ ~abrt' /\ UNCHANGED <<h, stat, cerr, sent, msgs, bus>>
      BY <2>5, <3>1 DEF Enable, Unmask, busVars, localVars
    <3> QED
      BY <2>3, <3>1, <3>2 DEF StopInv, StatusRead, Fresh
  <2> QED
    BY <1>3, <2>4, <2>5
<1>4. ASSUME Finish(c) \/ TimedOut(c) PROVE StopInv' /\ WokenInv' /\ SuccessMeansDone'
  <2>1. pc[c] \in {"woken", "timedout"}
    BY <1>4 DEF Finish, TimedOut, Leave, Goto
  <2>2. \A d \in Clients \ {c} : pc'[d] = pc[d] /\ pc[d] \in Unlocked
    BY <1>4, <2>1, OnlyOne DEF Finish, TimedOut, Leave, Goto, Unlocked
  <2>3. pc'[c] = "unlock" /\ h' = "idle" /\ ~enable' /\ UNCHANGED <<sent, req, busVars>>
    BY <1>0, <1>4 DEF Finish, TimedOut, Leave, Goto, HandlerSettled, Disabled
  <2>4. ret'[c] = "Success" => pc[c] = "woken" /\ ~merr /\ ~cerr
    BY <1>4 DEF Finish, TimedOut, Leave, Goto, Outcome
  <2>5. msgs = req[c]
    BY <2>1 DEF TransferInv, SetupInv, InTransfer
  <2>6. ret'[c] = "Success" => sent' = LastOf(req'[c]) /\ \A i \in 1..Len(req'[c]) : req'[c][i].rd => i < ridx'
    BY <2>3, <2>4, <2>5 DEF WokenInv, AllRead, busVars
  <2> QED
    BY <2>2, <2>3, <2>6 DEF StopInv, StatusRead, WokenInv, SuccessMeansDone, Unlocked
<1> QED
  BY <1>0, <1>1, <1>2, <1>3, <1>4 DEF Thread, Proceed, Signal

(* The power manager. *)
LEMMA PowerOutcome ==
  ASSUME Settled, StopInv, WokenInv, SuccessMeansDone, Power
  PROVE  StopInv' /\ WokenInv' /\ SuccessMeansDone'
<1> USE DEF Settled, TypeOK, ThreadTypeOK
<1>1. CASE StopInterrupt
  BY <1>1, StopSame DEF StopInterrupt, WokenInv, AllRead, SuccessMeansDone, hwVars, busVars
<1>2. CASE PowerOff \/ PowerOn
  <2>1. lock = Free /\ UNCHANGED <<pc, h>> /\ ~enable'
    BY <1>2 DEF PowerOff, PowerOn, threadVars, Disabled
  <2>2. \A c \in Clients : pc[c] \in Unlocked
    BY <2>1, ActorAssumption DEF Locking, Owned
  <2>3. h = "idle"
    BY <2>2, NothingProgrammed DEF Unlocked, Programmed, InTransfer
  <2> QED
    BY <2>1, <2>2, <2>3 DEF StopInv, StatusRead, WokenInv, SuccessMeansDone, Unlocked
<1> QED
  BY <1>1, <1>2 DEF Power

(* The handler, once it has its status. *)
LEMMA HandlerStop ==
  ASSUME Settled, MaskInv, StopInv, HandlerEnter \/ HandlerStep
  PROVE  StopInv'
<1>1. CASE ReadClear
  <2>1. /\ stat' = (IF enable THEN Raw \cap mask ELSE {})
        /\ "TX_ABRT" \in stat' => cerr'
        /\ "TX_ABRT" \notin stat' => cerr' = cerr /\ (abrt' <=> abrt)
        /\ stopdet' => stopdet
        /\ UNCHANGED <<enable, sent, msgs, bus>>
    BY <1>1 DEF ReadClear
  <2>2. ASSUME "STOP_DET" \in stat', ~cerr' PROVE sent = LastOf(msgs) /\ ~abrt
    <3>1. /\ enable /\ ~cerr /\ "STOP_DET" \in mask /\ "STOP_DET" \in Raw /\ "TX_ABRT" \notin Raw \cap mask
          /\ \A m \in Masks : "STOP_DET" \in m => "TX_ABRT" \in m
      BY <2>1, <2>2 DEF Masks, DefaultMask, Interrupts
    <3>2. stopdet /\ ~abrt
      BY <3>1 DEF MaskInv, Raw, Interrupts
    <3> QED
      BY <3>1, <3>2 DEF StopInv
  <2> QED
    BY <2>1, <2>2 DEF StopInv
<1>2. CASE ~ReadClear
  <2>1. UNCHANGED <<enable, sent, msgs, bus, cerr, abrt, stopdet>>
    BY <1>2 DEF HandlerEnter, HandlerStep, RxEnd, RxSkipWrite, RxBegin, RxByte, RxPause,
       RxMessageDone, TxSkip, TxEnter, TxBadMessage, TxBegin, TxPush, TxPause, TxMessageDone, TxEnd,
       TxSetMask, Wakeup, HandlerReturn, ReadMask, RestoreMask, hwVars, busVars
  <2>2. StatusRead' => StatusRead /\ stat' = stat
    BY <1>2 DEF HandlerEnter, HandlerStep, RxEnd, RxSkipWrite, RxBegin, RxByte, RxPause,
       RxMessageDone, TxSkip, TxEnter, TxBadMessage, TxBegin, TxPush, TxPause, TxMessageDone, TxEnd,
       TxSetMask, Wakeup, HandlerReturn, ReadMask, RestoreMask, Handler, localVars, StatusRead
  <2> QED
    BY <2>1, <2>2 DEF StopInv
<1> QED
  BY <1>1, <1>2

LEMMA HandlerOutcome ==
  ASSUME Settled, FifoInv, TransferInv, StopInv, WokenInv, HandlerEnter \/ HandlerStep
  PROVE  WokenInv' /\ SuccessMeansDone'
<1> USE DEF Settled, TypeOK, ThreadTypeOK
<1>1. h # "idle" \/ enable
  BY DEF HandlerEnter, HandlerStep, ReadClear, RxEnd, RxSkipWrite, RxBegin, RxByte, RxPause,
     RxMessageDone, TxSkip, TxEnter, TxBadMessage, TxBegin, TxPush, TxPause, TxMessageDone, TxEnd,
     TxSetMask, Wakeup, HandlerReturn, ReadMask, RestoreMask, Handler
<1>2. \A c \in Clients : pc[c] # "unlock"
  BY <1>1, RestBeforeProgram
<1>3. \A c \in Clients : pc'[c] = pc[c] \/ (pc[c] = "sleeping" /\ pc'[c] = "woken" /\ Wakeup)
  BY DEF HandlerEnter, HandlerStep, ReadClear, RxEnd, RxSkipWrite, RxBegin, RxByte, RxPause,
     RxMessageDone, TxSkip, TxEnter, TxBadMessage, TxBegin, TxPush, TxPause, TxMessageDone, TxEnd,
     TxSetMask, Wakeup, HandlerReturn, ReadMask, RestoreMask, threadVars
<1>4. SuccessMeansDone'
  BY <1>2, <1>3 DEF SuccessMeansDone
<1>5. /\ UNCHANGED <<sent, msgs>> /\ (cerr => cerr') /\ (merr => merr')
      /\ ridx' \in {ridx, ridx + 1}
  BY DEF HandlerEnter, HandlerStep, ReadClear, RxEnd, RxSkipWrite, RxBegin, RxByte, RxPause,
     RxMessageDone, TxSkip, TxEnter, TxBadMessage, TxBegin, TxPush, TxPause, TxMessageDone, TxEnd,
     TxSetMask, Wakeup, HandlerReturn, ReadMask, RestoreMask, hwVars, busVars
<1>6. AllRead => AllRead'
  <2>1. ridx \in Nat
    BY ReceivedTyped
  <2>2. \A i \in 1..Len(msgs) : i < ridx => i < ridx'
    BY <1>5, <2>1
  <2> QED
    BY <1>5, <2>2 DEF AllRead
<1>7. ASSUME Wakeup, NEW c \in Clients, pc[c] = "sleeping"
      PROVE  merr \/ cerr \/ (sent = LastOf(msgs) /\ AllRead)
  <2> SUFFICES ASSUME ~merr, ~cerr PROVE sent = LastOf(msgs) /\ AllRead
    OBVIOUS
  <2>1. h = "wake" /\ outst = 0 /\ ("TX_ABRT" \in stat \/ "STOP_DET" \in stat)
    BY <1>7 DEF Wakeup, Handler, TransferOver
  <2>2. sent = LastOf(msgs) /\ ~abrt
    BY <2>1 DEF StopInv, StatusRead
  <2>3. Serving /\ enable
    BY <1>7 DEF Serving, InTransfer, Programmed, TransferInv, SetupInv
  <2> QED
    BY <2>1, <2>2, <2>3, DoneMeansRead
<1>8. WokenInv'
  BY <1>3, <1>5, <1>6, <1>7 DEF WokenInv
<1> QED
  BY <1>4, <1>8

LEMMA NextOutcome ==
  ASSUME Calm, Settled, FifoInv, TransferInv, OutcomeInv, [Next]_vars
  PROVE  OutcomeInv'
<1> USE DEF OutcomeInv
<1>1. MaskInv'
  BY NextMask
<1>2. CASE UNCHANGED vars
  BY <1>1, <1>2, StopSame DEF vars, WokenInv, AllRead, SuccessMeansDone, hwVars, busVars, threadVars
<1>3. CASE Next
  BY <1>1, <1>3, HardwareOutcome, ThreadOutcome, PowerOutcome, HandlerStop, HandlerOutcome DEF Next
<1> QED
  BY <1>2, <1>3

(* Everything that holds of a transfer in calm environments. *)
ServiceInv == Settled /\ FifoInv /\ TransferInv /\ OutcomeInv

LEMMA InitService == Init => ServiceInv
<1>1. Init => OutcomeInv
  BY DEF Init, HwInit, OutcomeInv, MaskInv, Masks, StopInv, StatusRead, WokenInv, SuccessMeansDone
<1> QED
  BY <1>1, InitTransfer DEF ServiceInv

LEMMA NextService == ASSUME Calm, ServiceInv, [Next]_vars PROVE ServiceInv'
BY CalmNow, NextSettled, NextFifo, NextTransfer, NextOutcome DEF ServiceInv

LEMMA AlwaysService == ASSUME Calm PROVE Spec => []ServiceInv
BY InitService, NextService, PTL DEF Spec

(* A call that returns kIOReturnSuccess has moved every byte of its transfer and stored
   every byte it read, for FIFOs of any depth, any number of callers and any transfers:
   the stop condition that wakes the caller comes after the last byte only, and
   receive_outstanding is 0 only when readFromBus has taken every byte. *)
THEOREM SuccessMeansDoneCalm == Calm => (Spec => []SuccessMeansDone)
<1> SUFFICES ASSUME Calm PROVE Spec => []SuccessMeansDone
  OBVIOUS
<1>1. ServiceInv => SuccessMeansDone
  BY DEF ServiceInv, OutcomeInv
<1> QED
  BY AlwaysService, <1>1, PTL

-----------------------------------------------------------------------------
(* The driver implements I2CService. *)

(* What callers see of the program counters. *)
Calls == [c \in Clients |-> CallState(c)]

(* The service counts the bytes as the driver does. *)
LEMMA SamePositions ==
  /\ Service!Before = Before
  /\ \A ms, p : Service!After(ms, p) = After(ms, p)
  /\ \A ms : Service!LastOf(ms) = LastOf(ms)
BY DEF Service!Before, Before, Service!After, After, Service!LastOf, LastOf

(* A step that changes nothing a caller sees. *)
LEMMA StutterStep ==
  ASSUME UNCHANGED <<req, ret, sent>>, \A c \in Clients : CallState(c)' = CallState(c)
  PROVE  UNCHANGED Service!vars
<1>1. Calls' = Calls
  BY DEF Calls
<1> QED
  BY <1>1 DEF Service!vars, Calls

(* A step of one client changes only what this client sees. *)
LEMMA CallsMove ==
  ASSUME NEW c \in Clients, \A d \in Clients \ {c} : pc'[d] = pc[d], NEW x, CallState(c)' = x
  PROVE  Calls' = [Calls EXCEPT ![c] = x]
<1>1. \A d \in Clients \ {c} : CallState(d)' = CallState(d)
  BY DEF CallState
<1> QED
  BY <1>1 DEF Calls

LEMMA InitImplements == Init => Service!Init
<1> SUFFICES ASSUME Init PROVE Service!Init
  OBVIOUS
<1>1. \A c \in Clients : CallState(c) = "idle"
  BY DEF Init, CallState, InTransfer
<1> QED
  BY <1>1, SamePositions DEF Init, HwInit, Service!Init

(* With the lock held by a client that is not yet served, nobody is. *)
LEMMA NobodyElse ==
  ASSUME Settled, NEW c \in Clients, pc[c] = "prepare"
  PROVE  Calls[c] = "waiting" /\ \A d \in Clients : Calls[d] \notin {"served", "done"}
<1>1. CallState(c) = "waiting"
  BY DEF CallState, InTransfer
<1>2. ASSUME NEW d \in Clients, d # c PROVE CallState(d) \in {"idle", "waiting"}
  <2>1. pc[d] \in Unlocked
    BY <1>2, OnlyOne DEF Unlocked
  <2> QED
    BY <2>1 DEF CallState, Unlocked, InTransfer
<1> QED
  BY <1>1, <1>2 DEF Calls

LEMMA ThreadImplements ==
  ASSUME Calm, ServiceInv, ServiceInv', NEW c \in Clients, Thread(c)
  PROVE  Service!Next \/ UNCHANGED Service!vars
<1> USE DEF ServiceInv, Settled, TypeOK, ThreadTypeOK
<1>0. \A d \in Clients \ {c} : pc'[d] = pc[d]
  BY DEF Thread, Proceed, Call, Lock, RefuseBusy, Setup, Reprogram, Enable, Unmask, Sleep,
     Deadline, Signal, Finish, TimedOut, Leave, Unlock, Goto
<1>1. CASE Call(c)
  <2>1. pc[c] = "idle" /\ pc'[c] = "locking" /\ UNCHANGED <<ret, sent>>
    BY <1>1 DEF Call, Goto, hwVars
  <2>2. Calls[c] = "idle" /\ CallState(c)' = "waiting"
    BY <2>1 DEF Calls, CallState, InTransfer
  <2>3. Calls' = [Calls EXCEPT ![c] = "waiting"]
    BY <1>0, <2>2, CallsMove
  <2>4. \E r \in Requests : req' = [req EXCEPT ![c] = r]
    BY <1>1 DEF Call
  <2>5. Service!Ask(c)
    BY <2>1, <2>2, <2>3, <2>4 DEF Service!Ask, Calls
  <2> QED
    BY <2>5 DEF Service!Next
<1>2. CASE RefuseBusy(c)
  <2>1. pc[c] = "prepare" /\ pc'[c] = "unlock" /\ ret' = [ret EXCEPT ![c] = "Busy"] /\ UNCHANGED <<req, sent>>
    BY <1>2 DEF RefuseBusy, Goto, hwVars
  <2>2. CallState(c)' = "done"
    BY <2>1 DEF CallState, InTransfer
  <2>3. Calls' = [Calls EXCEPT ![c] = "done"]
    BY <1>0, <2>2, CallsMove
  <2>4. Service!Refuse(c)
    BY <2>1, <2>3, NobodyElse DEF Service!Refuse, Service!NobodyServed, Calls
  <2> QED
    BY <2>4 DEF Service!Next
<1>3. CASE Setup(c)
  <2>1. pc[c] = "prepare" /\ pc'[c] = "request" /\ sent' = Before /\ UNCHANGED <<req, ret>>
    BY <1>3 DEF Setup, Goto
  <2>2. CallState(c)' = "served"
    BY <2>1 DEF CallState, InTransfer
  <2>3. Calls' = [Calls EXCEPT ![c] = "served"]
    BY <1>0, <2>2, CallsMove
  <2>4. Service!Serve(c)
    BY <2>1, <2>3, NobodyElse, SamePositions DEF Service!Serve, Service!NobodyServed, Calls
  <2> QED
    BY <2>4 DEF Service!Next
<1>4. CASE Finish(c) \/ TimedOut(c)
  <2>1. /\ pc[c] \in {"woken", "timedout"} /\ pc'[c] = "unlock" /\ UNCHANGED <<req, sent>>
        /\ \E r \in {"Success", "Timeout", "Error"} : ret' = [ret EXCEPT ![c] = r]
    BY <1>4 DEF Finish, TimedOut, Leave, Goto, Outcome
  <2>2. Calls[c] = "served" /\ CallState(c)' = "done"
    BY <2>1 DEF Calls, CallState, InTransfer
  <2>3. Calls' = [Calls EXCEPT ![c] = "done"]
    BY <1>0, <2>2, CallsMove
  <2>4. PICK r \in {"Success", "Timeout", "Error"} : ret' = [ret EXCEPT ![c] = r]
    BY <2>1
  <2>5. SuccessMeansDone'
    BY DEF OutcomeInv
  <2>6. r = "Success" => sent = LastOf(req[c])
    BY <2>1, <2>4, <2>5 DEF SuccessMeansDone
  <2>7. Service!End(c)
    BY <2>1, <2>2, <2>3, <2>4, <2>6, SamePositions DEF Service!End, Calls
  <2> QED
    BY <2>7 DEF Service!Next
<1>5. CASE Unlock(c)
  <2>1. /\ pc[c] = "unlock" /\ pc'[c] = "idle" /\ UNCHANGED sent
        /\ req' = [req EXCEPT ![c] = << >>] /\ ret' = [ret EXCEPT ![c] = "None"]
    BY <1>5 DEF Unlock, Goto, hwVars
  <2>2. Calls[c] = "done" /\ CallState(c)' = "idle"
    BY <2>1 DEF Calls, CallState, InTransfer
  <2>3. Calls' = [Calls EXCEPT ![c] = "idle"]
    BY <1>0, <2>2, CallsMove
  <2>4. Service!Return(c)
    BY <2>1, <2>2, <2>3 DEF Service!Return, Calls
  <2> QED
    BY <2>4 DEF Service!Next
<1>6. CASE \/ Lock(c) \/ Reprogram(c) \/ Enable(c) \/ Unmask(c) \/ Sleep(c) \/ Deadline(c) \/ Signal(c)
  <2>1. /\ UNCHANGED <<req, ret, sent>>
        /\ \/ pc[c] = "locking" /\ pc'[c] = "prepare"
           \/ pc[c] \in InTransfer /\ pc'[c] \in InTransfer
    BY <1>6 DEF Lock, Reprogram, Enable, Unmask, Sleep, Deadline, Signal, Goto, hwVars, InTransfer
  <2>2. CallState(c)' = CallState(c)
    BY <2>1 DEF CallState, InTransfer
  <2>3. \A d \in Clients : CallState(d)' = CallState(d)
    BY <1>0, <2>2 DEF CallState
  <2> QED
    BY <2>1, <2>3, StutterStep
<1> QED
  BY <1>1, <1>2, <1>3, <1>4, <1>5, <1>6 DEF Thread, Proceed

LEMMA OthersImplement ==
  ASSUME Calm, ServiceInv, Hardware \/ Power \/ HandlerEnter \/ HandlerStep
  PROVE  Service!Next \/ UNCHANGED Service!vars
<1> USE DEF ServiceInv
<1>1. CASE Hardware
  <2>1. UNCHANGED <<pc, req, ret>>
    BY <1>1 DEF Hardware, threadVars
  <2>2. Calls' = Calls
    BY <2>1 DEF Calls, CallState, InTransfer
  <2>3. CASE Acknowledged
    <3>1. bus = "byte" /\ enable /\ sent' = shift.at
      BY <2>3 DEF Acknowledged
    <3>2. PICK c \in Clients : pc[c] \in Programmed
      BY <3>1, MovingServes
    <3>3. Serving /\ ~cerr /\ ~abrt /\ msgs = req[c]
      BY <3>1, <3>2, MovingServes DEF TransferInv, SetupInv, Programmed
    <3>4. shift.at = After(req[c], sent)
      BY <3>1, <3>3 DEF TransferInv, OrderInv, ChainInv
    <3>5. sent # LastOf(req[c])
      BY <3>1, <3>3, NothingAfterLast
    <3>6. Calls[c] = "served"
      BY <3>2 DEF Calls, CallState, Programmed, InTransfer
    <3>7. Service!Move(c)
      BY <2>1, <2>2, <3>1, <3>4, <3>5, <3>6, SamePositions DEF Service!Move, Calls
    <3> QED
      BY <3>7 DEF Service!Next
  <2>4. CASE ~Acknowledged
    <3>1. sent' = sent
      BY <1>1, <2>4 DEF Hardware, HwStep, StartByte, NotAcknowledged, StopCondition, StopOnEmpty, Settle
    <3> QED
      BY <2>1, <3>1, StutterStep DEF CallState
  <2> QED
    BY <2>3, <2>4
<1>2. CASE Power
  BY <1>2, StutterStep DEF Power, PowerOff, PowerOn, StopInterrupt, threadVars, hwVars, CallState
<1>3. CASE HandlerEnter \/ HandlerStep
  <2>1. /\ UNCHANGED <<req, ret, sent>>
        /\ \A c \in Clients : pc'[c] = pc[c] \/ (pc[c] = "sleeping" /\ pc'[c] = "woken")
    BY <1>3 DEF HandlerEnter, HandlerStep, ReadClear, RxEnd, RxSkipWrite, RxBegin, RxByte, RxPause,
       RxMessageDone, TxSkip, TxEnter, TxBadMessage, TxBegin, TxPush, TxPause, TxMessageDone, TxEnd,
       TxSetMask, Wakeup, HandlerReturn, ReadMask, RestoreMask, hwVars, threadVars
  <2>2. \A c \in Clients : CallState(c)' = CallState(c)
    BY <2>1 DEF CallState, InTransfer
  <2> QED
    BY <2>1, <2>2, StutterStep
<1> QED
  BY <1>1, <1>2, <1>3

(* The driver implements the abstract service, for any number of callers, any transfers and
   FIFOs of any depth: calls are served one at a time, each acknowledged byte is the next
   one of the call being served, and a call that returns Success has moved its last byte;
   what threads, handler, power manager and block do besides is invisible to callers. *)
THEOREM DriverImplementsService == Calm => (Spec => ImplementsService)
<1> SUFFICES ASSUME Calm PROVE Spec => ImplementsService
  OBVIOUS
<1>1. ServiceInv /\ ServiceInv' /\ [Next]_vars => [Service!Next]_Service!vars
  <2> SUFFICES ASSUME ServiceInv, ServiceInv', [Next]_vars
               PROVE  Service!Next \/ UNCHANGED Service!vars
    OBVIOUS
  <2>1. CASE UNCHANGED vars
    BY <2>1, StutterStep DEF vars, hwVars, threadVars, CallState
  <2>2. CASE Next
    BY <2>2, ThreadImplements, OthersImplement DEF Next
  <2> QED
    BY <2>1, <2>2
<1> QED
  BY InitImplements, AlwaysService, <1>1, PTL DEF Spec, ImplementsService, Service!Spec

-----------------------------------------------------------------------------
(* A sleeping caller is never forgotten: in which environments, and for which transfers. *)

(* Only a controller with a line of its own gets the AMD workaround: with both, a handler
   that was called for another device writes an old mask back over the one of a new transfer. *)
OwnLine == \A e \in Envs : ~(e.shared /\ e.workaround)

(* A transfer is one that a device nub asks for: all its messages go to one slave, and an empty
   message, which ends the transfer with an error, does not follow a read. *)
Orderly ==
  \A r \in Requests : \A i \in 1..Len(r) :
    /\ r[i].addr = r[1].addr
    /\ r[i].len = 0 => \A j \in 1..Len(r) : j < i => ~r[j].rd

-----------------------------------------------------------------------------
(* Counting the reads in the transmit FIFO exactly. *)

(* Of the commands in q exactly n are reads: count[i] of the first i are. *)
ReadsExactly(q, n) ==
  \E count \in [0..Len(q) -> Int] :
    /\ count[0] = 0
    /\ \A i \in 1..Len(q) : count[i] = count[i - 1] + IsRead(q[i])
    /\ count[Len(q)] = n

(* An empty transmit FIFO holds no reads, and only no reads. *)
LEMMA ExactEmpty ==
  /\ ReadsExactly(<< >>, 0)
  /\ \A n : ReadsExactly(<< >>, n) => n = 0
<1>1. Len(<< >>) = 0
  BY EmptySeq
<1>2. ReadsExactly(<< >>, 0)
  <2> DEFINE count == [i \in 0..0 |-> 0]
  <2>1. count \in [0..0 -> Int] /\ count[0] = 0
    OBVIOUS
  <2> HIDE DEF count
  <2> QED
    BY <1>1, <2>1 DEF ReadsExactly
<1>3. ASSUME NEW n, ReadsExactly(<< >>, n) PROVE n = 0
  <2>1. PICK count \in [0..Len(<< >>) -> Int] : count[0] = 0 /\ count[Len(<< >>)] = n
    BY <1>3 DEF ReadsExactly
  <2> QED
    BY <1>1, <2>1
<1> QED
  BY <1>2, <1>3

(* A command that is pushed counts as what it is. *)
LEMMA ExactAppend ==
  ASSUME NEW q \in Seq(Command), NEW command \in Command, NEW n \in Int, ReadsExactly(q, n)
  PROVE  ReadsExactly(Append(q, command), n + IsRead(command))
<1> DEFINE r == Append(q, command)
           k == IsRead(command)
<1>1. Len(q) \in Nat /\ k \in Int
  BY LenProperties DEF IsRead
<1>2. /\ Len(r) = Len(q) + 1
      /\ \A i \in 1..Len(q) : r[i] = q[i]
      /\ r[Len(q) + 1] = command
  BY AppendProperties
<1>3. PICK count \in [0..Len(q) -> Int] :
        /\ count[0] = 0
        /\ \A i \in 1..Len(q) : count[i] = count[i - 1] + IsRead(q[i])
        /\ count[Len(q)] = n
  BY DEF ReadsExactly
<1> DEFINE new == [i \in 0..(Len(q) + 1) |-> IF i <= Len(q) THEN count[i] ELSE n + k]
<1> HIDE DEF k
<1>4. new \in [0..(Len(q) + 1) -> Int]
  BY <1>1
<1>5. new[0] = 0 /\ new[Len(q) + 1] = n + k /\ \A i \in 0..Len(q) : new[i] = count[i]
  BY <1>1, <1>3
<1> HIDE DEF new, r
<1>6. \A i \in 1..(Len(q) + 1) : new[i] = new[i - 1] + IsRead(r[i])
  <2> TAKE i \in 1..(Len(q) + 1)
  <2>1. CASE i <= Len(q)
    <3>1. i \in 1..Len(q) /\ i \in 0..Len(q) /\ i - 1 \in 0..Len(q)
      BY <1>1, <2>1
    <3> QED
      BY <1>2, <1>3, <1>5, <3>1
  <2>2. CASE i = Len(q) + 1
    BY <1>1, <1>2, <1>3, <1>5, <2>2 DEF k
  <2> QED
    BY <1>1, <2>1, <2>2
<1> QED
  BY <1>2, <1>4, <1>5, <1>6 DEF ReadsExactly, r, k

(* So does a command that is shifted out. *)
LEMMA ExactTail ==
  ASSUME NEW q \in Seq(Command), q # << >>, NEW n \in Int, ReadsExactly(q, n)
  PROVE  ReadsExactly(Tail(q), n - IsRead(Head(q)))
<1> DEFINE r == Tail(q)
           k == IsRead(Head(q))
           L == Len(q) - 1
<1>1. Len(q) \in Nat /\ L \in Nat /\ Len(r) = L
  BY HeadTailProperties, LenProperties, EmptySeq
<1>2. k \in Int /\ k = IsRead(q[1])
  BY HeadTailProperties DEF IsRead
<1>3. \A i \in 1..L : r[i] = q[i + 1]
  BY HeadTailProperties, <1>1
<1>4. PICK count \in [0..Len(q) -> Int] :
        /\ count[0] = 0
        /\ \A i \in 1..Len(q) : count[i] = count[i - 1] + IsRead(q[i])
        /\ count[Len(q)] = n
  BY DEF ReadsExactly
<1>5. count[1] = k
  BY <1>1, <1>2, <1>4
<1> DEFINE new == [i \in 0..L |-> count[i + 1] - k]
<1> HIDE DEF k, r
<1>6. \A i \in 0..L : i + 1 \in 0..Len(q) /\ count[i + 1] \in Int /\ new[i] = count[i + 1] - k
  BY <1>1, <1>4
<1>7. new \in [0..L -> Int]
  BY <1>2, <1>6
<1> HIDE DEF new
<1>8. new[0] = 0 /\ new[L] = n - k
  BY <1>1, <1>2, <1>4, <1>5, <1>6
<1>9. \A i \in 1..L : new[i] = new[i - 1] + IsRead(r[i])
  <2> TAKE i \in 1..L
  <2>1. i \in 0..L /\ i - 1 \in 0..L /\ i + 1 \in 1..Len(q)
    BY <1>1
  <2>2. count[i + 1] = count[i] + IsRead(q[i + 1])
    BY <1>1, <1>4, <2>1
  <2>3. new[i] = count[i + 1] - k /\ new[i - 1] = count[i] - k /\ count[i] \in Int
    BY <1>1, <1>6, <2>1
  <2> QED
    BY <1>2, <1>3, <2>2, <2>3 DEF IsRead
<1> QED
  BY <1>1, <1>7, <1>8, <1>9 DEF ReadsExactly, r, k

-----------------------------------------------------------------------------
(* What a sleeping caller waits for. *)

(* receive_outstanding is exactly what has been asked for and not been read. *)
ExactInv == enable /\ ~cerr /\ ~abrt => ReadsExactly(txfifo, Unread)

(* What a client transfers it may ask for. *)
AskedInv == \A c \in Clients : pc[c] # "idle" => req[c] \in Requests

(* The address transferMessageToBus compares with is the transfer's, and only messages that
   pass its tests are written. *)
AddressInv ==
  /\ h \in {"txmsg", "push"} /\ widx <= Len(msgs) => addr = msgs[1].addr
  /\ h = "push" => msgs[widx].len > 0

(* Outstanding reads are those of a message that transferMessageToBus has come to. *)
BegunInv ==
  Serving /\ outst > 0 => \E i \in 1..Len(msgs) : i <= widx /\ msgs[i].rd /\ msgs[i].len > 0

(* An error ends the transfer in the handler run that finds it. *)
ErrorInv ==
  Serving /\ ~woke =>
    /\ merr => h \in {"txmask", "wake"} /\ outst = 0
    /\ cerr => h = "wake" /\ "TX_ABRT" \in stat

(* The mask hides at most TX_EMPTY, and that only when everything has been written. *)
Useful(m) == m = DefaultMask \/ (m = DefaultMask \ {"TX_EMPTY"} /\ widx > Len(msgs))

UsefulInv ==
  /\ h = "remask" => env.workaround
  /\ \A c \in Clients :
       /\ pc[c] = "unmask" /\ env.workaround => h = "idle"
       /\ pc[c] \in {"sleep", "sleeping"} /\ ~woke /\ ~merr /\ ~cerr =>
            Useful(mask) /\ (h = "remask" => Useful(stat))

PoweredInv == awake => irq /\ pm = "idle"

(* A handler run that has seen the stop condition reads everything there is, so that it wakes
   the caller. *)
DrainInv ==
  StatusRead /\ "STOP_DET" \in stat /\ ~cerr =>
    /\ h = "rx" => outst = 0 \/ "RX_FULL" \in stat
    /\ h = "rxbyte" => "RX_FULL" \in stat /\ valid = Len(rxfifo)
    /\ h \notin {"rx", "rxbyte"} => outst = 0

(* After the last byte the stop condition comes, has come, or is being handled. *)
LastInv ==
  Serving /\ enable /\ ~woke /\ ~cerr /\ ~abrt /\ sent = LastOf(msgs) =>
    bus = "stop" \/ stopdet \/ (StatusRead /\ "STOP_DET" \in stat)

WaitInv ==
  /\ ExactInv /\ AskedInv /\ AddressInv /\ BegunInv /\ ErrorInv
  /\ UsefulInv /\ PoweredInv /\ DrainInv /\ LastInv

-----------------------------------------------------------------------------

(* The transfer in hand is one that a client may ask for. *)
LEMMA ServedAsked ==
  ASSUME Settled, TransferInv, AskedInv, Serving
  PROVE  msgs \in Requests
BY DEF Serving, TransferInv, SetupInv, AskedInv, InTransfer

(* The handler works for a transfer, on an enabled block. *)
LEMMA RunningServes ==
  ASSUME Settled, TransferInv, h # "idle"
  PROVE  Serving /\ enable
BY DEF Settled, HandlerHasOwner, Serving, Programmed, TransferInv, SetupInv

(* With the last byte sent all reads have been received. *)
LEMMA AllReceived ==
  ASSUME Settled, FifoInv, TransferInv, ExactInv, Serving, enable, ~cerr, ~abrt,
         sent = LastOf(msgs)
  PROVE  outst = Len(rxfifo)
<1> USE DEF Settled, TypeOK
<1>1. txfifo = << >> /\ bus # "byte"
  BY AllWritten, NothingAfterLast
<1>2. Unread = 0
  BY <1>1, ExactEmpty DEF ExactInv
<1>3. BeingRead = 0 /\ Len(rxfifo) \in Nat /\ outst \in Int
  BY <1>1, LenProperties DEF BeingRead, HwTypeOK, BusTypeOK
<1> QED
  BY <1>2, <1>3 DEF Unread

(* What steps of the handler leave alone. *)
LEMMA HandlerFrame ==
  ASSUME HandlerEnter \/ HandlerStep
  PROVE  UNCHANGED <<env, req, msgs, sent, bus, shift, enable, tar, pm, awake, irq, lock>>
BY DEF HandlerEnter, HandlerStep, ReadClear, RxEnd, RxSkipWrite, RxBegin, RxByte, RxPause,
   RxMessageDone, TxSkip, TxEnter, TxBadMessage, TxBegin, TxPush, TxPause, TxMessageDone, TxEnd,
   TxSetMask, Wakeup, HandlerReturn, ReadMask, RestoreMask, hwVars, busVars, threadVars, powerVars

(* What steps of the block leave alone. *)
LEMMA HardwareFrame ==
  ASSUME Hardware
  PROVE  /\ UNCHANGED <<env, enable, mask, tar, busVars, threadVars, powerVars, h, localVars, woke>>
         /\ Serving' <=> Serving
<1>1. UNCHANGED <<env, enable, mask, tar, busVars, threadVars, powerVars, h, localVars, woke>>
  BY DEF Hardware, HwStep, StartByte, Acknowledged, NotAcknowledged, StopCondition, StopOnEmpty, Settle
<1> QED
  BY <1>1 DEF Serving, threadVars

(* What a thread does while the handler runs, or while another client is served. *)
LEMMA ThreadFrame ==
  ASSUME Calm, Settled, NEW c \in Clients, Thread(c)
  PROVE  \/ /\ UNCHANGED <<env, hwVars, busVars, powerVars, h, localVars, woke>>
            /\ \A d \in Clients \ {c} : pc'[d] = pc[d] /\ req'[d] = req[d]
            /\ Serving' => Serving
            /\ \/ pc[c] \in {"idle", "locking", "prepare", "unlock"}
                  /\ pc'[c] \in {"idle", "locking", "prepare", "unlock"}
               \/ pc[c] \in {"sleep", "sleeping"} /\ pc'[c] \in {"sleeping", "timedout"}
         \/ Setup(c) \/ Reprogram(c) \/ Enable(c) \/ Unmask(c) \/ Finish(c) \/ TimedOut(c)
<1> USE DEF Settled, TypeOK, ThreadTypeOK
<1>0. ~env.signals
  BY CalmNow
<1>1. ASSUME Call(c) \/ Lock(c) \/ Unlock(c) \/ RefuseBusy(c) \/ Sleep(c) \/ Deadline(c)
      PROVE  /\ UNCHANGED <<env, hwVars, busVars, powerVars, h, localVars, woke>>
             /\ \A d \in Clients \ {c} : pc'[d] = pc[d] /\ req'[d] = req[d]
             /\ Serving' => Serving
             /\ \/ pc[c] \in {"idle", "locking", "prepare", "unlock"}
                   /\ pc'[c] \in {"idle", "locking", "prepare", "unlock"}
                \/ pc[c] \in {"sleep", "sleeping"} /\ pc'[c] \in {"sleeping", "timedout"}
  <2>1. UNCHANGED <<env, hwVars, busVars, powerVars, h, localVars, woke>>
    BY <1>1 DEF Call, Lock, Unlock, RefuseBusy, Sleep, Deadline
  <2>2. \A d \in Clients \ {c} : pc'[d] = pc[d] /\ req'[d] = req[d]
    BY <1>1 DEF Call, Lock, Unlock, RefuseBusy, Sleep, Deadline, Goto
  <2>3. \/ pc[c] \in {"idle", "locking", "prepare", "unlock"}
           /\ pc'[c] \in {"idle", "locking", "prepare", "unlock"}
        \/ pc[c] \in {"sleep", "sleeping"} /\ pc'[c] \in {"sleeping", "timedout"}
    BY <1>1 DEF Call, Lock, Unlock, RefuseBusy, Sleep, Deadline, Goto
  <2>4. Serving' => Serving
    BY <2>2, <2>3 DEF Serving, InTransfer
  <2> QED
    BY <2>1, <2>2, <2>3, <2>4
<1> QED
  BY <1>0, <1>1 DEF Thread, Proceed, Signal

-----------------------------------------------------------------------------
(* Steps of the block. *)

LEMMA HardwareExact ==
  ASSUME Settled, FifoInv, TransferInv, ExactInv, Hardware
  PROVE  ExactInv'
<1> USE DEF Settled, TypeOK
<1>0. UNCHANGED <<enable, cerr, outst>>
  BY HardwareFrame DEF busVars
<1> SUFFICES ASSUME enable, ~cerr, ~abrt' PROVE ReadsExactly(txfifo', Unread')
  BY <1>0 DEF ExactInv
<1>1. ~abrt /\ ~NotAcknowledged
  <2>1. ~NotAcknowledged
    BY DEF NotAcknowledged
  <2>2. abrt' = abrt
    BY <2>1 DEF Hardware, HwStep, StartByte, Acknowledged, StopCondition, StopOnEmpty, Settle
  <2> QED
    BY <2>1, <2>2
<1>2. ReadsExactly(txfifo, Unread) /\ Accounted
  BY <1>1 DEF ExactInv, FifoInv, AccountInv
<1>3. /\ txfifo \in Seq(Command) /\ Len(rxfifo) \in Nat /\ outst \in Int /\ RxDepth \in Nat
      /\ BeingRead \in {0, 1} /\ Unread \in Int
  BY LenProperties, DepthAssumption DEF HwTypeOK, BusTypeOK, BeingRead, Unread
<1>4. CASE StartByte
  <2>1. ReadsExactly(Tail(txfifo), Unread - IsRead(Head(txfifo)))
    BY <1>2, <1>3, <1>4, ExactTail DEF StartByte
  <2>2. Unread' = Unread - IsRead(Head(txfifo)) /\ txfifo' = Tail(txfifo)
    BY <1>0, <1>3, <1>4 DEF StartByte, Unread, BeingRead, IsRead
  <2> QED
    BY <2>1, <2>2
<1>5. CASE Acknowledged
  <2>1. Unread >= 0 /\ outst <= RxDepth
    BY <1>2, <1>3, ReadsWeaken DEF Accounted
  <2>2. shift.rd => Len(rxfifo) < RxDepth
    BY <1>3, <1>5, <2>1 DEF Acknowledged, BeingRead, Unread
  <2>3. shift.at \in Position
    BY DEF HwTypeOK, Command
  <2>4. Len(rxfifo') = Len(rxfifo) + BeingRead
    BY <1>3, <1>5, <2>2, <2>3, AppendProperties DEF Acknowledged, BeingRead, HwTypeOK
  <2>5. BeingRead' = 0 /\ txfifo' = txfifo
    BY <1>5 DEF Acknowledged, BeingRead
  <2>6. Unread' = Unread
    BY <1>0, <1>3, <2>4, <2>5 DEF Unread
  <2> QED
    BY <1>2, <2>5, <2>6
<1>6. CASE StopCondition \/ StopOnEmpty
  <2>1. BeingRead' = BeingRead /\ UNCHANGED <<rxfifo, txfifo>>
    BY <1>6 DEF StopCondition, StopOnEmpty, BeingRead
  <2> QED
    BY <1>0, <1>2, <2>1 DEF Unread
<1> QED
  BY <1>1, <1>4, <1>5, <1>6 DEF Hardware, HwStep, Settle

LEMMA HardwareWaits ==
  ASSUME Calm, ServiceInv, WaitInv, Hardware
  PROVE  WaitInv'
<1> USE DEF ServiceInv, WaitInv, OutcomeInv
<1>0. /\ UNCHANGED <<env, enable, mask, tar, busVars, threadVars, powerVars, h, localVars, woke>>
      /\ Serving' <=> Serving
  BY HardwareFrame
<1>1. UNCHANGED <<enable, mask, msgs, widx, merr, cerr, outst, pc, req, awake, irq, pm, h, stat, addr, valid>>
  BY <1>0 DEF busVars, threadVars, powerVars, localVars
<1>2. ExactInv'
  BY HardwareExact
<1>3. AskedInv' /\ AddressInv' /\ BegunInv' /\ ErrorInv' /\ UsefulInv' /\ PoweredInv'
  BY <1>0, <1>1 DEF AskedInv, AddressInv, BegunInv, ErrorInv, UsefulInv, Useful, PoweredInv
<1>4. DrainInv'
  <2> SUFFICES ASSUME StatusRead, "STOP_DET" \in stat, ~cerr PROVE rxfifo' = rxfifo
    BY <1>1 DEF DrainInv, StatusRead
  <2>1. sent = LastOf(msgs) /\ enable
    BY RunningServes DEF StopInv, StatusRead
  <2>2. bus # "byte"
    BY <2>1, NothingAfterLast
  <2> QED
    BY <2>2 DEF Hardware, HwStep, StartByte, Acknowledged, NotAcknowledged, StopCondition, StopOnEmpty, Settle
<1>5. LastInv'
  <2> SUFFICES ASSUME Serving, enable, ~woke, ~cerr, ~abrt', sent' = LastOf(msgs)
               PROVE  bus' = "stop" \/ stopdet' \/ (StatusRead /\ "STOP_DET" \in stat)
    BY <1>0, <1>1 DEF LastInv, StatusRead
  <2>1. CASE Acknowledged
    <3>1. bus = "byte" /\ sent' = shift.at /\ (shift.stop => bus' = "stop")
      BY <2>1 DEF Acknowledged
    <3>2. ~abrt
      BY <3>1, MovingServes
    <3>3. Faithful(shift)
      BY <3>1, <3>2 DEF TransferInv, OrderInv, ChainInv
    <3> QED
      BY <3>1, <3>3 DEF Faithful
  <2>2. CASE ~Acknowledged
    <3>0. ~NotAcknowledged /\ ~Settle
      BY DEF NotAcknowledged, Settle
    <3>1. ~abrt /\ sent = LastOf(msgs)
      <4>1. abrt' = abrt /\ sent' = sent
        BY <2>2, <3>0 DEF Hardware, HwStep, StartByte, StopCondition, StopOnEmpty
      <4> QED
        BY <4>1
    <3>2. txfifo = << >>
      BY <3>1, AllWritten
    <3> QED
      BY <2>2, <3>0, <3>1, <3>2 DEF LastInv, Hardware, HwStep, StartByte, StopCondition, StopOnEmpty
  <2> QED
    BY <2>1, <2>2
<1> QED
  BY <1>2, <1>3, <1>4, <1>5

-----------------------------------------------------------------------------
(* Steps of the threads. *)

LEMMA ThreadAsks ==
  ASSUME Settled, AskedInv, NEW c \in Clients, Thread(c)
  PROVE  AskedInv'
<1> USE DEF Settled, TypeOK, ThreadTypeOK
<1>1. CASE Call(c)
  BY <1>1 DEF AskedInv, Call, Goto
<1>2. CASE Unlock(c)
  BY <1>2 DEF AskedInv, Unlock, Goto
<1>3. CASE ~Call(c) /\ ~Unlock(c)
  <2>1. req' = req /\ pc[c] # "idle" /\ \A d \in Clients \ {c} : pc'[d] = pc[d]
    BY <1>3 DEF Thread, Proceed, Lock, RefuseBusy, Setup, Reprogram, Enable, Unmask, Sleep, Deadline,
       Signal, Finish, TimedOut, Leave, Goto
  <2> QED
    BY <2>1 DEF AskedInv
<1> QED
  BY <1>1, <1>2, <1>3

(* Between two transfers, and until the caller of this one has unmasked the interrupts. *)
LEMMA NotYetWaiting ==
  ASSUME Calm, ServiceInv, WaitInv, AskedInv', ServiceInv', NEW c \in Clients,
         Setup(c) \/ Reprogram(c) \/ Enable(c) \/ Finish(c) \/ TimedOut(c)
  PROVE  WaitInv'
<1> USE DEF ServiceInv, Settled, TypeOK, ThreadTypeOK, InTransfer, Programmed
<1>0. ~env.lateirq
  BY CalmNow
<1>1. /\ h = "idle" /\ h' = "idle" /\ UNCHANGED <<env, powerVars, stat>>
      /\ pc[c] \in {"prepare", "request", "enable", "woken", "timedout"}
      /\ pc'[c] \in {"request", "enable", "unmask", "unlock"}
      /\ \A d \in Clients \ {c} : pc'[d] = pc[d]
  BY <1>0, RestBeforeProgram DEF Setup, Reprogram, Enable, Finish, TimedOut, Leave, HandlerSettled,
     Goto, localVars
<1>2. \A d \in Clients \ {c} : pc[d] \in Unlocked
  BY <1>1, OnlyOne DEF Unlocked
<1>3. UsefulInv' /\ PoweredInv' /\ DrainInv' /\ AddressInv'
  BY <1>1, <1>2 DEF WaitInv, UsefulInv, PoweredInv, DrainInv, StatusRead, AddressInv, Unlocked, powerVars
<1>4. Serving' => ~merr' /\ ~cerr' /\ outst' = 0
  <2>1. CASE Setup(c)
    BY <2>1 DEF Setup
  <2>2. CASE Reprogram(c) \/ Enable(c)
    BY <1>1, <2>2 DEF Reprogram, Enable, Goto, TransferInv, SetupInv, Fresh, busVars
  <2>3. CASE Finish(c) \/ TimedOut(c)
    BY <1>1, <1>2, <2>3 DEF Finish, TimedOut, Leave, Goto, Serving, Unlocked
  <2> QED
    BY <2>1, <2>2, <2>3
<1>5. BegunInv' /\ ErrorInv'
  BY <1>4 DEF BegunInv, ErrorInv
<1>6. ~enable' \/ Enable(c)
  BY RestBeforeProgram DEF Setup, Reprogram, Finish, TimedOut, Leave, Disabled, Goto
<1>7. ASSUME Enable(c) PROVE ExactInv' /\ LastInv'
  <2>1. /\ Fresh /\ msgs = req[c] /\ pc[c] = "enable"
        /\ UNCHANGED <<bus, shift, txfifo, rxfifo, sent, busVars>>
    BY <1>7 DEF Enable, Goto, TransferInv, SetupInv
  <2>2. /\ bus' = "idle" /\ outst' = 0 /\ rxfifo' = << >> /\ txfifo' = << >>
        /\ sent' = Before /\ msgs' = msgs
    BY <2>1 DEF Fresh, busVars
  <2>3. BeingRead' = 0 /\ Len(rxfifo') = 0
    BY <2>2, EmptySeq DEF BeingRead
  <2>4. Unread' = outst' - BeingRead' - Len(rxfifo')
    BY DEF Unread
  <2>5. Unread' = 0
    BY <2>2, <2>3, <2>4
  <2>6. Len(msgs) >= 1 /\ Len(msgs) \in Nat
    BY <2>1, ServedTransfer DEF TransferInv, Serving
  <2>7. sent' # LastOf(msgs')
    <3>1. sent'[1] = 0 /\ LastOf(msgs')[1] = Len(msgs)
      BY <2>2 DEF Before, LastOf
    <3> QED
      BY <2>6, <3>1
  <2> QED
    BY <2>2, <2>5, <2>7, ExactEmpty DEF ExactInv, LastInv
<1>8. ExactInv' /\ LastInv'
  BY <1>6, <1>7 DEF ExactInv, LastInv
<1> QED
  BY <1>3, <1>5, <1>8 DEF WaitInv

LEMMA ThreadWaits ==
  ASSUME Calm, ServiceInv, ServiceInv', WaitInv, NEW c \in Clients, Thread(c)
  PROVE  WaitInv'
<1> USE DEF ServiceInv, Settled, TypeOK, ThreadTypeOK
<1>1. AskedInv'
  BY ThreadAsks DEF WaitInv
<1>2. CASE Setup(c) \/ Reprogram(c) \/ Enable(c) \/ Finish(c) \/ TimedOut(c)
  BY <1>1, <1>2, NotYetWaiting
<1>3. CASE Unmask(c)
  <2>1. /\ pc[c] = "unmask" /\ pc'[c] = "sleep" /\ mask' = DefaultMask /\ ~abrt'
        /\ \A d \in Clients \ {c} : pc'[d] = pc[d]
        /\ UNCHANGED <<env, enable, txfifo, rxfifo, bus, shift, sent, busVars, powerVars, h, localVars, woke>>
    BY <1>3 DEF Unmask, Goto
  <2>2. UNCHANGED <<msgs, widx, merr, cerr, outst, awake, irq, pm, stat, addr, valid>>
    BY <2>1 DEF busVars, powerVars, localVars
  <2>3. Fresh /\ ~abrt /\ Len(msgs) >= 1 /\ Len(msgs) \in Nat /\ Serving
    BY <2>1, ServedTransfer DEF TransferInv, SetupInv, Serving, InTransfer
  <2>4. \A d \in Clients \ {c} : pc[d] \in Unlocked
    BY <2>1, OnlyOne DEF Unlocked
  <2>5. ExactInv'
    BY <2>1, <2>2, <2>3 DEF WaitInv, ExactInv, Unread, BeingRead
  <2>6. BegunInv' /\ ErrorInv' /\ AddressInv' /\ PoweredInv' /\ DrainInv'
    BY <2>1, <2>2, <2>3 DEF WaitInv, BegunInv, ErrorInv, AddressInv, PoweredInv, DrainInv, StatusRead
  <2>7. UsefulInv'
    BY <2>1, <2>2, <2>4 DEF WaitInv, UsefulInv, Useful, Unlocked
  <2>8. LastInv'
    <3>1. LastOf(msgs)[1] = Len(msgs) /\ sent[1] = 0
      BY <2>3 DEF LastOf, Fresh, Before
    <3> QED
      BY <2>1, <2>2, <2>3, <3>1 DEF LastInv
  <2> QED
    BY <1>1, <2>5, <2>6, <2>7, <2>8 DEF WaitInv
<1>4. ASSUME ~Setup(c), ~Reprogram(c), ~Enable(c), ~Finish(c), ~TimedOut(c), ~Unmask(c)
      PROVE  WaitInv'
  <2>1. /\ UNCHANGED <<env, hwVars, busVars, powerVars, h, localVars, woke>>
        /\ \A d \in Clients \ {c} : pc'[d] = pc[d]
        /\ Serving' => Serving
        /\ \/ pc'[c] \in {"idle", "locking", "prepare", "unlock", "timedout"}
           \/ pc[c] \in {"sleep", "sleeping"} /\ pc'[c] = "sleeping"
    BY <1>4, ThreadFrame
  <2>2. UNCHANGED <<enable, mask, txfifo, rxfifo, bus, shift, stopdet, abrt, sent, msgs, widx, merr,
                    cerr, outst, awake, irq, pm, stat, addr, valid>>
    BY <2>1 DEF hwVars, busVars, powerVars, localVars
  <2>3. ExactInv' /\ BegunInv' /\ ErrorInv' /\ AddressInv' /\ PoweredInv' /\ DrainInv' /\ LastInv'
    BY <2>1, <2>2 DEF WaitInv, ExactInv, Unread, BeingRead, BegunInv, ErrorInv, AddressInv, PoweredInv,
       DrainInv, StatusRead, LastInv
  <2>4. UsefulInv'
    BY <2>1, <2>2 DEF WaitInv, UsefulInv, Useful
  <2> QED
    BY <1>1, <2>3, <2>4 DEF WaitInv
<1> QED
  BY <1>2, <1>3, <1>4

(* Steps of the power manager. *)
LEMMA PowerWaits ==
  ASSUME ServiceInv, WaitInv, Power
  PROVE  WaitInv'
<1> USE DEF ServiceInv, Settled, TypeOK, ThreadTypeOK
<1>1. CASE StopInterrupt
  <2>1. ~awake /\ UNCHANGED <<env, hwVars, busVars, req, pc, awake, h, localVars, woke>>
    BY <1>1 DEF StopInterrupt, WaitInv, PoweredInv
  <2>2. UNCHANGED <<enable, mask, txfifo, rxfifo, bus, shift, stopdet, abrt, sent, msgs, widx, merr,
                    cerr, outst, stat, addr, valid>>
    BY <2>1 DEF hwVars, busVars, localVars
  <2> QED
    BY <2>1, <2>2 DEF WaitInv, ExactInv, Unread, BeingRead, AskedInv, BegunInv, ErrorInv, AddressInv,
       PoweredInv, DrainInv, StatusRead, LastInv, UsefulInv, Useful, Serving
<1>2. CASE PowerOff \/ PowerOn
  <2>1. /\ lock = Free /\ ~enable' /\ UNCHANGED <<env, busVars, req, pc, h, localVars, woke>>
        /\ awake' => pm' = "idle" /\ irq'
    BY <1>2 DEF PowerOff, PowerOn, threadVars, Disabled
  <2>2. \A d \in Clients : pc[d] \in Unlocked
    BY <2>1, ActorAssumption DEF Locking, Owned
  <2>3. h = "idle" /\ ~Serving /\ ~Serving'
    BY <1>2, <2>2, PowerServes, NothingProgrammed DEF Unlocked, Programmed, InTransfer
  <2>4. AskedInv' /\ UsefulInv'
    BY <2>1, <2>2, <2>3 DEF WaitInv, AskedInv, UsefulInv, Unlocked
  <2> QED
    BY <2>1, <2>3, <2>4 DEF WaitInv, ExactInv, BegunInv, ErrorInv, AddressInv, PoweredInv, DrainInv,
       StatusRead, LastInv
<1> QED
  BY <1>1, <1>2 DEF Power

-----------------------------------------------------------------------------
(* Steps of the handler. *)

LEMMA HandlerExact ==
  ASSUME ServiceInv, WaitInv, HandlerEnter \/ HandlerStep
  PROVE  ExactInv'
<1> USE DEF ServiceInv, Settled, TypeOK
<1>0. UNCHANGED <<bus, shift, enable>>
  BY HandlerFrame
<1>1. CASE RxByte
  <2>1. /\ h = "rxbyte" /\ left > 0 /\ valid > 0 /\ outst' = outst - 1
        /\ rxfifo' = (IF rxfifo = << >> THEN rxfifo ELSE Tail(rxfifo))
        /\ UNCHANGED <<txfifo, cerr, abrt>>
    BY <1>1 DEF RxByte, Handler
  <2>2. valid <= Len(rxfifo) /\ Len(rxfifo) \in Nat /\ valid \in Nat /\ outst \in Int
    BY <2>1, LenProperties DEF FifoInv, LimitInv, HwTypeOK, BusTypeOK, HandlerTypeOK
  <2>3. rxfifo # << >>
    BY <2>1, <2>2, EmptySeq
  <2>4. Len(rxfifo') = Len(rxfifo) - 1
    BY <2>1, <2>3, HeadTailProperties DEF HwTypeOK
  <2>5. BeingRead' = BeingRead /\ BeingRead \in Int
    BY <1>0 DEF BeingRead
  <2>6. Unread' = Unread
    BY <2>1, <2>2, <2>4, <2>5 DEF Unread
  <2> QED
    BY <1>0, <2>1, <2>6 DEF WaitInv, ExactInv
<1>2. CASE TxPush
  <2>1. /\ h = "push" /\ left > 0 /\ tlim > 0 /\ UNCHANGED <<rxfifo, cerr, abrt>>
        /\ Pushed(NextCommand) /\ outst' = (IF msgs[widx].rd THEN outst + 1 ELSE outst)
    BY <1>2 DEF TxPush, MayPush, Handler
  <2> SUFFICES ASSUME enable, ~cerr, ~abrt PROVE ReadsExactly(txfifo', Unread')
    BY <1>0, <2>1 DEF ExactInv
  <2>2. /\ Len(txfifo) \in Nat /\ Len(rxfifo) \in Nat /\ outst \in Int /\ txfifo \in Seq(Command)
        /\ BeingRead \in Int /\ Unread \in Int /\ tlim \in Nat /\ TxDepth \in Nat
    BY LenProperties, DepthAssumption DEF HwTypeOK, BusTypeOK, HandlerTypeOK, BeingRead, Unread
  <2>3. Len(txfifo) < TxDepth
    BY <2>1, <2>2 DEF FifoInv, LimitInv
  <2>4. NextCommand \in Command
    <3>1. Serving /\ OrderInv
      BY <2>1, RunningServes DEF TransferInv
    <3>2. widx <= Len(msgs) /\ left <= msgs[widx].len
      BY <2>1, <3>1 DEF OrderInv, WriteInv
    <3> QED
      BY <2>1, <3>2, NextFaithful
  <2>5. txfifo' = Append(txfifo, NextCommand)
    BY <2>1, <2>3 DEF Pushed
  <2>6. ReadsExactly(txfifo', Unread + IsRead(NextCommand))
    BY <2>2, <2>4, <2>5, ExactAppend DEF WaitInv, ExactInv
  <2>7. Unread' = Unread + IsRead(NextCommand)
    <3>1. BeingRead' = BeingRead
      BY <1>0 DEF BeingRead
    <3>2. NextCommand.rd = msgs[widx].rd
      BY DEF NextCommand
    <3> QED
      BY <2>1, <2>2, <3>1, <3>2 DEF Unread, IsRead
  <2> QED
    BY <2>6, <2>7
<1>3. CASE ReadClear
  <2>1. /\ UNCHANGED <<txfifo, rxfifo>>
        /\ "TX_ABRT" \in stat' => cerr'
        /\ "TX_ABRT" \notin stat' => UNCHANGED <<cerr, outst>> /\ (abrt' <=> abrt)
    BY <1>3 DEF ReadClear
  <2> QED
    BY <1>0, <2>1 DEF WaitInv, ExactInv, Unread, BeingRead
<1>4. CASE ~RxByte /\ ~TxPush /\ ~ReadClear
  <2>1. UNCHANGED <<txfifo, rxfifo, outst, cerr, abrt>>
    BY <1>4 DEF HandlerEnter, HandlerStep, RxEnd, RxSkipWrite, RxBegin, RxPause, RxMessageDone, TxSkip,
       TxEnter, TxBadMessage, TxBegin, TxPause, TxMessageDone, TxEnd, TxSetMask, Wakeup, HandlerReturn,
       ReadMask, RestoreMask, hwVars, busVars
  <2> QED
    BY <1>0, <2>1 DEF WaitInv, ExactInv, Unread, BeingRead
<1> QED
  BY <1>1, <1>2, <1>3, <1>4

LEMMA HandlerAddress ==
  ASSUME Orderly, ServiceInv, WaitInv, HandlerEnter \/ HandlerStep
  PROVE  AddressInv'
<1> USE DEF ServiceInv, Settled, TypeOK, BusTypeOK
<1>0. msgs' = msgs
  BY HandlerFrame
<1>1. CASE TxEnter
  <2>1. h = "tx" /\ h' = "txmsg" /\ widx' = widx /\ (widx <= Len(msgs) => addr' = msgs[widx].addr)
    BY <1>1 DEF TxEnter, Handler, busVars
  <2>2. msgs \in Requests
    BY <2>1, RunningServes, ServedAsked DEF WaitInv
  <2>3. widx <= Len(msgs) => msgs[widx].addr = msgs[1].addr
    BY <2>2 DEF Orderly
  <2> QED
    BY <1>0, <2>1, <2>3 DEF AddressInv
<1>2. CASE TxBegin
  BY <1>0, <1>2 DEF TxBegin, Handler, Sendable, WaitInv, AddressInv, busVars
<1>3. CASE TxPush
  BY <1>0, <1>3 DEF TxPush, Handler, WaitInv, AddressInv
<1>4. CASE TxMessageDone
  <2>1. h = "push" /\ h' = "txmsg" /\ widx' = widx + 1 /\ addr' = addr /\ widx \in Int /\ Len(msgs) \in Int
    BY <1>4, LenProperties DEF TxMessageDone, Handler, localVars, Transfer
  <2> QED
    BY <1>0, <2>1 DEF WaitInv, AddressInv
<1>5. CASE ~TxEnter /\ ~TxBegin /\ ~TxPush /\ ~TxMessageDone
  <2>1. h' \notin {"txmsg", "push"}
    BY <1>5 DEF HandlerEnter, HandlerStep, ReadClear, RxEnd, RxSkipWrite, RxBegin, RxByte, RxPause,
       RxMessageDone, TxSkip, TxBadMessage, TxPause, TxEnd, TxSetMask, Wakeup, HandlerReturn,
       ReadMask, RestoreMask, Handler
  <2> QED
    BY <2>1 DEF AddressInv
<1> QED
  BY <1>1, <1>2, <1>3, <1>4, <1>5

LEMMA HandlerBegun ==
  ASSUME ServiceInv, WaitInv, HandlerEnter \/ HandlerStep
  PROVE  BegunInv'
<1> USE DEF ServiceInv, Settled, TypeOK, BusTypeOK
<1>0. msgs' = msgs /\ (Serving' => Serving) /\ widx \in Int /\ outst \in Int
  BY HandlerFrame, HandlerServes
<1>1. CASE TxPush
  <2>1. h = "push" /\ widx' = widx /\ (~msgs[widx].rd => outst' = outst)
    BY <1>1 DEF TxPush, Handler
  <2>2. widx \in 1..Len(msgs) /\ msgs[widx].len > 0
    BY <2>1, LenProperties DEF HandlerTypeOK, WaitInv, AddressInv
  <2>3. CASE msgs[widx].rd
    BY <1>0, <2>1, <2>2, <2>3 DEF BegunInv
  <2>4. CASE ~msgs[widx].rd
    BY <1>0, <2>1, <2>4 DEF WaitInv, BegunInv
  <2> QED
    BY <2>3, <2>4
<1>2. CASE ~TxPush
  <2>1. outst' \in {outst, 0, outst - 1} /\ widx' \in {widx, widx + 1}
    BY <1>2 DEF HandlerEnter, HandlerStep, ReadClear, RxEnd, RxSkipWrite, RxBegin, RxByte, RxPause,
       RxMessageDone, TxSkip, TxEnter, TxBadMessage, TxBegin, TxPause, TxMessageDone, TxEnd, TxSetMask,
       Wakeup, HandlerReturn, ReadMask, RestoreMask, busVars
  <2> SUFFICES ASSUME Serving', outst' > 0
               PROVE  \E i \in 1..Len(msgs) : i <= widx' /\ msgs[i].rd /\ msgs[i].len > 0
    BY <1>0 DEF BegunInv
  <2>2. PICK i \in 1..Len(msgs) : i <= widx /\ msgs[i].rd /\ msgs[i].len > 0
    BY <1>0, <2>1 DEF WaitInv, BegunInv
  <2>3. i <= widx'
    BY <1>0, <2>1, <2>2
  <2> QED
    BY <2>2, <2>3
<1> QED
  BY <1>1, <1>2

(* A message that cannot be sent is found when no read is outstanding. *)
LEMMA BadMessageAlone ==
  ASSUME Orderly, ServiceInv, WaitInv, TxBadMessage, ~cerr
  PROVE  outst = 0
<1> USE DEF ServiceInv, Settled, TypeOK, BusTypeOK
<1>1. h = "txmsg" /\ widx <= Len(msgs) /\ ~Sendable(msgs[widx])
  BY DEF TxBadMessage, Handler
<1>2. Serving /\ enable /\ msgs \in Requests
  BY <1>1, RunningServes, ServedAsked DEF WaitInv
<1>3. widx \in 1..Len(msgs) /\ msgs[widx].len \in Nat
  BY <1>1, <1>2, FieldsAt, ServedTransfer DEF TransferInv
<1>4. msgs[widx].len = 0
  <2>1. addr = msgs[1].addr /\ msgs[widx].addr = msgs[1].addr
    BY <1>1, <1>2, <1>3 DEF WaitInv, AddressInv, Orderly
  <2> QED
    BY <1>1, <1>3, <2>1 DEF Sendable
<1>5. \A j \in 1..Len(msgs) : j < widx => ~msgs[j].rd
  BY <1>2, <1>3, <1>4 DEF Orderly
<1>6. ~(outst > 0)
  <2> SUFFICES ASSUME outst > 0 PROVE FALSE
    OBVIOUS
  <2>1. PICK i \in 1..Len(msgs) : i <= widx /\ msgs[i].rd /\ msgs[i].len > 0
    BY <1>2 DEF WaitInv, BegunInv
  <2> QED
    BY <1>3, <1>4, <1>5, <2>1
<1>7. outst >= 0
  <2>1. Accounted
    BY <1>2 DEF FifoInv, AccountInv
  <2>2. Len(rxfifo) \in Nat /\ BeingRead \in {0, 1} /\ Unread \in Int /\ txfifo \in Seq(Command)
    BY LenProperties DEF BeingRead, Unread, HwTypeOK
  <2>3. Unread >= 0
    BY <2>1, <2>2, ReadsWeaken DEF Accounted
  <2> QED
    BY <2>2, <2>3 DEF Unread
<1> QED
  BY <1>6, <1>7

LEMMA HandlerError ==
  ASSUME Orderly, ServiceInv, WaitInv, HandlerEnter \/ HandlerStep
  PROVE  ErrorInv'
<1> USE DEF ServiceInv
<1>0. Serving' => Serving
  BY HandlerServes
<1> SUFFICES ASSUME Serving, ~woke'
             PROVE  /\ merr' => h' \in {"txmask", "wake"} /\ outst' = 0
                    /\ cerr' => h' = "wake" /\ "TX_ABRT" \in stat'
  BY <1>0 DEF ErrorInv
<1>1. ~woke /\ ~Wakeup
  <2>1. ~Wakeup
    BY DEF Wakeup
  <2>2. woke' = woke
    BY <2>1 DEF HandlerEnter, HandlerStep, ReadClear, RxEnd, RxSkipWrite, RxBegin, RxByte, RxPause,
       RxMessageDone, TxSkip, TxEnter, TxBadMessage, TxBegin, TxPush, TxPause, TxMessageDone, TxEnd,
       TxSetMask, HandlerReturn, ReadMask, RestoreMask
  <2> QED
    BY <2>1, <2>2
<1>2. /\ merr => h \in {"txmask", "wake"} /\ outst = 0
      /\ cerr => h = "wake" /\ "TX_ABRT" \in stat
  BY <1>1 DEF WaitInv, ErrorInv
<1>3. CASE ReadClear
  <2>1. h = "clear" /\ merr' = merr /\ ("TX_ABRT" \in stat' => h' = "wake") /\ ("TX_ABRT" \notin stat' => cerr' = cerr)
    BY <1>3 DEF ReadClear, Handler
  <2> QED
    BY <1>2, <2>1
<1>4. CASE TxBadMessage
  <2>1. h = "txmsg" /\ h' = "txmask" /\ UNCHANGED <<outst, cerr>>
    BY <1>4 DEF TxBadMessage, Handler
  <2> QED
    BY <1>2, <1>4, <2>1, BadMessageAlone
<1>5. CASE TxSetMask
  BY <1>2, <1>5 DEF TxSetMask, Handler, busVars
<1>6. CASE HandlerReturn \/ ReadMask
  <2>1. h = "wake" /\ ~TransferOver /\ UNCHANGED <<merr, cerr, outst>>
    BY <1>6 DEF HandlerReturn, ReadMask, Handler, busVars
  <2>2. ~merr
    BY <1>2, <2>1 DEF TransferOver
  <2>3. ~cerr
    <3> SUFFICES ASSUME cerr PROVE FALSE
      OBVIOUS
    <3>1. outst = 0
      BY <2>1, RunningServes DEF FifoInv, AccountInv, Aborted
    <3> QED
      BY <1>2, <2>1, <3>1 DEF TransferOver
  <2> QED
    BY <2>1, <2>2, <2>3
<1>7. CASE ~ReadClear /\ ~TxBadMessage /\ ~TxSetMask /\ ~HandlerReturn /\ ~ReadMask
  <2>1. /\ UNCHANGED <<merr, cerr>>
        /\ h \notin {"txmask", "wake"}
    BY <1>1, <1>7 DEF HandlerEnter, HandlerStep, RxEnd, RxSkipWrite, RxBegin, RxByte, RxPause,
       RxMessageDone, TxSkip, TxEnter, TxBegin, TxPush, TxPause, TxMessageDone, TxEnd, RestoreMask,
       Handler, busVars
  <2> QED
    BY <1>2, <2>1
<1> QED
  BY <1>3, <1>4, <1>5, <1>6, <1>7

LEMMA HandlerUseful ==
  ASSUME Calm, OwnLine, ServiceInv, WaitInv, HandlerEnter \/ HandlerStep
  PROVE  UsefulInv'
<1> USE DEF ServiceInv, Settled, TypeOK, BusTypeOK
<1>0. msgs' = msgs /\ env' = env /\ widx \in Int /\ Len(msgs) \in Int
  BY HandlerFrame, LenProperties DEF Transfer
<1>1. \A c \in Clients : pc'[c] = pc[c] \/ pc'[c] = "woken"
  BY DEF HandlerEnter, HandlerStep, ReadClear, RxEnd, RxSkipWrite, RxBegin, RxByte, RxPause,
     RxMessageDone, TxSkip, TxEnter, TxBadMessage, TxBegin, TxPush, TxPause, TxMessageDone, TxEnd,
     TxSetMask, Wakeup, HandlerReturn, ReadMask, RestoreMask, threadVars, ThreadTypeOK
<1>2. h' = "remask" => env'.workaround
  BY DEF WaitInv, UsefulInv, HandlerEnter, HandlerStep, ReadClear, RxEnd, RxSkipWrite, RxBegin, RxByte,
     RxPause, RxMessageDone, TxSkip, TxEnter, TxBadMessage, TxBegin, TxPush, TxPause, TxMessageDone,
     TxEnd, TxSetMask, Wakeup, HandlerReturn, ReadMask, RestoreMask, Handler
<1>3. ASSUME NEW c \in Clients, pc'[c] = "unmask", env'.workaround PROVE h' = "idle"
  <2>1. pc[c] = "unmask" /\ env.workaround
    BY <1>0, <1>1, <1>3
  <2>2. h = "idle" /\ mask = {}
    BY <2>1 DEF WaitInv, UsefulInv, FifoInv, RequestInv, Quiet
  <2>3. ~LineAsserted /\ ~env.shared
    BY <2>1, <2>2 DEF LineAsserted, OwnLine
  <2> QED
    BY <2>2, <2>3 DEF HandlerEnter, HandlerStep, ReadClear, RxEnd, RxSkipWrite, RxBegin, RxByte,
       RxPause, RxMessageDone, TxSkip, TxEnter, TxBadMessage, TxBegin, TxPush, TxPause, TxMessageDone,
       TxEnd, TxSetMask, Wakeup, HandlerReturn, ReadMask, RestoreMask, Handler
<1>4. ASSUME NEW c \in Clients, pc'[c] \in {"sleep", "sleeping"}, ~woke', ~merr', ~cerr'
      PROVE  Useful(mask)' /\ (h' = "remask" => Useful(stat)')
  <2>1. pc[c] \in {"sleep", "sleeping"}
    BY <1>1, <1>4
  <2>2. CASE ReadClear
    <3>1. ~cerr' /\ ~woke' /\ ~merr'
      BY <1>4
    <3>2. "TX_ABRT" \notin stat'
      BY <2>2, <3>1 DEF ReadClear
    <3>3. h' = "rx" /\ UNCHANGED <<cerr, mask, merr, woke, widx>>
      BY <2>2, <3>2 DEF ReadClear, Handler
    <3>4. Useful(mask)
      BY <2>1, <3>1, <3>3 DEF WaitInv, UsefulInv
    <3> QED
      BY <1>0, <3>3, <3>4 DEF Useful
  <2>3. CASE TxSetMask
    <3>1. h' = "wake" /\ mask' = TxMask /\ UNCHANGED <<merr, widx>>
      BY <2>3 DEF TxSetMask, Handler, busVars
    <3> QED
      BY <1>0, <1>4, <3>1 DEF TxMask, Useful
  <2>4. CASE ReadMask \/ RestoreMask
    <3>1. UNCHANGED <<merr, cerr, woke, widx>>
      BY <2>4 DEF ReadMask, RestoreMask, busVars
    <3>2. Useful(mask) /\ (h = "remask" => Useful(stat))
      BY <1>4, <2>1, <3>1 DEF WaitInv, UsefulInv
    <3>3. \/ h' = "remask" /\ stat' = mask /\ mask' = mask
          \/ h = "remask" /\ h' = "idle" /\ mask' = stat
      BY <2>4 DEF ReadMask, RestoreMask, Handler, hwVars
    <3> QED
      BY <1>0, <3>1, <3>2, <3>3 DEF Useful
  <2>5. CASE ~ReadClear /\ ~TxSetMask /\ ~ReadMask /\ ~RestoreMask
    <3>0. woke' = woke
      <4>1. ~Wakeup
        BY <1>4 DEF Wakeup
      <4> QED
        BY <2>5, <4>1 DEF HandlerEnter, HandlerStep, RxEnd, RxSkipWrite, RxBegin, RxByte, RxPause,
           RxMessageDone, TxSkip, TxEnter, TxBadMessage, TxBegin, TxPush, TxPause, TxMessageDone, TxEnd,
           HandlerReturn
    <3>1. mask' = mask /\ h' # "remask" /\ widx' \in {widx, widx + 1} /\ cerr' = cerr
      BY <2>5 DEF HandlerEnter, HandlerStep, RxEnd, RxSkipWrite, RxBegin, RxByte, RxPause,
         RxMessageDone, TxSkip, TxEnter, TxBadMessage, TxBegin, TxPush, TxPause, TxMessageDone, TxEnd,
         Wakeup, HandlerReturn, Handler, hwVars, busVars
    <3>2. ~merr
      <4>1. ~TxBadMessage
        BY <1>4 DEF TxBadMessage
      <4>2. merr' = merr
        BY <2>5, <4>1 DEF HandlerEnter, HandlerStep, RxEnd, RxSkipWrite, RxBegin, RxByte, RxPause,
           RxMessageDone, TxSkip, TxEnter, TxBegin, TxPush, TxPause, TxMessageDone, TxEnd,
           Wakeup, HandlerReturn, busVars
      <4> QED
        BY <1>4, <4>2
    <3>3. Useful(mask)
      BY <1>4, <2>1, <3>0, <3>1, <3>2 DEF WaitInv, UsefulInv
    <3> QED
      BY <1>0, <3>1, <3>3 DEF Useful
  <2> QED
    BY <2>2, <2>3, <2>4, <2>5
<1> QED
  BY <1>2, <1>3, <1>4 DEF UsefulInv

(* What holds when a handler run has seen the stop condition. *)
LEMMA StopSeen ==
  ASSUME ServiceInv, WaitInv, StatusRead, "STOP_DET" \in stat, ~cerr
  PROVE  /\ sent = LastOf(msgs) /\ outst = Len(rxfifo) /\ Len(rxfifo) \in Nat
         /\ ridx > Len(msgs) => outst = 0
         /\ ~TxPush
<1> USE DEF ServiceInv, Settled, TypeOK
<1>1. Serving /\ enable /\ sent = LastOf(msgs) /\ ~abrt
  BY RunningServes DEF StatusRead, OutcomeInv, StopInv
<1>2. outst = Len(rxfifo) /\ Len(rxfifo) \in Nat
  BY <1>1, AllReceived, ReceivedTyped DEF WaitInv
<1>3. ~TxPush
  <2> SUFFICES ASSUME TxPush PROVE FALSE
    OBVIOUS
  <2>1. h = "push" /\ left > 0 /\ widx <= Len(msgs)
    BY DEF TxPush, MayPush, Handler, HandlerTypeOK
  <2>2. widx > Len(msgs) \/ left = 0
    BY <1>1, AllWritten
  <2>3. widx \in Int /\ Len(msgs) \in Int /\ left \in Int
    BY <1>1, ServedTransfer DEF TransferInv, BusTypeOK, HandlerTypeOK
  <2> QED
    BY <2>1, <2>2, <2>3
<1>4. ASSUME ridx > Len(msgs) PROVE outst = 0
  <2> SUFFICES ASSUME Len(rxfifo) > 0 PROVE FALSE
    BY <1>2
  <2>1. 1 \in 1..Len(rxfifo)
    BY <1>2
  <2>2. rxfifo[1][1] \in 1..Len(msgs) /\ ~Ahead(rxfifo[1], Cursor)
    BY <1>1, <2>1 DEF TransferInv, ReadInv, FetchInv, ReadPosition, InMessages
  <2>3. Cursor[1] = ridx
    BY DEF Cursor
  <2>4. ridx \in Int /\ Len(msgs) \in Int
    BY <1>1, ServedTransfer DEF TransferInv, BusTypeOK
  <2> QED
    BY <1>4, <2>2, <2>3, <2>4 DEF Ahead
<1> QED
  BY <1>1, <1>2, <1>3, <1>4

LEMMA HandlerDrain ==
  ASSUME ServiceInv, ServiceInv', WaitInv, ExactInv', HandlerEnter \/ HandlerStep
  PROVE  DrainInv'
<1> USE DEF ServiceInv, Settled, TypeOK
<1> SUFFICES ASSUME StatusRead', "STOP_DET" \in stat', ~cerr'
             PROVE  /\ h' = "rx" => outst' = 0 \/ "RX_FULL" \in stat'
                    /\ h' = "rxbyte" => "RX_FULL" \in stat' /\ valid' = Len(rxfifo')
                    /\ h' \notin {"rx", "rxbyte"} => outst' = 0
  BY DEF DrainInv
<1>1. CASE ReadClear
  <2>1. "TX_ABRT" \notin stat'
    BY <1>1 DEF ReadClear
  <2>2. /\ h = "clear" /\ h' = "rx" /\ UNCHANGED <<outst, rxfifo, enable, sent, msgs, cerr>> /\ (abrt' <=> abrt)
        /\ stat' = IF enable THEN Raw \cap mask ELSE {}
    BY <1>1, <2>1 DEF ReadClear, Handler
  <2>3. sent = LastOf(msgs) /\ ~abrt
    BY <2>2 DEF OutcomeInv, StopInv
  <2>4. Serving /\ enable
    BY <2>2, RunningServes
  <2>5. outst = Len(rxfifo)
    BY <2>2, <2>3, <2>4, AllReceived DEF WaitInv
  <2>6. "RX_FULL" \in mask
    BY <2>2, <2>4 DEF OutcomeInv, MaskInv, Masks, DefaultMask, Interrupts
  <2>7. rxfifo # << >> => "RX_FULL" \in Raw
    BY DEF Raw, Interrupts
  <2>8. rxfifo = << >> => Len(rxfifo) = 0
    BY EmptySeq
  <2> QED
    BY <2>2, <2>4, <2>5, <2>6, <2>7, <2>8
<1>2. CASE ~ReadClear
  <2>0. StatusRead /\ stat' = stat /\ cerr' = cerr
    BY <1>2 DEF HandlerEnter, HandlerStep, RxEnd, RxSkipWrite, RxBegin, RxByte, RxPause,
       RxMessageDone, TxSkip, TxEnter, TxBadMessage, TxBegin, TxPush, TxPause, TxMessageDone, TxEnd,
       TxSetMask, Wakeup, HandlerReturn, ReadMask, RestoreMask, Handler, localVars, busVars, StatusRead
  <2>1. /\ outst = Len(rxfifo) /\ Len(rxfifo) \in Nat
        /\ ridx > Len(msgs) => outst = 0
        /\ ~TxPush
    BY <2>0, StopSeen
  <2>2. /\ h = "rx" => outst = 0 \/ "RX_FULL" \in stat
        /\ h = "rxbyte" => "RX_FULL" \in stat /\ valid = Len(rxfifo)
        /\ h \notin {"rx", "rxbyte"} => outst = 0
    BY <2>0 DEF WaitInv, DrainInv
  <2>3. CASE RxEnd
    BY <2>0, <2>1, <2>2, <2>3 DEF RxEnd, Handler, busVars
  <2>4. CASE RxSkipWrite
    BY <2>0, <2>2, <2>4 DEF RxSkipWrite, Handler
  <2>5. CASE RxBegin
    BY <2>0, <2>5 DEF RxBegin, Handler, hwVars
  <2>6. CASE RxByte
    <3>1. /\ h = "rxbyte" /\ h' = "rxbyte" /\ valid > 0 /\ valid' = valid - 1
          /\ rxfifo' = (IF rxfifo = << >> THEN rxfifo ELSE Tail(rxfifo))
      BY <2>6 DEF RxByte, Handler
    <3>2. rxfifo # << >>
      BY <2>2, <3>1, EmptySeq
    <3>3. Len(rxfifo') = Len(rxfifo) - 1
      BY <3>1, <3>2, HeadTailProperties DEF HwTypeOK
    <3> QED
      BY <2>0, <2>2, <3>1, <3>3
  <2>7. CASE RxPause
    BY <2>1, <2>2, <2>7 DEF RxPause, Handler
  <2>8. CASE RxMessageDone
    BY <2>0, <2>2, <2>8 DEF RxMessageDone, Handler
  <2>9. CASE ~RxEnd /\ ~RxSkipWrite /\ ~RxBegin /\ ~RxByte /\ ~RxPause /\ ~RxMessageDone
    <3>1. h' \notin {"rx", "rxbyte"} /\ h \notin {"rx", "rxbyte"} /\ outst' = outst
      BY <1>2, <2>1, <2>9 DEF HandlerEnter, HandlerStep, TxSkip, TxEnter, TxBadMessage, TxBegin, TxPause,
         TxMessageDone, TxEnd, TxSetMask, Wakeup, HandlerReturn, ReadMask, RestoreMask, Handler,
         busVars, StatusRead
    <3> QED
      BY <2>2, <3>1
  <2> QED
    BY <2>3, <2>4, <2>5, <2>6, <2>7, <2>8, <2>9
<1> QED
  BY <1>1, <1>2

LEMMA HandlerLast ==
  ASSUME ServiceInv, WaitInv, HandlerEnter \/ HandlerStep
  PROVE  LastInv'
<1> USE DEF ServiceInv
<1>0. (Serving' => Serving) /\ UNCHANGED <<msgs, sent, bus, enable>>
  BY HandlerServes, HandlerFrame
<1> SUFFICES ASSUME Serving, enable, ~woke', ~cerr', ~abrt', sent = LastOf(msgs)
             PROVE  bus = "stop" \/ stopdet' \/ (StatusRead' /\ "STOP_DET" \in stat')
  BY <1>0 DEF LastInv
<1>1. CASE ReadClear
  <2>1. "TX_ABRT" \notin stat'
    BY <1>1 DEF ReadClear
  <2>2. /\ h = "clear" /\ h' = "rx" /\ UNCHANGED <<cerr, woke>> /\ (abrt' <=> abrt)
        /\ stopdet' \/ ~stopdet \/ "STOP_DET" \in stat'
    BY <1>1, <2>1 DEF ReadClear, Handler
  <2> QED
    BY <2>2 DEF WaitInv, LastInv, StatusRead
<1>2. CASE ~ReadClear
  <2>0. ~Wakeup
    BY DEF Wakeup
  <2>1. UNCHANGED <<woke, cerr, stopdet, abrt>>
    BY <1>2, <2>0 DEF HandlerEnter, HandlerStep, RxEnd, RxSkipWrite, RxBegin, RxByte, RxPause,
       RxMessageDone, TxSkip, TxEnter, TxBadMessage, TxBegin, TxPush, TxPause, TxMessageDone, TxEnd,
       TxSetMask, HandlerReturn, ReadMask, RestoreMask, hwVars, busVars
  <2>2. bus = "stop" \/ stopdet \/ (StatusRead /\ "STOP_DET" \in stat)
    BY <2>1 DEF WaitInv, LastInv
  <2>3. ASSUME StatusRead, "STOP_DET" \in stat, ~stopdet' PROVE StatusRead' /\ "STOP_DET" \in stat'
    <3>1. ~HandlerReturn /\ ~ReadMask
      <4>1. h = "wake" => outst = 0
        BY <2>1, <2>3 DEF WaitInv, DrainInv
      <4>2. h = "wake" => TransferOver
        BY <2>3, <4>1 DEF TransferOver
      <4> QED
        BY <4>2 DEF HandlerReturn, ReadMask, Handler
    <3> QED
      BY <1>2, <2>0, <2>3, <3>1 DEF HandlerEnter, HandlerStep, RxEnd, RxSkipWrite, RxBegin, RxByte, RxPause,
         RxMessageDone, TxSkip, TxEnter, TxBadMessage, TxBegin, TxPush, TxPause, TxMessageDone, TxEnd,
         TxSetMask, RestoreMask, Handler, localVars, StatusRead
  <2> QED
    BY <2>1, <2>2, <2>3
<1> QED
  BY <1>1, <1>2

LEMMA NextWaits ==
  ASSUME Calm, OwnLine, Orderly, ServiceInv, ServiceInv', WaitInv, [Next]_vars
  PROVE  WaitInv'
<1>1. CASE UNCHANGED vars
  <2>1. UNCHANGED <<env, enable, mask, txfifo, rxfifo, bus, shift, stopdet, abrt, sent, msgs, widx, merr,
                    cerr, outst, req, pc, awake, irq, pm, h, stat, addr, valid, woke>>
    BY <1>1 DEF vars, hwVars, busVars, threadVars, powerVars, localVars
  <2> QED
    BY <2>1 DEF WaitInv, ExactInv, Unread, BeingRead, AskedInv, AddressInv, BegunInv, ErrorInv,
       UsefulInv, Useful, PoweredInv, DrainInv, StatusRead, LastInv, Serving
<1>2. CASE HandlerEnter \/ HandlerStep
  <2>1. AskedInv' /\ PoweredInv'
    <3>1. UNCHANGED <<req, awake, irq, pm>>
      BY <1>2, HandlerFrame
    <3>2. \A c \in Clients : pc'[c] = pc[c] \/ pc[c] = "sleeping"
      BY <1>2 DEF HandlerEnter, HandlerStep, ReadClear, RxEnd, RxSkipWrite, RxBegin, RxByte, RxPause,
         RxMessageDone, TxSkip, TxEnter, TxBadMessage, TxBegin, TxPush, TxPause, TxMessageDone, TxEnd,
         TxSetMask, Wakeup, HandlerReturn, ReadMask, RestoreMask, threadVars
    <3> QED
      BY <3>1, <3>2 DEF WaitInv, AskedInv, PoweredInv
  <2> QED
    BY <1>2, <2>1, HandlerExact, HandlerAddress, HandlerBegun, HandlerError, HandlerUseful,
       HandlerDrain, HandlerLast DEF WaitInv
<1> QED
  BY <1>1, <1>2, HardwareWaits, ThreadWaits, PowerWaits DEF Next

LEMMA InitWaits == Init => WaitInv
<1> SUFFICES ASSUME Init PROVE WaitInv
  OBVIOUS
<1>1. /\ ~enable /\ h = "idle" /\ irq /\ pm = "idle"
      /\ \A c \in Clients : pc[c] = "idle"
  BY DEF Init, HwInit
<1>2. ~Serving
  BY <1>1 DEF Serving, InTransfer
<1> QED
  BY <1>1, <1>2 DEF WaitInv, ExactInv, AskedInv, AddressInv, BegunInv, ErrorInv, UsefulInv, PoweredInv,
     DrainInv, StatusRead, LastInv

LEMMA AlwaysWaits ==
  ASSUME Calm, OwnLine, Orderly
  PROVE  Spec => [](ServiceInv /\ WaitInv)
<1>1. ServiceInv /\ WaitInv /\ [Next]_vars => ServiceInv' /\ WaitInv'
  BY NextService, NextWaits
<1> QED
  BY InitService, InitWaits, <1>1, PTL DEF Spec

(* A caller that nobody is about to wake up has something on its way. *)
LEMMA SleeperExpects ==
  ASSUME ServiceInv, WaitInv, NEW c \in Clients, pc[c] = "sleeping", ~woke
  PROVE  /\ irq /\ awake /\ enable
         /\ \/ h # "idle" \/ LineAsserted \/ bus \in {"byte", "stop"} \/ (txfifo # << >> /\ ~abrt)
<1> USE DEF ServiceInv, Settled, TypeOK
<1>1. /\ pc[c] \in InTransfer /\ pc[c] \in Programmed
      /\ Serving
  BY DEF InTransfer, Programmed, Serving
<1>2. awake /\ irq /\ enable
  BY <1>1 DEF Locking, AsleepIsQuiet, WaitInv, PoweredInv, TransferInv, SetupInv
<1> SUFFICES ASSUME h = "idle", ~LineAsserted, bus \notin {"byte", "stop"}, txfifo = << >> \/ abrt
             PROVE  FALSE
  BY <1>2
<1>3. ~merr /\ ~cerr
  BY <1>1 DEF WaitInv, ErrorInv
<1>4. Useful(mask)
  BY <1>3 DEF WaitInv, UsefulInv
<1>5. {"RX_FULL", "TX_ABRT", "STOP_DET"} \subseteq mask
  BY <1>4 DEF Useful, DefaultMask, Interrupts
<1>6. Raw \cap mask = {}
  BY <1>2 DEF LineAsserted
<1>7. ~abrt /\ ~stopdet /\ txfifo = << >>
  BY <1>5, <1>6 DEF Raw, Interrupts
<1>8. "TX_EMPTY" \notin mask
  <2>1. Len(txfifo) = 0 /\ 0 <= TxDepth \div 2
    BY <1>7, EmptySeq, DepthAssumption
  <2>2. "TX_EMPTY" \in Raw
    BY <1>2, <2>1 DEF Raw, Interrupts
  <2> QED
    BY <1>6, <2>2
<1>9. widx > Len(msgs)
  BY <1>4, <1>8 DEF Useful, DefaultMask, Interrupts
<1>10. Len(msgs) \in Nat /\ Len(msgs) >= 1 /\ widx \in Nat
  BY <1>1, ServedTransfer DEF TransferInv, BusTypeOK
<1>11. widx <= Len(msgs) + 1 /\ LastQueued = Written
  BY <1>1, <1>3, <1>7 DEF TransferInv, OrderInv, WriteInv
<1>12. sent = LastOf(msgs)
  <2>1. LastQueued = sent
    BY <1>7 DEF LastQueued, Front
  <2>2. widx - 1 = Len(msgs)
    BY <1>9, <1>10, <1>11
  <2>3. Written = EndOf(Len(msgs))
    BY <1>9, <2>2 DEF Written
  <2>4. EndOf(Len(msgs)) = LastOf(msgs)
    <3>1. Len(msgs) # 0
      BY <1>10
    <3> QED
      BY <3>1 DEF EndOf, LastOf
  <2> QED
    BY <1>11, <2>1, <2>3, <2>4
<1> QED
  BY <1>1, <1>2, <1>3, <1>7, <1>12 DEF WaitInv, LastInv, StatusRead

(* No sleeping caller is forgotten, whatever the slaves do and whenever interrupts come, for
   any number of callers, FIFOs of any depth and all transfers that a device nub asks for:
   until commandWakeup, the handler is running, the line is raised or the bus has work to do. *)
THEOREM SleepersAreWoken == Calm /\ OwnLine /\ Orderly => (Spec => []NeverStalls)
<1> SUFFICES ASSUME Calm, OwnLine, Orderly PROVE Spec => []NeverStalls
  OBVIOUS
<1>1. ServiceInv /\ WaitInv => NeverStalls
  BY SleeperExpects DEF NeverStalls
<1> QED
  BY AlwaysWaits, <1>1, PTL

=============================================================================
