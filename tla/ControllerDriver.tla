-------------------------- MODULE ControllerDriver --------------------------
(***************************************************************************)
(* VoodooI2CControllerDriver: client threads that call transferI2C, the     *)
(* interrupt handler that moves the bytes, the power manager that puts the  *)
(* controller to sleep, and the block they all program (module DesignWare). *)
(***************************************************************************)
EXTENDS DesignWare

CONSTANTS
  Clients,    \* threads that call transferI2C
  PM,         \* the power-management thread
  Free,       \* value of the lock when nobody holds it
  Requests    \* the transfers a client may ask for

ASSUME ActorAssumption == PM \notin Clients /\ Free \notin Clients /\ PM # Free
ASSUME RequestAssumption == Requests \subseteq Transfer

VARIABLES
  (* bus_device *)
  msgs,       \* messages
  widx,       \* message_write_index + 1
  ridx,       \* message_read_index + 1
  merr,       \* message_error # 0
  cerr,       \* command_error # 0 (it is only ever 0 or DW_IC_ERR_TX_ABRT)
  wip,        \* STATUS_WRITE_IN_PROGRESS
  rip,        \* STATUS_READ_IN_PROGRESS
  tlen,       \* transaction_buffer_length
  rlen,       \* receive_buffer_length
  outst,      \* receive_outstanding
  awake,
  (* threads *)
  lock,       \* holder of i2c_bus_lock
  req,        \* what each client asks for
  pc, ret,    \* where each client is in transferI2C, and what it got
  pm,         \* where the power manager is in setPowerState
  irq,        \* is_interrupt_registered
  (* handleInterrupt and the functions it calls *)
  h,          \* where the handler is; "idle" when it is not running
  stat,       \* status
  addr,       \* address
  left,       \* buffer_length, or length
  restart,    \* need_restart
  tlim, rlim, \* transaction_limit, receive_limit
  valid,      \* receive_valid
  woke        \* history: commandWakeup was called since this transfer began

busVars == <<msgs, widx, ridx, merr, cerr, wip, rip, tlen, rlen, outst>>
localVars == <<stat, addr, left, restart, tlim, rlim, valid>>
threadVars == <<lock, req, pc, ret>>
powerVars == <<awake, pm, irq>>
vars == <<env, hwVars, busVars, threadVars, powerVars, h, localVars, woke>>

DefaultMask == Interrupts   \* DW_IC_INTR_DEFAULT_MASK

ThreadPC == {"idle", "locking", "prepare", "request", "enable", "unmask", "sleep",
             "sleeping", "woken", "timedout", "unlock"}
HandlerPC == {"idle", "clear", "rx", "rxbyte", "tx", "txmsg", "push", "txmask", "wake", "remask"}
Result == {"None", "Success", "Busy", "Timeout", "Error"}

(* The program counters at which the fields of bus_device belong to the client, and those
   at which the block has been programmed for it. *)
InTransfer == {"request", "enable", "unmask", "sleep", "sleeping", "woken", "timedout"}
Programmed == InTransfer \ {"request", "enable"}

Init ==
  /\ HwInit
  /\ msgs = << >> /\ widx = 1 /\ ridx = 1
  /\ merr = FALSE /\ cerr = FALSE /\ wip = FALSE /\ rip = FALSE
  /\ tlen = 0 /\ rlen = 0 /\ outst = 0
  /\ awake = TRUE /\ pm = "idle" /\ irq = TRUE
  /\ lock = Free
  /\ req = [c \in Clients |-> << >>]
  /\ pc = [c \in Clients |-> "idle"]
  /\ ret = [c \in Clients |-> "None"]
  /\ h = "idle"
  /\ stat = {} /\ addr = 0 /\ left = 0 /\ restart = FALSE
  /\ tlim = 0 /\ rlim = 0 /\ valid = 0
  /\ woke = FALSE

Goto(c, from, to) == pc[c] = from /\ pc' = [pc EXCEPT ![c] = to]

(* A handler that has started is done before a thread starts or ends a transfer,
   unless the environment lets the thread overtake it. *)
HandlerSettled == env.lateirq \/ h = "idle"

-----------------------------------------------------------------------------
(* transferI2C: take the lock, run prepareTransferI2C, release the lock. *)

Call(c) ==
  /\ Goto(c, "idle", "locking")
  /\ \E r \in Requests : req' = [req EXCEPT ![c] = r]
  /\ UNCHANGED <<env, hwVars, busVars, powerVars, lock, ret, h, localVars, woke>>

Lock(c) ==
  /\ lock = Free
  /\ Goto(c, "locking", "prepare")
  /\ lock' = c
  /\ UNCHANGED <<env, hwVars, busVars, powerVars, req, ret, h, localVars, woke>>

(* Mutant: the error path of a timeout forgets the lock. *)
UnlockUnlessTimeout(c) ==
  /\ Goto(c, "unlock", "idle")
  /\ lock' = IF ret[c] = "Timeout" THEN lock ELSE Free
  /\ req' = [req EXCEPT ![c] = << >>] /\ ret' = [ret EXCEPT ![c] = "None"]
  /\ UNCHANGED <<env, hwVars, busVars, powerVars, h, localVars, woke>>

Unlock(c) ==
  /\ Goto(c, "unlock", "idle")
  /\ lock' = Free
  /\ req' = [req EXCEPT ![c] = << >>] /\ ret' = [ret EXCEPT ![c] = "None"]
  /\ UNCHANGED <<env, hwVars, busVars, powerVars, h, localVars, woke>>

(* Asleep, or waitBusNotBusyI2C gave up on a bus that stays active. *)
RefuseBusy(c) ==
  /\ ~awake \/ Activity
  /\ Goto(c, "prepare", "unlock")
  /\ ret' = [ret EXCEPT ![c] = "Busy"]
  /\ UNCHANGED <<env, hwVars, busVars, powerVars, lock, req, h, localVars, woke>>

(* prepareTransferI2C resets the fields the handler works on. *)
Setup(c) ==
  /\ awake /\ ~Activity /\ HandlerSettled
  /\ Goto(c, "prepare", "request")
  /\ msgs' = req[c] /\ widx' = 1 /\ ridx' = 1
  /\ merr' = FALSE /\ cerr' = FALSE /\ wip' = FALSE /\ rip' = FALSE
  /\ outst' = 0
  /\ sent' = Before /\ woke' = FALSE
  /\ UNCHANGED <<env, enable, mask, txfifo, rxfifo, bus, shift, stopdet, abrt, tar,
                 tlen, rlen, powerVars, lock, req, ret, h, localVars>>

(* Mutant: IC_TAR is written only once. *)
TargetKept == IF tar = 0 /\ widx <= Len(msgs) THEN msgs[widx].addr ELSE tar

Target == IF widx <= Len(msgs) THEN msgs[widx].addr ELSE tar

(* requestTransferI2C up to toggleInterrupts(Off). *)
Reprogram(c) ==
  /\ Goto(c, "request", "enable")
  /\ Disabled
  /\ tar' = Target
  /\ mask' = {}
  /\ UNCHANGED <<env, sent, busVars, powerVars, lock, req, ret, h, localVars, woke>>

Enable(c) ==
  /\ Goto(c, "enable", "unmask")
  /\ enable' = TRUE
  /\ UNCHANGED <<env, mask, txfifo, rxfifo, bus, shift, stopdet, abrt, tar, sent,
                 busVars, powerVars, lock, req, ret, h, localVars, woke>>

(* toggleInterrupts(On): read IC_CLR_INTR, then write the default mask. *)
Unmask(c) ==
  /\ Goto(c, "unmask", "sleep")
  /\ stopdet' = FALSE /\ abrt' = FALSE
  /\ mask' = DefaultMask
  /\ UNCHANGED <<env, enable, txfifo, rxfifo, bus, shift, tar, sent,
                 busVars, powerVars, lock, req, ret, h, localVars, woke>>

(* commandSleep: from here on, and not before, commandWakeup finds the thread. *)
Sleep(c) ==
  /\ Goto(c, "sleep", "sleeping")
  /\ UNCHANGED <<env, hwVars, busVars, powerVars, lock, req, ret, h, localVars, woke>>

Deadline(c) ==
  /\ HandlerSettled
  /\ Goto(c, "sleeping", "timedout")
  /\ UNCHANGED <<env, hwVars, busVars, powerVars, lock, req, ret, h, localVars, woke>>

(* An interrupted commandSleep is handled as if the wakeup had come. *)
Signal(c) ==
  /\ env.signals /\ HandlerSettled
  /\ Goto(c, "sleeping", "woken")
  /\ UNCHANGED <<env, hwVars, busVars, powerVars, lock, req, ret, h, localVars, woke>>

(* Mutant: an aborted transfer is reported as a success. *)
OutcomeWithoutAbort == IF merr THEN "Error" ELSE "Success"

Outcome == IF merr \/ cerr THEN "Error" ELSE "Success"

(* Mutant: the adapter is left enabled. *)
LeaveEnabled(c, from, result) ==
  /\ HandlerSettled
  /\ Goto(c, from, "unlock")
  /\ ret' = [ret EXCEPT ![c] = result]
  /\ UNCHANGED <<env, hwVars, busVars, powerVars, lock, req, h, localVars, woke>>

(* The adapter is disabled before prepareTransferI2C returns. *)
Leave(c, from, result) ==
  /\ HandlerSettled
  /\ Goto(c, from, "unlock")
  /\ Disabled
  /\ ret' = [ret EXCEPT ![c] = result]
  /\ UNCHANGED <<env, mask, tar, sent, busVars, powerVars, lock, req, h, localVars, woke>>

(* toggleBusState(Off) and the result of prepareTransferI2C. *)
Finish(c) == Leave(c, "woken", Outcome)

(* initialiseBus after THREAD_TIMED_OUT. *)
TimedOut(c) == Leave(c, "timedout", "Timeout")

-----------------------------------------------------------------------------
(* setPowerState: the lock keeps it out of a running transfer. *)

(* Mutant: setPowerState(0) does not wait for the transfer that holds the lock. *)
PowerOffUnlocked ==
  /\ pm = "idle" /\ awake
  /\ pm' = "stopirq"
  /\ awake' = FALSE
  /\ Disabled
  /\ UNCHANGED <<env, mask, tar, sent, busVars, threadVars, irq, h, localVars, woke>>

PowerOff ==
  /\ pm = "idle" /\ lock = Free /\ awake
  /\ lock' = PM /\ pm' = "stopirq"
  /\ awake' = FALSE
  /\ Disabled
  /\ UNCHANGED <<env, mask, tar, sent, busVars, req, pc, ret, irq, h, localVars, woke>>

(* stopI2CInterrupt: disabling the interrupt waits for a handler that is running. *)
StopInterrupt ==
  /\ pm = "stopirq" /\ h = "idle"
  /\ irq' = FALSE
  /\ lock' = Free /\ pm' = "idle"
  /\ UNCHANGED <<env, hwVars, busVars, req, pc, ret, awake, h, localVars, woke>>

(* Enable, initialiseBus (which disables again), mask, startI2CInterrupt: the lock is
   free and the interrupt not registered, so nobody sees the steps in between. *)
PowerOn ==
  /\ pm = "idle" /\ lock = Free /\ ~awake
  /\ Disabled
  /\ mask' = {}
  /\ awake' = TRUE /\ irq' = TRUE
  /\ UNCHANGED <<env, tar, sent, busVars, threadVars, pm, h, localVars, woke>>

-----------------------------------------------------------------------------
(* handleInterrupt *)

Handler(from, to) == h = from /\ h' = to

(* Called for this controller's interrupt, or for another device on a shared line; it
   looks at IC_ENABLE and IC_RAW_INTR_STAT before it does anything.  Of an enabled block
   the latter is not 0: TX_EMPTY is set until a transfer starts, START_DET from then on. *)
HandlerEnter ==
  /\ irq /\ (LineAsserted \/ env.shared)
  /\ awake /\ enable
  /\ Handler("idle", "clear")
  /\ UNCHANGED <<env, hwVars, busVars, threadVars, powerVars, localVars, woke>>

(* readClearInterruptBits, and the abort branch of handleInterrupt. *)
ReadClear ==
  /\ stat' = IF enable THEN Raw \cap mask ELSE {}
  /\ abrt' = (abrt /\ "TX_ABRT" \notin stat')
  /\ stopdet' = (stopdet /\ ~("STOP_DET" \in stat' /\ (outst = 0 \/ "RX_FULL" \in stat')))
  /\ IF "TX_ABRT" \in stat'
     THEN /\ Handler("clear", "wake")
          /\ cerr' = TRUE /\ wip' = FALSE /\ rip' = FALSE /\ outst' = 0
          /\ mask' = {}
     ELSE /\ Handler("clear", "rx")
          /\ UNCHANGED <<cerr, wip, rip, outst, mask>>
  /\ UNCHANGED <<env, enable, txfifo, rxfifo, bus, shift, tar, sent, msgs, widx, ridx, merr,
                 tlen, rlen, threadVars, powerVars, addr, left, restart, tlim, rlim, valid, woke>>

-----------------------------------------------------------------------------
(* readFromBus *)

RxEnd ==
  /\ "RX_FULL" \notin stat \/ ridx > Len(msgs)
  /\ Handler("rx", "tx")
  /\ UNCHANGED <<env, hwVars, busVars, threadVars, powerVars, localVars, woke>>

RxSkipWrite ==
  /\ "RX_FULL" \in stat /\ ridx <= Len(msgs)
  /\ ~msgs[ridx].rd
  /\ Handler("rx", "rx")
  /\ ridx' = ridx + 1
  /\ UNCHANGED <<env, hwVars, msgs, widx, merr, cerr, wip, rip, tlen, rlen, outst,
                 threadVars, powerVars, localVars, woke>>

(* Mutant: a read that goes on starts over. *)
ReadLengthAfresh == msgs[ridx].len

ReadLength == IF rip THEN rlen ELSE msgs[ridx].len

RxBegin ==
  /\ "RX_FULL" \in stat /\ ridx <= Len(msgs)
  /\ msgs[ridx].rd
  /\ Handler("rx", "rxbyte")
  /\ left' = ReadLength
  /\ valid' = Len(rxfifo)
  /\ UNCHANGED <<env, hwVars, busVars, threadVars, powerVars, stat, addr, restart, tlim, rlim, woke>>

RxByte ==
  /\ left > 0 /\ valid > 0
  /\ Handler("rxbyte", "rxbyte")
  /\ rxfifo' = IF rxfifo = << >> THEN rxfifo ELSE Tail(rxfifo)
  /\ outst' = outst - 1
  /\ left' = left - 1 /\ valid' = valid - 1
  /\ UNCHANGED <<env, enable, mask, txfifo, bus, shift, stopdet, abrt, tar, sent,
                 msgs, widx, ridx, merr, cerr, wip, rip, tlen, rlen,
                 threadVars, powerVars, stat, addr, restart, tlim, rlim, woke>>

RxPause ==
  /\ left > 0 /\ valid = 0
  /\ Handler("rxbyte", "tx")
  /\ rip' = TRUE /\ rlen' = left
  /\ UNCHANGED <<env, hwVars, msgs, widx, ridx, merr, cerr, wip, tlen, outst,
                 threadVars, powerVars, localVars, woke>>

RxMessageDone ==
  /\ left = 0
  /\ Handler("rxbyte", "rx")
  /\ rip' = FALSE /\ ridx' = ridx + 1
  /\ UNCHANGED <<env, hwVars, msgs, widx, merr, cerr, wip, tlen, rlen, outst,
                 threadVars, powerVars, localVars, woke>>

-----------------------------------------------------------------------------
(* transferMessageToBus *)

TxSkip ==
  /\ "TX_EMPTY" \notin stat
  /\ Handler("tx", "wake")
  /\ UNCHANGED <<env, hwVars, busVars, threadVars, powerVars, localVars, woke>>

TxEnter ==
  /\ "TX_EMPTY" \in stat
  /\ Handler("tx", "txmsg")
  /\ addr' = IF widx <= Len(msgs) THEN msgs[widx].addr ELSE addr
  /\ left' = tlen /\ restart' = FALSE
  /\ UNCHANGED <<env, hwVars, busVars, threadVars, powerVars, stat, tlim, rlim, valid, woke>>

Sendable(m) == m.addr = addr /\ m.len > 0

TxBadMessage ==
  /\ widx <= Len(msgs) /\ ~Sendable(msgs[widx])
  /\ Handler("txmsg", "txmask")
  /\ merr' = TRUE
  /\ UNCHANGED <<env, hwVars, msgs, widx, ridx, cerr, wip, rip, tlen, rlen, outst,
                 threadVars, powerVars, localVars, woke>>

(* Mutant: a message that goes on starts over. *)
WriteLengthAfresh == msgs[widx].len

WriteLength == IF wip THEN left ELSE msgs[widx].len

TxBegin ==
  /\ widx <= Len(msgs) /\ Sendable(msgs[widx])
  /\ Handler("txmsg", "push")
  /\ left' = WriteLength
  /\ restart' = (restart \/ (~wip /\ widx > 1))
  /\ tlim' = TxDepth - Len(txfifo)
  /\ rlim' = RxDepth - Len(rxfifo)
  /\ UNCHANGED <<env, hwVars, busVars, threadVars, powerVars, stat, addr, valid, woke>>

(* Mutants: the test of transaction_limit is off by one; the outstanding reads are
   not counted. *)
MayPushOneMore == left > 0 /\ tlim >= 0 /\ rlim > 0 /\ (msgs[widx].rd => rlim - outst > 0)
MayPushBlindly == left > 0 /\ tlim > 0 /\ rlim > 0

(* The loop goes on; a read also has to fit beside the reads still outstanding. *)
MayPush == left > 0 /\ tlim > 0 /\ rlim > 0 /\ (msgs[widx].rd => rlim - outst > 0)

(* Mutant: every message ends with the stop bit. *)
NextCommandStopEach ==
  [at |-> <<widx, msgs[widx].len - left + 1>>, rd |-> msgs[widx].rd,
   stop |-> left = 1, restart |-> restart]

NextCommand ==
  [at |-> <<widx, msgs[widx].len - left + 1>>, rd |-> msgs[widx].rd,
   stop |-> widx = Len(msgs) /\ left = 1, restart |-> restart]

TxPush ==
  /\ MayPush
  /\ Handler("push", "push")
  /\ Pushed(NextCommand)
  /\ restart' = FALSE
  /\ left' = left - 1 /\ tlim' = tlim - 1
  /\ IF msgs[widx].rd
     THEN rlim' = rlim - 1 /\ outst' = outst + 1
     ELSE UNCHANGED <<rlim, outst>>
  /\ UNCHANGED <<env, enable, mask, rxfifo, bus, shift, stopdet, abrt, tar, sent,
                 msgs, widx, ridx, merr, cerr, wip, rip, tlen, rlen,
                 threadVars, powerVars, stat, addr, valid, woke>>

TxPause ==
  /\ ~MayPush /\ left > 0
  /\ Handler("push", "txmask")
  /\ tlen' = left /\ wip' = TRUE
  /\ UNCHANGED <<env, hwVars, msgs, widx, ridx, merr, cerr, rip, rlen, outst,
                 threadVars, powerVars, localVars, woke>>

TxMessageDone ==
  /\ left = 0
  /\ Handler("push", "txmsg")
  /\ tlen' = left /\ wip' = FALSE /\ widx' = widx + 1
  /\ UNCHANGED <<env, hwVars, msgs, ridx, merr, cerr, rip, rlen, outst,
                 threadVars, powerVars, localVars, woke>>

TxEnd ==
  /\ widx > Len(msgs)
  /\ Handler("txmsg", "txmask")
  /\ UNCHANGED <<env, hwVars, busVars, threadVars, powerVars, localVars, woke>>

(* Mutant: TX_EMPTY is masked although messages are left. *)
TxMaskTooEarly == IF merr THEN {} ELSE DefaultMask \ {"TX_EMPTY"}

TxMask ==
  IF merr THEN {} ELSE IF widx > Len(msgs) THEN DefaultMask \ {"TX_EMPTY"} ELSE DefaultMask

TxSetMask ==
  /\ Handler("txmask", "wake")
  /\ mask' = TxMask
  /\ UNCHANGED <<env, enable, txfifo, rxfifo, bus, shift, stopdet, abrt, tar, sent,
                 busVars, threadVars, powerVars, localVars, woke>>

-----------------------------------------------------------------------------
(* The end of handleInterrupt. *)

(* Mutant: the end of the transfer is tied to the read index. *)
TransferOverByRead ==
  (stat \cap {"TX_ABRT", "STOP_DET"} # {} \/ merr) /\ outst = 0 /\ ridx > Len(msgs)

TransferOver == (stat \cap {"TX_ABRT", "STOP_DET"} # {} \/ merr) /\ outst = 0

(* The handler returns: its local variables are gone. *)
ForgetLocals ==
  /\ stat' = {} /\ addr' = 0 /\ left' = 0 /\ restart' = FALSE
  /\ tlim' = 0 /\ rlim' = 0 /\ valid' = 0

(* commandWakeup wakes who is sleeping now; it leaves no trace for a later sleeper. *)
Wakeup ==
  /\ TransferOver
  /\ Handler("wake", "idle")
  /\ pc' = [c \in Clients |-> IF pc[c] = "sleeping" THEN "woken" ELSE pc[c]]
  /\ woke' = TRUE
  /\ ForgetLocals
  /\ UNCHANGED <<env, hwVars, busVars, lock, req, ret, powerVars>>

HandlerReturn ==
  /\ ~TransferOver /\ ~env.workaround
  /\ Handler("wake", "idle")
  /\ ForgetLocals
  /\ UNCHANGED <<env, hwVars, busVars, threadVars, powerVars, woke>>

(* The AMD workaround: read the mask, write 0, write the mask back. *)
ReadMask ==
  /\ ~TransferOver /\ env.workaround
  /\ Handler("wake", "remask")
  /\ stat' = mask
  /\ UNCHANGED <<env, hwVars, busVars, threadVars, powerVars,
                 addr, left, restart, tlim, rlim, valid, woke>>

RestoreMask ==
  /\ Handler("remask", "idle")
  /\ mask' = stat
  /\ ForgetLocals
  /\ UNCHANGED <<env, enable, txfifo, rxfifo, bus, shift, stopdet, abrt, tar, sent,
                 busVars, threadVars, powerVars, woke>>

-----------------------------------------------------------------------------

Hardware ==
  /\ HwStep
  /\ UNCHANGED <<busVars, threadVars, powerVars, h, localVars, woke>>

Proceed(c) ==
  \/ Lock(c) \/ RefuseBusy(c) \/ Setup(c) \/ Reprogram(c) \/ Enable(c) \/ Unmask(c)
  \/ Sleep(c) \/ Finish(c) \/ TimedOut(c) \/ Unlock(c)

Thread(c) == Call(c) \/ Proceed(c) \/ Deadline(c) \/ Signal(c)

Power == PowerOff \/ StopInterrupt \/ PowerOn

HandlerStep ==
  \/ ReadClear
  \/ RxEnd \/ RxSkipWrite \/ RxBegin \/ RxByte \/ RxPause \/ RxMessageDone
  \/ TxSkip \/ TxEnter \/ TxBadMessage \/ TxBegin \/ TxPush \/ TxPause \/ TxMessageDone
  \/ TxEnd \/ TxSetMask
  \/ Wakeup \/ HandlerReturn \/ ReadMask \/ RestoreMask

Next ==
  \/ Hardware
  \/ \E c \in Clients : Thread(c)
  \/ Power
  \/ HandlerEnter
  \/ HandlerStep

Spec == Init /\ [][Next]_vars

(* Threads are scheduled, also when the lock is passed around or the handler keeps
   breaking in (hence SF), and a started handler runs to its end. *)
FairSpec ==
  /\ Spec
  /\ WF_vars(HandlerStep)
  /\ WF_vars(StopInterrupt)
  /\ \A c \in Clients : SF_vars(Proceed(c))

-----------------------------------------------------------------------------
BusTypeOK ==
  /\ msgs \in Transfer \cup {<< >>}
  /\ widx \in Nat \ {0} /\ ridx \in Nat \ {0}
  /\ merr \in BOOLEAN /\ cerr \in BOOLEAN /\ wip \in BOOLEAN /\ rip \in BOOLEAN
  /\ tlen \in Nat /\ rlen \in Nat /\ outst \in Int

ThreadTypeOK ==
  /\ lock \in Clients \cup {PM, Free}
  /\ req \in [Clients -> Transfer \cup {<< >>}]
  /\ pc \in [Clients -> ThreadPC]
  /\ \A c \in Clients : pc[c] # "idle" => req[c] \in Transfer
  /\ ret \in [Clients -> Result]
  /\ awake \in BOOLEAN /\ irq \in BOOLEAN /\ pm \in {"idle", "stopirq"}

HandlerTypeOK ==
  /\ h \in HandlerPC
  /\ stat \subseteq Interrupts
  /\ addr \in Nat /\ left \in Nat /\ restart \in BOOLEAN
  /\ tlim \in Nat /\ rlim \in Nat /\ valid \in Nat
  /\ woke \in BOOLEAN
  /\ h = "push" => widx <= Len(msgs)
  /\ h = "rxbyte" => ridx <= Len(msgs)

(* Type invariant: the registers, the fields of bus_device, the program counters and the
   handler's locals stay in their ranges; a FIFO holds no more than its depth, so that
   transaction_limit and receive_limit (unsigned differences) never wrap; the handler
   moves bytes only of messages that exist. *)
TypeOK == HwTypeOK /\ BusTypeOK /\ ThreadTypeOK /\ HandlerTypeOK

(* Neither FIFO is ever overrun (transferMessageToBus, "avoid rx buffer overrun"): a byte
   that is being read finds room in the receive FIFO, and a command that the handler may
   push finds room in the transmit FIFO, although FIFO levels are read before a message's
   bytes are pushed and reads of earlier messages are still outstanding. *)
NoFifoOverrun ==
  /\ bus = "byte" /\ shift.rd => Len(rxfifo) < RxDepth
  /\ h = "push" /\ tlim > 0 => Len(txfifo) < TxDepth

(* What goes over the wire is the transfer that was asked for: each byte is the one after
   the last acknowledged byte, in the direction of its message, and the stop bit is on
   the last byte of the last message and on no other (transferMessageToBus, across
   handler runs that each fill the FIFO a little further). *)
ByteIsNext ==
  bus = "byte" /\ enable =>
    /\ shift.at = After(msgs, sent)
    /\ shift.rd = msgs[shift.at[1]].rd
    /\ shift.stop <=> shift.at = LastOf(msgs)

(* readFromBus stores a received byte where it belongs: the byte it takes from the FIFO
   is the one the read buffer is waiting for, across messages and handler runs. *)
ReadsPlaced ==
  h = "rxbyte" /\ left > 0 /\ valid > 0 =>
    /\ rxfifo # << >>
    /\ Head(rxfifo) = <<ridx, msgs[ridx].len - left + 1>>

(* A call that returns kIOReturnSuccess has moved every byte of its transfer, and every
   byte it read is in the caller's buffer (prepareTransferI2C). *)
SuccessMeansDone ==
  \A c \in Clients : pc[c] = "unlock" /\ ret[c] = "Success" =>
    /\ sent = LastOf(req[c])
    /\ \A i \in 1..Len(req[c]) : req[c][i].rd => i < ridx

(* The block is enabled, and can start a handler, only for the call that holds
   i2c_bus_lock and is still in its transfer, however late a handler runs: between two calls
   nothing gets in (prepareTransferI2C: "We must disable the adapter before returning and
   signalling the end of the current transfer").  And unless
   threads overtake a running handler, it works on bus_device only while such a call is
   there: its messages live on that caller's stack, and the next call resets the fields
   (handleInterrupt against prepareTransferI2C). *)
NoStaleHandler ==
  /\ enable => lock \in Clients /\ pc[lock] \in Programmed
  /\ ~env.lateirq /\ h \in HandlerPC \ {"idle", "clear", "wake", "remask"} =>
       \E c \in Clients : pc[c] \in Programmed

(* A sleeping caller is never forgotten: until commandWakeup is called for it something
   is on its way that leads there - the handler is running, the controller raises its
   interrupt line, or the bus has work to do.  In particular the mask never hides the
   interrupt the driver is waiting for (transferMessageToBus, readClearInterruptBits). *)
NeverStalls ==
  \A c \in Clients : pc[c] = "sleeping" /\ ~woke =>
    /\ irq /\ awake /\ enable
    /\ \/ h # "idle"
       \/ LineAsserted
       \/ bus \in {"byte", "stop"}
       \/ txfifo # << >> /\ ~abrt

(* A call runs against the slave it names: IC_TAR holds the address of the transfer
   whenever the bus moves (requestTransferI2C). *)
TargetsSlave == bus # "idle" /\ enable => tar = msgs[1].addr

(* A message that follows another one starts with the restart bit (transferMessageToBus:
   "we must manually set restart bit between messages"). *)
RestartBetweenMessages ==
  bus = "byte" /\ enable /\ shift.at[1] > 1 /\ shift.at[2] = 1 => shift.restart

(* A call times out only when the controller did not get to its interrupt in time
   (VoodooI2CDeviceNub.hpp: kIOReturnTimeout). *)
TimeoutMeansSilence ==
  [][\A c \in Clients : pc[c] = "sleeping" /\ pc'[c] = "timedout" => ~woke]_vars

(* While the controller sleeps nothing is programmed: no transfer is under way and the
   block stays disabled until setPowerState wakes it (setPowerState). *)
AsleepIsQuiet == ~awake => ~enable /\ \A c \in Clients : pc[c] \notin InTransfer

(* Every caller gets its answer: as long as the deadline of commandSleep comes, a call
   returns whatever the hardware, the slave, other callers or the power manager do ("Sleep
   timeout to prevent the caller from deadlock", prepareTransferI2C). *)
CallerReturns ==
  (\A c \in Clients : SF_vars(Deadline(c))) =>
    \A c \in Clients : pc[c] = "locking" ~> pc[c] = "idle"

(* A caller that has gone to sleep before commandWakeup is called for it does not need its
   deadline: if the bus keeps moving and interrupts are delivered, its sleep ends all the
   same, whether the transfer is complete or cut short.  Interrupts of other devices do not
   keep it from ending.  Of a wakeup that came before commandSleep the property says
   nothing: that one is lost, and the deadline has to end the call (TimeoutMeansSilence). *)
TransferEnds ==
  WF_vars(Hardware) /\ WF_vars(HandlerEnter) =>
    \A c \in Clients : pc[c] = "sleeping" /\ ~woke ~> pc[c] # "sleeping"

-----------------------------------------------------------------------------
(* Refinement: the driver implements I2CService. *)

CallState(c) ==
  CASE pc[c] = "idle" -> "idle"
    [] pc[c] \in {"locking", "prepare"} -> "waiting"
    [] pc[c] \in InTransfer -> "served"
    [] pc[c] = "unlock" -> "done"

Service == INSTANCE I2CService WITH
  call <- [c \in Clients |-> CallState(c)], request <- req, result <- ret, wire <- sent

(* Every behaviour of threads, handler, power manager and hardware is one that the
   abstract service allows its callers to see. *)
ImplementsService == Service!Spec
=============================================================================
