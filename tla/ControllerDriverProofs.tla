----------------------- MODULE ControllerDriverProofs -----------------------
(***************************************************************************)
(* Theorems about ControllerDriver, for every number of clients, every FIFO *)
(* depth and every set of requests.                                         *)
(***************************************************************************)
EXTENDS ControllerDriver, SequenceTheorems, TLAPS

-----------------------------------------------------------------------------
(* Facts about the operators. *)

(* A message of the transfer in hand is a message. *)
LEMMA MessageAt ==
  ASSUME BusTypeOK, NEW i \in Nat \ {0}, i <= Len(msgs)
  PROVE  /\ msgs[i] \in Message
         /\ msgs[i].addr \in Nat /\ msgs[i].rd \in BOOLEAN /\ msgs[i].len \in Nat
<1>1. msgs \in Seq(Message)
  BY EmptySeq DEF BusTypeOK, Transfer
<1>2. i \in 1..Len(msgs)
  BY <1>1, LenProperties
<1>3. msgs[i] \in Message
  BY <1>1, <1>2, ElementOfSeq
<1> QED
  BY <1>3 DEF Message

(* What the driver pushes is a command, and it fits. *)
LEMMA PushedTyped ==
  ASSUME HwTypeOK, NEW command \in Command, Pushed(command)
  PROVE  txfifo' \in Seq(Command) /\ Len(txfifo') <= TxDepth
<1>1. CASE enable /\ ~abrt /\ Len(txfifo) < TxDepth
  <2>1. txfifo' = Append(txfifo, command)
    BY <1>1 DEF Pushed
  <2>2. txfifo' \in Seq(Command) /\ Len(txfifo') = Len(txfifo) + 1
    BY <2>1, AppendProperties DEF HwTypeOK
  <2> QED
    BY <1>1, <2>2, DepthAssumption, LenProperties DEF HwTypeOK
<1>2. CASE ~(enable /\ ~abrt /\ Len(txfifo) < TxDepth)
  BY <1>2 DEF Pushed, HwTypeOK
<1> QED
  BY <1>1, <1>2

(* A disabled block is well typed. *)
LEMMA DisabledTyped ==
  ASSUME HwTypeOK, Disabled
  PROVE  /\ enable' \in BOOLEAN /\ abrt' \in BOOLEAN /\ stopdet' \in BOOLEAN
         /\ txfifo' \in Seq(Command) /\ Len(txfifo') <= TxDepth
         /\ rxfifo' \in Seq(Position) /\ Len(rxfifo') <= RxDepth
         /\ bus' \in {"idle", "hold", "byte", "stop"}
         /\ shift' \in Command
<1>1. << >> \in Seq(Command) /\ << >> \in Seq(Position) /\ Len(<< >>) = 0
  BY EmptySeq
<1>2. NoCommand \in Command
  BY DEF NoCommand, Command, Before, Position
<1>3. enable' \in BOOLEAN /\ abrt' \in BOOLEAN /\ stopdet' \in BOOLEAN
  BY Zenon DEF Disabled, HwTypeOK
<1>4. bus' \in {"idle", "hold", "byte", "stop"} /\ shift' \in Command
  BY <1>2 DEF Disabled, HwTypeOK
<1>5. Len(txfifo') <= TxDepth /\ Len(rxfifo') <= RxDepth
  BY <1>1, DepthAssumption DEF Disabled
<1>6. txfifo' \in Seq(Command) /\ rxfifo' \in Seq(Position)
  BY <1>1 DEF Disabled
<1> QED
  BY <1>3, <1>4, <1>5, <1>6

-----------------------------------------------------------------------------
(* Type correctness, one group of variables at a time. *)

(* Every initial state is well typed. *)
LEMMA InitTyped == Init => TypeOK
<1> SUFFICES ASSUME Init PROVE TypeOK
  OBVIOUS
<1>1. HwTypeOK
  <2>1. << >> \in Seq(Command) /\ << >> \in Seq(Position) /\ Len(<< >>) = 0
    BY EmptySeq
  <2>2. NoCommand \in Command /\ Before \in Position
    BY DEF NoCommand, Command, Before, Position
  <2>3. enable \in BOOLEAN /\ stopdet \in BOOLEAN /\ abrt \in BOOLEAN
    BY Zenon DEF Init, HwInit
  <2>4. Len(txfifo) <= TxDepth /\ Len(rxfifo) <= RxDepth /\ tar \in Nat
    BY <2>1, DepthAssumption DEF Init, HwInit
  <2>5. txfifo \in Seq(Command) /\ rxfifo \in Seq(Position) /\ shift \in Command /\ sent \in Position
    BY <2>1, <2>2 DEF Init, HwInit
  <2> QED
    BY <2>3, <2>4, <2>5, EnvAssumption DEF Init, HwInit, HwTypeOK
<1>2. BusTypeOK
  <2>1. merr \in BOOLEAN /\ cerr \in BOOLEAN /\ wip \in BOOLEAN /\ rip \in BOOLEAN
    BY Zenon DEF Init
  <2>2. /\ widx \in Nat \ {0} /\ ridx \in Nat \ {0}
        /\ tlen \in Nat /\ rlen \in Nat /\ outst \in Int
    BY DEF Init
  <2> QED
    BY <2>1, <2>2, Zenon DEF Init, BusTypeOK
<1>3. ThreadTypeOK
  BY DEF Init, ThreadTypeOK, ThreadPC, Result
<1>4. HandlerTypeOK
  BY DEF Init, HandlerTypeOK, HandlerPC
<1> QED
  BY <1>1, <1>2, <1>3, <1>4 DEF TypeOK

(* The registers and FIFOs of the block. *)
LEMMA HwTyped == TypeOK /\ [Next]_vars => HwTypeOK'
<1> SUFFICES ASSUME TypeOK, [Next]_vars PROVE HwTypeOK'
  OBVIOUS
<1> USE DEF TypeOK
<1>0. NoCommand \in Command /\ Before \in Position /\ << >> \in Seq(Command)
  BY EmptySeq DEF NoCommand, Command, Before, Position
<1>1. CASE UNCHANGED <<env, hwVars>>
  BY <1>1 DEF HwTypeOK, hwVars
<1>2. CASE Hardware
  <2>1. CASE StartByte
    <3>1. Head(txfifo) \in Command /\ Tail(txfifo) \in Seq(Command) /\ Len(Tail(txfifo)) <= TxDepth
      BY <2>1, HeadTailProperties, LenProperties, DepthAssumption DEF StartByte, HwTypeOK
    <3> QED
      BY <1>2, <2>1, <3>1 DEF Hardware, HwStep, StartByte, HwTypeOK
  <2>2. CASE Acknowledged
    <3>1. shift.at \in Position /\ shift.rd \in BOOLEAN
      BY DEF HwTypeOK, Command
    <3>2. /\ Append(rxfifo, shift.at) \in Seq(Position)
          /\ Len(Append(rxfifo, shift.at)) = Len(rxfifo) + 1
      BY <3>1, AppendProperties DEF HwTypeOK
    <3>3. rxfifo' \in Seq(Position) /\ Len(rxfifo') <= RxDepth
      BY <2>2, <3>2, DepthAssumption, LenProperties DEF Acknowledged, HwTypeOK
    <3> QED
      BY <1>0, <1>2, <2>2, <3>1, <3>3 DEF Hardware, HwStep, Acknowledged, HwTypeOK
  <2>3. CASE NotAcknowledged
    BY <1>0, <1>2, <2>3, DepthAssumption DEF Hardware, HwStep, NotAcknowledged, HwTypeOK
  <2>4. CASE StopCondition \/ StopOnEmpty \/ Settle
    BY <1>0, <1>2, <2>4 DEF Hardware, HwStep, StopCondition, StopOnEmpty, Settle, HwTypeOK
  <2> QED
    BY <1>2, <2>1, <2>2, <2>3, <2>4 DEF Hardware, HwStep
<1>3. ASSUME NEW c \in Clients, Setup(c) PROVE HwTypeOK'
  BY <1>0, <1>3 DEF Setup, HwTypeOK
<1>4. ASSUME NEW c \in Clients, Reprogram(c) PROVE HwTypeOK'
  <2>1. tar' \in Nat
    BY <1>4, MessageAt DEF Reprogram, Target, BusTypeOK, HwTypeOK
  <2> QED
    BY <1>4, <2>1, DisabledTyped DEF Reprogram, HwTypeOK
<1>5. ASSUME NEW c \in Clients, Enable(c) \/ Unmask(c) PROVE HwTypeOK'
  BY <1>5 DEF Enable, Unmask, HwTypeOK, DefaultMask
<1>6. ASSUME NEW c \in Clients, NEW from, NEW result, Leave(c, from, result) PROVE HwTypeOK'
  BY <1>6, DisabledTyped DEF Leave, HwTypeOK
<1>7. CASE PowerOff \/ PowerOn
  BY <1>7, DisabledTyped DEF PowerOff, PowerOn, HwTypeOK
<1>8. CASE ReadClear
  BY <1>8 DEF ReadClear, HwTypeOK, Interrupts
<1>9. CASE RxByte
  <2>1. rxfifo' \in Seq(Position) /\ Len(rxfifo') <= RxDepth
    BY <1>9, HeadTailProperties, LenProperties, DepthAssumption DEF RxByte, HwTypeOK
  <2> QED
    BY <1>9, <2>1 DEF RxByte, HwTypeOK
<1>10. CASE TxPush
  <2>1. msgs[widx].rd \in BOOLEAN /\ msgs[widx].len \in Nat
    BY <1>10, MessageAt DEF TxPush, Handler, HandlerTypeOK, BusTypeOK
  <2>2. NextCommand \in Command
    BY <2>1 DEF NextCommand, Command, Position, BusTypeOK, HandlerTypeOK
  <2> QED
    BY <1>10, <2>2, PushedTyped DEF TxPush, HwTypeOK
<1>11. CASE TxSetMask
  BY <1>11 DEF TxSetMask, TxMask, DefaultMask, HwTypeOK, Interrupts
<1>12. CASE RestoreMask
  BY <1>12 DEF RestoreMask, HwTypeOK, HandlerTypeOK
<1>13. ASSUME NEW c \in Clients,
             Call(c) \/ Lock(c) \/ RefuseBusy(c) \/ Sleep(c) \/ Unlock(c) \/ Deadline(c) \/ Signal(c)
       PROVE HwTypeOK'
  BY <1>1, <1>13 DEF Call, Lock, RefuseBusy, Sleep, Unlock, Deadline, Signal
<1>14. CASE \/ StopInterrupt \/ HandlerEnter
            \/ RxEnd \/ RxSkipWrite \/ RxBegin \/ RxPause \/ RxMessageDone
            \/ TxSkip \/ TxEnter \/ TxBadMessage \/ TxBegin \/ TxPause \/ TxMessageDone \/ TxEnd
            \/ Wakeup \/ HandlerReturn \/ ReadMask
  BY <1>1, <1>14 DEF StopInterrupt, HandlerEnter, RxEnd, RxSkipWrite, RxBegin, RxPause,
     RxMessageDone, TxSkip, TxEnter, TxBadMessage, TxBegin, TxPause, TxMessageDone, TxEnd,
     Wakeup, HandlerReturn, ReadMask
<1>15. CASE UNCHANGED vars
  BY <1>1, <1>15 DEF vars
<1> QED
  BY <1>2, <1>3, <1>4, <1>5, <1>6, <1>7, <1>8, <1>9, <1>10, <1>11, <1>12, <1>13, <1>14, <1>15
     DEF Next, Thread, Proceed, Finish, TimedOut, Power, HandlerStep

(* The fields of bus_device the handler works on. *)
LEMMA BusTyped == TypeOK /\ [Next]_vars => BusTypeOK'
<1> SUFFICES ASSUME TypeOK, [Next]_vars PROVE BusTypeOK'
  OBVIOUS
<1> USE DEF TypeOK
<1>1. CASE UNCHANGED busVars
  BY <1>1 DEF BusTypeOK, busVars
<1>2. ASSUME NEW c \in Clients, Setup(c) PROVE BusTypeOK'
  <2>1. msgs' \in Transfer \cup {<< >>}
    BY <1>2 DEF Setup, ThreadTypeOK
  <2>2. merr' \in BOOLEAN /\ cerr' \in BOOLEAN /\ wip' \in BOOLEAN /\ rip' \in BOOLEAN
    BY <1>2, Zenon DEF Setup
  <2>3. /\ widx' \in Nat \ {0} /\ ridx' \in Nat \ {0}
        /\ tlen' \in Nat /\ rlen' \in Nat /\ outst' \in Int
    BY <1>2 DEF Setup, BusTypeOK
  <2> QED
    BY <2>1, <2>2, <2>3 DEF BusTypeOK
<1>3. CASE ReadClear
  <2>1. cerr' \in BOOLEAN /\ wip' \in BOOLEAN /\ rip' \in BOOLEAN
    BY <1>3, Zenon DEF ReadClear, BusTypeOK
  <2>2. outst' \in Int
    BY <1>3 DEF ReadClear, BusTypeOK
  <2> QED
    BY <1>3, <2>1, <2>2 DEF ReadClear, BusTypeOK
<1>4. CASE RxSkipWrite \/ RxByte
  BY <1>4 DEF RxSkipWrite, RxByte, BusTypeOK
<1>5. CASE RxPause \/ RxMessageDone
  <2>1. rip' \in BOOLEAN
    BY <1>5, Zenon DEF RxPause, RxMessageDone
  <2>2. rlen' \in Nat /\ ridx' \in Nat \ {0}
    BY <1>5 DEF RxPause, RxMessageDone, BusTypeOK, HandlerTypeOK
  <2> QED
    BY <1>5, <2>1, <2>2 DEF RxPause, RxMessageDone, BusTypeOK
<1>9. CASE TxBadMessage \/ TxPush
  <2>1. merr' \in BOOLEAN
    BY <1>9, Zenon DEF TxBadMessage, TxPush, BusTypeOK
  <2>2. outst' \in Int
    BY <1>9 DEF TxBadMessage, TxPush, BusTypeOK
  <2> QED
    BY <1>9, <2>1, <2>2 DEF TxBadMessage, TxPush, BusTypeOK
<1>10. CASE TxPause \/ TxMessageDone
  <2>1. wip' \in BOOLEAN
    BY <1>10, Zenon DEF TxPause, TxMessageDone
  <2>2. tlen' \in Nat /\ widx' \in Nat \ {0}
    BY <1>10 DEF TxPause, TxMessageDone, BusTypeOK, HandlerTypeOK
  <2> QED
    BY <1>10, <2>1, <2>2 DEF TxPause, TxMessageDone, BusTypeOK
<1>6. ASSUME NEW c \in Clients,
             \/ Call(c) \/ Lock(c) \/ RefuseBusy(c) \/ Reprogram(c) \/ Enable(c) \/ Unmask(c)
             \/ Sleep(c) \/ Finish(c) \/ TimedOut(c) \/ Unlock(c) \/ Deadline(c) \/ Signal(c)
      PROVE BusTypeOK'
  BY <1>1, <1>6 DEF Call, Lock, RefuseBusy, Reprogram, Enable, Unmask, Sleep, Finish, TimedOut,
     Leave, Unlock, Deadline, Signal
<1>7. CASE \/ Hardware \/ PowerOff \/ StopInterrupt \/ PowerOn \/ HandlerEnter
           \/ RxEnd \/ RxBegin \/ TxSkip \/ TxEnter \/ TxBegin \/ TxEnd \/ TxSetMask
           \/ Wakeup \/ HandlerReturn \/ ReadMask \/ RestoreMask
  BY <1>1, <1>7 DEF Hardware, PowerOff, StopInterrupt, PowerOn, HandlerEnter, RxEnd, RxBegin,
     TxSkip, TxEnter, TxBegin, TxEnd, TxSetMask, Wakeup, HandlerReturn, ReadMask, RestoreMask
<1>8. CASE UNCHANGED vars
  BY <1>1, <1>8 DEF vars
<1> QED
  BY <1>2, <1>3, <1>4, <1>5, <1>6, <1>7, <1>8, <1>9, <1>10
     DEF Next, Thread, Proceed, Power, HandlerStep

(* The threads: the lock, the program counters, and power management. *)
LEMMA ThreadTyped == TypeOK /\ [Next]_vars => ThreadTypeOK'
<1> SUFFICES ASSUME TypeOK, [Next]_vars PROVE ThreadTypeOK'
  OBVIOUS
<1> USE DEF TypeOK
<1>1. CASE UNCHANGED <<threadVars, powerVars>>
  BY <1>1 DEF ThreadTypeOK, threadVars, powerVars
<1>2. ASSUME NEW c \in Clients, Call(c) PROVE ThreadTypeOK'
  BY <1>2, RequestAssumption DEF Call, Goto, powerVars, ThreadTypeOK, ThreadPC
<1>3. ASSUME NEW c \in Clients, Lock(c) PROVE ThreadTypeOK'
  BY <1>3 DEF Lock, Goto, powerVars, ThreadTypeOK, ThreadPC
<1>4. ASSUME NEW c \in Clients, RefuseBusy(c) PROVE ThreadTypeOK'
  BY <1>4 DEF RefuseBusy, Goto, powerVars, ThreadTypeOK, ThreadPC, Result
<1>5. ASSUME NEW c \in Clients, Unlock(c) PROVE ThreadTypeOK'
  BY <1>5 DEF Unlock, Goto, powerVars, ThreadTypeOK, ThreadPC, Result
<1>6. ASSUME NEW c \in Clients,
             \/ Setup(c) \/ Reprogram(c) \/ Enable(c) \/ Unmask(c) \/ Sleep(c)
             \/ Deadline(c) \/ Signal(c)
      PROVE ThreadTypeOK'
  <2>1. /\ UNCHANGED <<lock, req, ret, powerVars>>
        /\ pc[c] # "idle"
        /\ \E to \in ThreadPC : pc' = [pc EXCEPT ![c] = to]
    BY <1>6 DEF Setup, Reprogram, Enable, Unmask, Sleep, Deadline, Signal, Goto, ThreadPC
  <2> QED
    BY <2>1 DEF powerVars, ThreadTypeOK
<1>7. ASSUME NEW c \in Clients, Finish(c) \/ TimedOut(c) PROVE ThreadTypeOK'
  <2>1. Outcome \in Result /\ "Timeout" \in Result
    BY DEF Outcome, Result
  <2> QED
    BY <1>7, <2>1 DEF Finish, TimedOut, Leave, Goto, powerVars, ThreadTypeOK, ThreadPC
<1>8. CASE PowerOff \/ StopInterrupt \/ PowerOn
  BY <1>8 DEF PowerOff, StopInterrupt, PowerOn, threadVars, ThreadTypeOK
<1>9. CASE Wakeup
  BY <1>9 DEF Wakeup, powerVars, ThreadTypeOK, ThreadPC
<1>10. CASE \/ Hardware \/ HandlerEnter \/ ReadClear
            \/ RxEnd \/ RxSkipWrite \/ RxBegin \/ RxByte \/ RxPause \/ RxMessageDone
            \/ TxSkip \/ TxEnter \/ TxBadMessage \/ TxBegin \/ TxPush \/ TxPause
            \/ TxMessageDone \/ TxEnd \/ TxSetMask \/ HandlerReturn \/ ReadMask \/ RestoreMask
  BY <1>1, <1>10 DEF Hardware, HandlerEnter, ReadClear, RxEnd, RxSkipWrite, RxBegin, RxByte,
     RxPause, RxMessageDone, TxSkip, TxEnter, TxBadMessage, TxBegin, TxPush, TxPause,
     TxMessageDone, TxEnd, TxSetMask, HandlerReturn, ReadMask, RestoreMask
<1>11. CASE UNCHANGED vars
  BY <1>1, <1>11 DEF vars
<1> QED
  BY <1>2, <1>3, <1>4, <1>5, <1>6, <1>7, <1>8, <1>9, <1>10, <1>11
     DEF Next, Thread, Proceed, Power, HandlerStep

(* The handler: its program counter, its locals, and the messages it is working on. *)
LEMMA HandlerTyped == TypeOK /\ [Next]_vars => HandlerTypeOK'
<1> SUFFICES ASSUME TypeOK, [Next]_vars PROVE HandlerTypeOK'
  OBVIOUS
<1> USE DEF TypeOK
<1>1. CASE UNCHANGED <<busVars, h, localVars, woke>>
  BY <1>1 DEF HandlerTypeOK, busVars, localVars
<1>2. ASSUME NEW c \in Clients, Setup(c) PROVE HandlerTypeOK'
  <2>1. Len(msgs') >= 1
    BY <1>2, EmptySeq, LenProperties DEF Setup, Goto, ThreadTypeOK, Transfer
  <2> QED
    BY <1>2, <2>1, Zenon, SMT DEF Setup, localVars, HandlerTypeOK
<1>3. CASE HandlerEnter
  BY <1>3 DEF HandlerEnter, Handler, busVars, localVars, HandlerTypeOK, HandlerPC
<1>4. CASE ReadClear
  BY <1>4 DEF ReadClear, Handler, HandlerTypeOK, HandlerPC, Raw, HwTypeOK
<1>5. CASE RxEnd \/ RxSkipWrite \/ RxPause \/ RxMessageDone
  BY <1>5 DEF RxEnd, RxSkipWrite, RxPause, RxMessageDone, Handler, busVars, localVars,
     HandlerTypeOK, HandlerPC
<1>6. CASE RxBegin
  <2>1. ridx <= Len(msgs) /\ ReadLength \in Nat
    BY <1>6, MessageAt DEF RxBegin, ReadLength, BusTypeOK
  <2>2. Len(rxfifo) \in Nat
    BY LenProperties DEF HwTypeOK
  <2> QED
    BY <1>6, <2>1, <2>2 DEF RxBegin, Handler, busVars, HandlerTypeOK, HandlerPC
<1>7. CASE RxByte
  BY <1>7 DEF RxByte, Handler, HandlerTypeOK, HandlerPC
<1>8. CASE TxSkip \/ TxBadMessage \/ TxEnd \/ TxSetMask
  BY <1>8 DEF TxSkip, TxBadMessage, TxEnd, TxSetMask, Handler, busVars, localVars,
     HandlerTypeOK, HandlerPC
<1>9. CASE TxEnter
  <2>1. addr' \in Nat
    BY <1>9, MessageAt DEF TxEnter, HandlerTypeOK, BusTypeOK
  <2> QED
    BY <1>9, <2>1 DEF TxEnter, Handler, busVars, HandlerTypeOK, HandlerPC, BusTypeOK
<1>10. CASE TxBegin
  <2>1. widx <= Len(msgs) /\ WriteLength \in Nat
    BY <1>10, MessageAt DEF TxBegin, WriteLength, BusTypeOK, HandlerTypeOK
  <2>2. tlim' \in Nat /\ rlim' \in Nat
    BY <1>10, LenProperties, DepthAssumption DEF TxBegin, HwTypeOK
  <2>3. restart' \in BOOLEAN
    BY <1>10, Zenon DEF TxBegin
  <2> QED
    BY <1>10, <2>1, <2>2, <2>3 DEF TxBegin, Handler, busVars, HandlerTypeOK, HandlerPC
<1>11. CASE TxPush
  <2>1. left' \in Nat /\ tlim' \in Nat /\ rlim' \in Nat
    BY <1>11 DEF TxPush, MayPush, HandlerTypeOK
  <2> QED
    BY <1>11, <2>1 DEF TxPush, Handler, HandlerTypeOK, HandlerPC
<1>12. CASE TxPause \/ TxMessageDone
  BY <1>12 DEF TxPause, TxMessageDone, Handler, localVars, HandlerTypeOK, HandlerPC
<1>13. CASE Wakeup \/ HandlerReturn \/ RestoreMask
  <2>1. woke' \in BOOLEAN /\ restart' \in BOOLEAN
    BY <1>13, Zenon DEF Wakeup, HandlerReturn, RestoreMask, ForgetLocals, HandlerTypeOK
  <2>2. h' = "idle" /\ ForgetLocals
    BY <1>13 DEF Wakeup, HandlerReturn, RestoreMask, Handler
  <2> QED
    BY <2>1, <2>2 DEF ForgetLocals, HandlerTypeOK, HandlerPC
<1>14. CASE ReadMask
  BY <1>14 DEF ReadMask, Handler, busVars, HandlerTypeOK, HandlerPC, HwTypeOK
<1>15. ASSUME NEW c \in Clients,
             \/ Call(c) \/ Lock(c) \/ RefuseBusy(c) \/ Reprogram(c) \/ Enable(c) \/ Unmask(c)
             \/ Sleep(c) \/ Finish(c) \/ TimedOut(c) \/ Unlock(c) \/ Deadline(c) \/ Signal(c)
       PROVE HandlerTypeOK'
  BY <1>1, <1>15 DEF Call, Lock, RefuseBusy, Reprogram, Enable, Unmask, Sleep, Finish, TimedOut,
     Leave, Unlock, Deadline, Signal
<1>16. CASE Hardware \/ PowerOff \/ StopInterrupt \/ PowerOn
  BY <1>1, <1>16 DEF Hardware, PowerOff, StopInterrupt, PowerOn
<1>17. CASE UNCHANGED vars
  BY <1>1, <1>17 DEF vars
<1> QED
  BY <1>2, <1>3, <1>4, <1>5, <1>6, <1>7, <1>8, <1>9, <1>10, <1>11, <1>12, <1>13, <1>14, <1>15,
     <1>16, <1>17 DEF Next, Thread, Proceed, Power, HandlerStep

(* The type invariant of the driver and of the block it programs: in particular the FIFO
   levels stay within the depths, so the limits transferMessageToBus computes from them
   never wrap, and readFromBus and transferMessageToBus index only existing messages. *)
THEOREM TypeCorrect == Spec => []TypeOK
<1>1. TypeOK /\ [Next]_vars => TypeOK'
  BY HwTyped, BusTyped, ThreadTyped, HandlerTyped DEF TypeOK
<1> QED
  BY InitTyped, <1>1, PTL DEF Spec

-----------------------------------------------------------------------------
(* Who may touch the block: the lock, and what it protects. *)

Unlocked == {"idle", "locking"}

(* The lock's holder is the only client past IOLockLock. *)
Owned ==
  /\ \A c \in Clients : pc[c] \notin Unlocked <=> lock = c
  /\ pm # "idle" <=> lock = PM

(* The block is enabled only for a client in its transfer. *)
EnabledForOwner == enable => \E c \in Clients : pc[c] \in Programmed

(* A disabled block has nothing in its FIFOs. *)
DisabledIsEmpty == ~enable => txfifo = << >> /\ rxfifo = << >>

Locking == Owned /\ EnabledForOwner /\ DisabledIsEmpty /\ AsleepIsQuiet

(* A handler that is running runs for a client in its transfer. *)
HandlerHasOwner == h # "idle" => \E c \in Clients : pc[c] \in Programmed

(* Interrupt handlers are not overtaken by threads. *)
Unhurried == \A e \in Envs : ~e.lateirq

-----------------------------------------------------------------------------
(* How many bytes are on their way to the receive FIFO. *)

IsRead(command) == IF command.rd THEN 1 ELSE 0

(* Of the commands in q at most n are reads: count[i] of the first i are. *)
ReadsAtMost(q, n) ==
  \E count \in [0..Len(q) -> 0..Len(q)] :
    /\ count[0] = 0
    /\ \A i \in 1..Len(q) : count[i] = count[i - 1] + IsRead(q[i])
    /\ \A i, j \in 0..Len(q) : i <= j => 0 <= count[j] - count[i] /\ count[j] - count[i] <= j - i
    /\ count[Len(q)] <= n

BeingRead == IF bus = "byte" /\ shift.rd THEN 1 ELSE 0

Unread == outst - BeingRead - Len(rxfifo)

(* receive_outstanding counts every read command in the transmit FIFO, the byte being read,
   and the bytes in the receive FIFO; and they all fit in the receive FIFO. *)
Accounted ==
  /\ outst <= RxDepth
  /\ ReadsAtMost(txfifo, Unread)

(* No interrupt is unmasked, and the handler, if it runs, finds nothing to do. *)
Quiet ==
  /\ mask = {}
  /\ h \in {"idle", "clear", "rx", "tx", "wake", "remask"}
  /\ h \in {"rx", "tx", "remask"} => stat = {}

(* After an abort nothing is on its way any more. *)
Aborted == Quiet /\ txfifo = << >> /\ bus # "byte" /\ outst = 0

AccountInv == enable => IF cerr THEN Aborted ELSE Accounted

AbortInv == abrt => txfifo = << >> /\ bus # "byte"

LimitInv ==
  /\ h = "rxbyte" => valid <= Len(rxfifo)
  /\ h = "push" => Len(txfifo) + tlim <= TxDepth /\ rlim <= RxDepth

(* The fields and registers while requestTransferI2C is at work. *)
RequestInv ==
  \A c \in Clients :
    /\ pc[c] \in {"request", "enable"} => ~cerr /\ outst = 0 /\ bus = "idle"
    /\ pc[c] = "enable" => mask = {}
    /\ pc[c] = "unmask" => ~cerr /\ Quiet

FifoInv == AccountInv /\ AbortInv /\ LimitInv /\ RequestInv

-----------------------------------------------------------------------------
(* Counting the reads in the transmit FIFO. *)

(* An empty transmit FIFO holds no reads. *)
LEMMA ReadsOfEmpty == ASSUME NEW n \in Nat PROVE ReadsAtMost(<< >>, n)
<1> DEFINE count == [i \in 0..0 |-> 0]
<1>1. Len(<< >>) = 0
  BY EmptySeq
<1>2. count \in [0..0 -> 0..0] /\ count[0] = 0
  OBVIOUS
<1> HIDE DEF count
<1> QED
  BY <1>1, <1>2 DEF ReadsAtMost

(* A bound on the reads in the FIFO may be replaced by a larger one. *)
LEMMA ReadsWeaken ==
  ASSUME NEW q \in Seq(Command), NEW n \in Int, NEW m \in Int, n <= m, ReadsAtMost(q, n)
  PROVE  ReadsAtMost(q, m) /\ n >= 0
<1>1. Len(q) \in Nat
  BY LenProperties
<1>2. PICK count \in [0..Len(q) -> 0..Len(q)] :
        /\ count[0] = 0
        /\ \A i \in 1..Len(q) : count[i] = count[i - 1] + IsRead(q[i])
        /\ \A i, j \in 0..Len(q) : i <= j => 0 <= count[j] - count[i] /\ count[j] - count[i] <= j - i
        /\ count[Len(q)] <= n
  BY DEF ReadsAtMost
<1>3. /\ \A i \in 0..Len(q) : count[i] \in Int /\ 0 <= count[i] /\ count[i] <= Len(q)
       /\ Len(q) \in 0..Len(q)
  <2>1. \A i \in 0..Len(q) : count[i] \in 0..Len(q)
    BY <1>2
  <2> QED
    BY <1>1, <2>1
<1>4. n >= 0 /\ count[Len(q)] <= m
  BY <1>2, <1>3
<1> QED
  BY <1>2, <1>4 DEF ReadsAtMost

(* Pushing a command adds at most one read, and none when it is a write. *)
LEMMA ReadsOfAppend ==
  ASSUME NEW q \in Seq(Command), NEW command \in Command, NEW n \in Int, ReadsAtMost(q, n)
  PROVE  ReadsAtMost(Append(q, command), n + IsRead(command))
<1> DEFINE r == Append(q, command)
           k == IsRead(command)
<1>1. Len(q) \in Nat
  BY LenProperties
<1>2. k \in {0, 1}
  BY DEF IsRead
<1>3. /\ Len(r) = Len(q) + 1
      /\ \A i \in 1..Len(q) : r[i] = q[i]
      /\ r[Len(q) + 1] = command
  BY AppendProperties
<1>4. PICK count \in [0..Len(q) -> 0..Len(q)] :
        /\ count[0] = 0
        /\ \A i \in 1..Len(q) : count[i] = count[i - 1] + IsRead(q[i])
        /\ \A i, j \in 0..Len(q) : i <= j => 0 <= count[j] - count[i] /\ count[j] - count[i] <= j - i
        /\ count[Len(q)] <= n
  BY DEF ReadsAtMost
<1>11. /\ \A i \in 0..Len(q) : count[i] \in Int /\ 0 <= count[i] /\ count[i] <= Len(q)
       /\ Len(q) \in 0..Len(q)
  <2>1. \A i \in 0..Len(q) : count[i] \in 0..Len(q)
    BY <1>4
  <2> QED
    BY <1>1, <2>1
<1> DEFINE new == [i \in 0..(Len(q) + 1) |-> IF i <= Len(q) THEN count[i] ELSE count[Len(q)] + k]
<1> HIDE DEF k
<1>5. new \in [0..(Len(q) + 1) -> 0..(Len(q) + 1)]
  <2>1. ASSUME NEW i \in 0..(Len(q) + 1)
        PROVE  (IF i <= Len(q) THEN count[i] ELSE count[Len(q)] + k) \in 0..(Len(q) + 1)
    <3>1. i \in Nat /\ (i <= Len(q) => i \in 0..Len(q))
      BY <1>1
    <3> QED
      BY <1>1, <1>2, <1>11, <3>1
  <2> QED
    BY <2>1
<1>6. new[0] = 0 /\ new[Len(q) + 1] = count[Len(q)] + k
  BY <1>1, <1>4
<1>7. \A i \in 0..Len(q) : new[i] = count[i]
  BY <1>1
<1> HIDE DEF new, r
<1>8. \A i \in 1..(Len(q) + 1) : new[i] = new[i - 1] + IsRead(r[i])
  <2> TAKE i \in 1..(Len(q) + 1)
  <2>1. CASE i <= Len(q)
    <3>1. i \in 1..Len(q) /\ i \in 0..Len(q) /\ i - 1 \in 0..Len(q)
      BY <1>1, <2>1
    <3> QED
      BY <1>3, <1>4, <1>7, <3>1
  <2>2. CASE i = Len(q) + 1
    BY <1>1, <1>3, <1>6, <1>7, <2>2 DEF k
  <2> QED
    BY <1>1, <2>1, <2>2
<1>9. \A i, j \in 0..(Len(q) + 1) :
        i <= j => 0 <= new[j] - new[i] /\ new[j] - new[i] <= j - i
  <2> SUFFICES ASSUME NEW i \in 0..(Len(q) + 1), NEW j \in 0..(Len(q) + 1), i <= j
               PROVE  0 <= new[j] - new[i] /\ new[j] - new[i] <= j - i
    OBVIOUS
  <2>1. CASE j <= Len(q)
    <3>1. i \in 0..Len(q) /\ j \in 0..Len(q)
      BY <1>1, <2>1
    <3> QED
      BY <1>4, <1>7, <3>1
  <2>2. CASE j = Len(q) + 1 /\ i <= Len(q)
    <3>1. i \in 0..Len(q) /\ Len(q) \in 0..Len(q)
      BY <1>1, <2>2
    <3>2. 0 <= count[Len(q)] - count[i] /\ count[Len(q)] - count[i] <= Len(q) - i
      BY <1>1, <1>4, <3>1
    <3>3. new[i] = count[i] /\ new[j] = count[Len(q)] + k
      BY <1>6, <1>7, <2>2, <3>1
    <3>4. count[i] \in Int /\ count[Len(q)] \in Int
      BY <1>11, <3>1
    <3> QED
      BY <1>1, <1>2, <2>2, <3>2, <3>3, <3>4
  <2>3. CASE j = Len(q) + 1 /\ i = Len(q) + 1
    BY <1>1, <1>2, <1>6, <1>11, <2>3
  <2> QED
    BY <1>1, <2>1, <2>2, <2>3
<1>10. new[Len(q) + 1] <= n + k
  <2>1. count[Len(q)] <= n
    BY <1>4
  <2> QED
    BY <1>2, <1>6, <1>11, <2>1
<1> QED
  BY <1>3, <1>5, <1>6, <1>8, <1>9, <1>10 DEF ReadsAtMost, r, k

(* Shifting out a read leaves one read less behind. *)
LEMMA ReadsOfTail ==
  ASSUME NEW q \in Seq(Command), q # << >>, NEW n \in Int, ReadsAtMost(q, n)
  PROVE  ReadsAtMost(Tail(q), n - IsRead(Head(q)))
<1> DEFINE r == Tail(q)
           k == IsRead(Head(q))
           L == Len(q) - 1
<1>1. Len(q) \in Nat /\ L \in Nat /\ Len(r) = L
  BY HeadTailProperties, LenProperties, EmptySeq
<1>2. k \in {0, 1} /\ k = IsRead(q[1])
  BY HeadTailProperties DEF IsRead
<1>3. \A i \in 1..L : r[i] = q[i + 1]
  BY HeadTailProperties, <1>1
<1>4. PICK count \in [0..Len(q) -> 0..Len(q)] :
        /\ count[0] = 0
        /\ \A i \in 1..Len(q) : count[i] = count[i - 1] + IsRead(q[i])
        /\ \A i, j \in 0..Len(q) : i <= j => 0 <= count[j] - count[i] /\ count[j] - count[i] <= j - i
        /\ count[Len(q)] <= n
  BY DEF ReadsAtMost
<1>11. /\ \A i \in 0..Len(q) : count[i] \in Int /\ 0 <= count[i] /\ count[i] <= Len(q)
       /\ Len(q) \in 0..Len(q)
  <2>1. \A i \in 0..Len(q) : count[i] \in 0..Len(q)
    BY <1>4
  <2> QED
    BY <1>1, <2>1
<1>5. count[1] = k
  BY <1>1, <1>2, <1>4
<1> DEFINE new == [i \in 0..L |-> count[i + 1] - k]
<1> HIDE DEF k, r
<1>6. \A i \in 0..L :
        /\ new[i] = count[i + 1] - k
        /\ i + 1 \in 0..Len(q) /\ count[i + 1] \in Int
        /\ 0 <= count[i + 1] - k /\ count[i + 1] - k <= i
  <2> TAKE i \in 0..L
  <2>1. i + 1 \in 0..Len(q) /\ 1 \in 0..Len(q) /\ 1 <= i + 1
    BY <1>1
  <2>2. 0 <= count[i + 1] - count[1] /\ count[i + 1] - count[1] <= (i + 1) - 1
    BY <1>4, <2>1
  <2> QED
    BY <1>1, <1>2, <1>5, <1>11, <2>1, <2>2
<1> HIDE DEF new
<1>7. \A i \in 1..L : new[i] = new[i - 1] + IsRead(r[i])
  <2> TAKE i \in 1..L
  <2>1. i \in 0..L /\ i - 1 \in 0..L /\ i + 1 \in 1..Len(q)
    BY <1>1
  <2>2. count[i + 1] = count[i] + IsRead(q[i + 1])
    BY <1>1, <1>4, <2>1
  <2>3. new[i] = count[i + 1] - k /\ new[i - 1] = count[i] - k /\ count[i] \in Int
    BY <1>1, <1>6, <2>1
  <2> QED
    BY <1>2, <1>3, <2>2, <2>3 DEF IsRead
<1>8. \A i, j \in 0..L : i <= j => 0 <= new[j] - new[i] /\ new[j] - new[i] <= j - i
  <2> SUFFICES ASSUME NEW i \in 0..L, NEW j \in 0..L, i <= j
               PROVE  0 <= new[j] - new[i] /\ new[j] - new[i] <= j - i
    OBVIOUS
  <2>1. i + 1 \in 0..Len(q) /\ j + 1 \in 0..Len(q) /\ i + 1 <= j + 1
    BY <1>1
  <2>2. /\ 0 <= count[j + 1] - count[i + 1]
        /\ count[j + 1] - count[i + 1] <= (j + 1) - (i + 1)
    BY <1>4, <2>1
  <2> QED
    BY <1>1, <1>2, <1>6, <2>2
<1>9. new[0] = 0 /\ new[L] <= n - k
  <2>1. 0 \in 0..L /\ L \in 0..L /\ L + 1 = Len(q)
    BY <1>1
  <2>2. count[Len(q)] <= n /\ count[Len(q)] \in Int
    BY <1>4, <1>11
  <2>3. new[0] = count[1] - k /\ new[L] = count[Len(q)] - k
    BY <1>6, <2>1
  <2> QED
    BY <1>2, <1>5, <2>2, <2>3
<1>10. new \in [0..L -> 0..L]
  <2>1. \A i \in 0..L : new[i] \in 0..L
    BY <1>1, <1>2, <1>6
  <2> QED
    BY <2>1 DEF new
<1> QED
  BY <1>1, <1>7, <1>8, <1>9, <1>10 DEF ReadsAtMost, r, k

-----------------------------------------------------------------------------
(* The lock. *)

(* Nobody holds the lock and the block is disabled when the driver starts. *)
LEMMA InitLocking == Init => Locking
  BY ActorAssumption DEF Init, HwInit, Locking, Owned, Unlocked, EnabledForOwner,
     DisabledIsEmpty, AsleepIsQuiet, InTransfer

(* Who holds the lock changes only where it is taken and released. *)
LEMMA NextOwned == TypeOK /\ Locking /\ [Next]_vars => Owned'
<1> SUFFICES ASSUME TypeOK, Locking, [Next]_vars PROVE Owned'
  OBVIOUS
<1> USE ActorAssumption DEF TypeOK, ThreadTypeOK, Locking, Owned, Unlocked
<1>1. CASE UNCHANGED <<lock, pc, pm>>
  BY <1>1
<1>2. ASSUME NEW c \in Clients, Call(c) \/ Lock(c) \/ Unlock(c) PROVE Owned'
  BY <1>2 DEF Call, Lock, Unlock, Goto, powerVars
<1>3. ASSUME NEW c \in Clients,
             \/ RefuseBusy(c) \/ Setup(c) \/ Reprogram(c) \/ Enable(c) \/ Unmask(c) \/ Sleep(c)
             \/ Deadline(c) \/ Signal(c) \/ Finish(c) \/ TimedOut(c)
      PROVE Owned'
  <2>1. /\ UNCHANGED <<lock, pm>>
        /\ pc[c] \notin Unlocked
        /\ \E to \in ThreadPC \ Unlocked : pc' = [pc EXCEPT ![c] = to]
    BY <1>3 DEF RefuseBusy, Setup, Reprogram, Enable, Unmask, Sleep, Deadline, Signal,
       Finish, TimedOut, Leave, Goto, powerVars, ThreadPC
  <2> QED
    BY <2>1
<1>4. CASE PowerOff \/ StopInterrupt \/ PowerOn
  BY <1>4 DEF PowerOff, StopInterrupt, PowerOn, threadVars
<1>5. CASE Wakeup
  BY <1>5 DEF Wakeup, powerVars
<1>6. CASE \/ Hardware \/ HandlerEnter \/ ReadClear
           \/ RxEnd \/ RxSkipWrite \/ RxBegin \/ RxByte \/ RxPause \/ RxMessageDone
           \/ TxSkip \/ TxEnter \/ TxBadMessage \/ TxBegin \/ TxPush \/ TxPause
           \/ TxMessageDone \/ TxEnd \/ TxSetMask \/ HandlerReturn \/ ReadMask \/ RestoreMask
  BY <1>1, <1>6 DEF Hardware, HandlerEnter, ReadClear, RxEnd, RxSkipWrite, RxBegin, RxByte,
     RxPause, RxMessageDone, TxSkip, TxEnter, TxBadMessage, TxBegin, TxPush, TxPause,
     TxMessageDone, TxEnd, TxSetMask, HandlerReturn, ReadMask, RestoreMask, threadVars, powerVars
<1>7. CASE UNCHANGED vars
  BY <1>1, <1>7 DEF vars, threadVars, powerVars
<1> QED
  BY <1>2, <1>3, <1>4, <1>5, <1>6, <1>7 DEF Next, Thread, Proceed, Power, HandlerStep

(* The block is enabled only in Enable, and only the handler of an enabled block and the
   block itself fill its FIFOs. *)
LEMMA NextEnabled ==
  TypeOK /\ Locking /\ [Next]_vars => (EnabledForOwner /\ DisabledIsEmpty /\ AsleepIsQuiet)'
<1> SUFFICES ASSUME TypeOK, Locking, [Next]_vars
             PROVE  (EnabledForOwner /\ DisabledIsEmpty /\ AsleepIsQuiet)'
  OBVIOUS
<1> USE DEF TypeOK, ThreadTypeOK, Locking, EnabledForOwner, DisabledIsEmpty, AsleepIsQuiet,
            InTransfer, Programmed
<1>1. CASE UNCHANGED <<enable, txfifo, rxfifo, awake, pc>>
  BY <1>1
<1>2. CASE Hardware
  BY <1>2 DEF Hardware, HwStep, StartByte, Acknowledged, NotAcknowledged, StopCondition,
     StopOnEmpty, Settle, threadVars, powerVars
<1>3. ASSUME NEW c \in Clients, Call(c) \/ Lock(c) \/ RefuseBusy(c) \/ Unlock(c)
      PROVE  (EnabledForOwner /\ DisabledIsEmpty /\ AsleepIsQuiet)'
  <2>1. /\ UNCHANGED <<enable, txfifo, rxfifo, awake>>
        /\ pc[c] \notin InTransfer
        /\ \E to \in ThreadPC \ InTransfer : pc' = [pc EXCEPT ![c] = to]
    BY <1>3 DEF Call, Lock, RefuseBusy, Unlock, Goto, hwVars, powerVars, ThreadPC
  <2> QED
    BY <2>1
<1>4. ASSUME NEW c \in Clients, Setup(c)
      PROVE  (EnabledForOwner /\ DisabledIsEmpty /\ AsleepIsQuiet)'
  BY <1>4 DEF Setup, Goto, powerVars
<1>5. ASSUME NEW c \in Clients, Reprogram(c)
      PROVE  (EnabledForOwner /\ DisabledIsEmpty /\ AsleepIsQuiet)'
  BY <1>5 DEF Reprogram, Disabled, Goto, powerVars
<1>6. ASSUME NEW c \in Clients, Enable(c)
      PROVE  (EnabledForOwner /\ DisabledIsEmpty /\ AsleepIsQuiet)'
  BY <1>6 DEF Enable, Goto, powerVars
<1>7. ASSUME NEW c \in Clients, Unmask(c) \/ Sleep(c) \/ Deadline(c) \/ Signal(c)
      PROVE  (EnabledForOwner /\ DisabledIsEmpty /\ AsleepIsQuiet)'
  <2>1. /\ UNCHANGED <<enable, txfifo, rxfifo, awake>>
        /\ pc[c] \in Programmed
        /\ \E to \in Programmed : pc' = [pc EXCEPT ![c] = to]
    BY <1>7 DEF Unmask, Sleep, Deadline, Signal, Goto, hwVars, powerVars
  <2> QED
    BY <2>1
<1>8. ASSUME NEW c \in Clients, Finish(c) \/ TimedOut(c)
      PROVE  (EnabledForOwner /\ DisabledIsEmpty /\ AsleepIsQuiet)'
  BY <1>8 DEF Finish, TimedOut, Leave, Disabled, Goto, powerVars
<1>9. CASE PowerOff
  <2>1. \A c \in Clients : pc[c] \notin InTransfer
    BY <1>9, ActorAssumption DEF PowerOff, Owned, Unlocked
  <2> QED
    BY <1>9, <2>1 DEF PowerOff, Disabled
<1>10. CASE PowerOn
  BY <1>10 DEF PowerOn, Disabled, threadVars
<1>11. CASE StopInterrupt
  BY <1>1, <1>11 DEF StopInterrupt, hwVars
<1>12. CASE Wakeup
  BY <1>12 DEF Wakeup, hwVars, powerVars
<1>13. CASE RxByte \/ TxPush
  BY <1>13 DEF RxByte, TxPush, Pushed, threadVars, powerVars
<1>14. CASE \/ HandlerEnter \/ ReadClear
            \/ RxEnd \/ RxSkipWrite \/ RxBegin \/ RxPause \/ RxMessageDone
            \/ TxSkip \/ TxEnter \/ TxBadMessage \/ TxBegin \/ TxPause
            \/ TxMessageDone \/ TxEnd \/ TxSetMask \/ HandlerReturn \/ ReadMask \/ RestoreMask
  BY <1>1, <1>14 DEF HandlerEnter, ReadClear, RxEnd, RxSkipWrite, RxBegin,
     RxPause, RxMessageDone, TxSkip, TxEnter, TxBadMessage, TxBegin, TxPause,
     TxMessageDone, TxEnd, TxSetMask, HandlerReturn, ReadMask, RestoreMask,
     threadVars, powerVars, hwVars
<1>15. CASE UNCHANGED vars
  BY <1>1, <1>15 DEF vars, threadVars, powerVars, hwVars
<1> QED
  BY <1>2, <1>3, <1>4, <1>5, <1>6, <1>7, <1>8, <1>9, <1>10, <1>11, <1>12, <1>13, <1>14, <1>15
     DEF Next, Thread, Proceed, Power, HandlerStep

(* The locking discipline is an invariant in every environment. *)
LEMMA AlwaysLocking == Spec => [](TypeOK /\ Locking)
<1>1. TypeOK /\ Locking /\ [Next]_vars => Locking'
  BY NextOwned, NextEnabled DEF Locking
<1>2. TypeOK /\ [Next]_vars => TypeOK'
  BY HwTyped, BusTyped, ThreadTyped, HandlerTyped DEF TypeOK
<1> QED
  BY InitTyped, InitLocking, <1>1, <1>2, PTL DEF Spec

(* While the controller is asleep the block stays disabled and no client is in a transfer,
   in every environment: setPowerState takes i2c_bus_lock and transfers refuse when asleep. *)
THEOREM AsleepStaysQuiet == Spec => []AsleepIsQuiet
<1>1. Locking => AsleepIsQuiet
  BY DEF Locking
<1> QED
  BY AlwaysLocking, <1>1, PTL

-----------------------------------------------------------------------------
(* The handler and the transfer it works for, when handlers are not overtaken. *)

(* What holds of threads, handler and lock when handlers are not overtaken. *)
Settled == env \in Envs /\ TypeOK /\ Locking /\ HandlerHasOwner

(* The handler keeps its owner: a client cannot leave while the handler runs. *)
LEMMA NextServesOwner ==
  ASSUME ~env.lateirq, TypeOK, Locking, HandlerHasOwner, [Next]_vars
  PROVE  HandlerHasOwner'
<1> USE DEF TypeOK, ThreadTypeOK, HandlerHasOwner, Programmed, InTransfer
<1>0. ~env.lateirq
  OBVIOUS
<1>1. CASE UNCHANGED <<h, pc>>
  BY <1>1
<1>2. ASSUME NEW c \in Clients, Call(c) \/ Lock(c) \/ RefuseBusy(c) \/ Setup(c) \/ Reprogram(c) \/ Unlock(c)
      PROVE  HandlerHasOwner'
  <2>1. /\ UNCHANGED h
        /\ pc[c] \notin Programmed
        /\ \E to \in ThreadPC : pc' = [pc EXCEPT ![c] = to]
    BY <1>2 DEF Call, Lock, RefuseBusy, Setup, Reprogram, Unlock, Goto, ThreadPC
  <2> QED
    BY <2>1
<1>3. ASSUME NEW c \in Clients, Enable(c) \/ Unmask(c) \/ Sleep(c) \/ Deadline(c) \/ Signal(c)
      PROVE  HandlerHasOwner'
  BY <1>3 DEF Enable, Unmask, Sleep, Deadline, Signal, Goto
<1>4. ASSUME NEW c \in Clients, Finish(c) \/ TimedOut(c) PROVE HandlerHasOwner'
  BY <1>0, <1>4 DEF Finish, TimedOut, Leave, HandlerSettled
<1>5. CASE HandlerEnter
  BY <1>5 DEF HandlerEnter, Locking, EnabledForOwner, threadVars
<1>6. CASE Wakeup
  BY <1>6 DEF Wakeup, Handler
<1>7. CASE \/ ReadClear
           \/ RxEnd \/ RxSkipWrite \/ RxBegin \/ RxByte \/ RxPause \/ RxMessageDone
           \/ TxSkip \/ TxEnter \/ TxBadMessage \/ TxBegin \/ TxPush \/ TxPause
           \/ TxMessageDone \/ TxEnd \/ TxSetMask \/ HandlerReturn \/ ReadMask \/ RestoreMask
  <2>1. h # "idle" /\ UNCHANGED pc
    BY <1>7 DEF ReadClear, RxEnd, RxSkipWrite, RxBegin, RxByte, RxPause, RxMessageDone,
       TxSkip, TxEnter, TxBadMessage, TxBegin, TxPush, TxPause, TxMessageDone, TxEnd,
       TxSetMask, HandlerReturn, ReadMask, RestoreMask, Handler, threadVars
  <2> QED
    BY <2>1
<1>8. CASE Hardware \/ PowerOff \/ StopInterrupt \/ PowerOn
  BY <1>1, <1>8 DEF Hardware, PowerOff, StopInterrupt, PowerOn, threadVars
<1>9. CASE UNCHANGED vars
  BY <1>1, <1>9 DEF vars, threadVars
<1> QED
  BY <1>2, <1>3, <1>4, <1>5, <1>6, <1>7, <1>8, <1>9 DEF Next, Thread, Proceed, Power, HandlerStep

(* The environment is picked once. *)
LEMMA EnvironmentKept == [Next]_vars => env' = env
<1> SUFFICES ASSUME [Next]_vars PROVE env' = env
  OBVIOUS
<1>1. ASSUME NEW c \in Clients, Thread(c) PROVE env' = env
  BY <1>1 DEF Thread, Proceed, Call, Lock, RefuseBusy, Setup, Reprogram, Enable, Unmask, Sleep,
     Deadline, Signal, Finish, TimedOut, Leave, Unlock
<1>2. CASE Power \/ HandlerEnter \/ Hardware
  BY <1>2 DEF Power, PowerOff, StopInterrupt, PowerOn, HandlerEnter, Hardware, HwStep
<1>3. CASE HandlerStep
  BY <1>3 DEF HandlerStep, ReadClear, RxEnd, RxSkipWrite, RxBegin, RxByte, RxPause,
     RxMessageDone, TxSkip, TxEnter, TxBadMessage, TxBegin, TxPush, TxPause, TxMessageDone,
     TxEnd, TxSetMask, Wakeup, HandlerReturn, ReadMask, RestoreMask
<1>4. CASE UNCHANGED vars
  BY <1>4 DEF vars
<1> QED
  BY <1>1, <1>2, <1>3, <1>4 DEF Next

(* One step preserves the three together. *)
LEMMA NextSettled == ASSUME Unhurried, Settled, [Next]_vars PROVE Settled'
<1>1. TypeOK'
  BY HwTyped, BusTyped, ThreadTyped, HandlerTyped DEF Settled, TypeOK
<1>2. Locking'
  BY NextOwned, NextEnabled DEF Settled, Locking
<1>3. ~env.lateirq
  BY DEF Unhurried, Settled
<1>4. HandlerHasOwner' /\ env' \in Envs
  BY <1>3, NextServesOwner, EnvironmentKept DEF Settled
<1> QED
  BY <1>1, <1>2, <1>4 DEF Settled

(* Hence they hold in every reachable state when handlers are not overtaken. *)
LEMMA AlwaysSettled == ASSUME Unhurried PROVE Spec => []Settled
<1>1. Init => Settled
  BY InitTyped, InitLocking DEF Init, HwInit, Settled, HandlerHasOwner
<1>2. Settled /\ [Next]_vars => Settled'
  BY NextSettled
<1> QED
  BY <1>1, <1>2, PTL DEF Spec

(* In every environment, also where threads overtake a running handler: the block is enabled
   only for the call that holds i2c_bus_lock, so that no handler starts between two calls;
   and a handler that is not overtaken never works on bus_device after the call that set it
   up has returned or while the next one sets it up. *)
THEOREM HandlersServeHolder == Spec => []NoStaleHandler
<1> DEFINE Serves == ~env.lateirq => HandlerHasOwner
<1>1. Init => Serves
  BY DEF Init, HwInit, HandlerHasOwner
<1>2. TypeOK /\ Locking /\ Serves /\ [Next]_vars => Serves'
  BY NextServesOwner, EnvironmentKept
<1>3. TypeOK /\ Locking /\ Serves => NoStaleHandler
  <2> SUFFICES ASSUME TypeOK, Locking, Serves PROVE NoStaleHandler
    OBVIOUS
  <2>1. ASSUME enable PROVE lock \in Clients /\ pc[lock] \in Programmed
    <3>1. PICK c \in Clients : pc[c] \in Programmed
      BY <2>1 DEF Locking, EnabledForOwner
    <3>2. lock = c
      BY <3>1 DEF Locking, Owned, Unlocked, Programmed, InTransfer
    <3> QED
      BY <3>1, <3>2
  <2>2. ASSUME ~env.lateirq, h # "idle" PROVE \E c \in Clients : pc[c] \in Programmed
    BY <2>2 DEF HandlerHasOwner
  <2> QED
    BY <2>1, <2>2 DEF NoStaleHandler
<1> QED
  BY AlwaysLocking, <1>1, <1>2, <1>3, PTL DEF Spec

-----------------------------------------------------------------------------
(* The FIFOs are never overrun, when handlers are not overtaken. *)

(* With no client in its transfer, the block is disabled and the handler does not run. *)
LEMMA NothingProgrammed ==
  ASSUME Settled, \A c \in Clients : pc[c] \notin Programmed
  PROVE  ~enable /\ txfifo = << >> /\ rxfifo = << >> /\ h = "idle"
BY DEF Settled, Locking, EnabledForOwner, DisabledIsEmpty, HandlerHasOwner

(* A client past IOLockLock is the only one. *)
LEMMA OnlyOne ==
  ASSUME Settled, NEW c \in Clients, pc[c] \notin Unlocked,
         NEW d \in Clients, pc[d] \notin Unlocked
  PROVE  c = d
BY DEF Settled, Locking, Owned

(* So as long as that client has not programmed the block, the block and the handler rest. *)
LEMMA RestBeforeProgram ==
  ASSUME Settled, NEW c \in Clients, pc[c] \in {"prepare", "request", "enable", "unlock"}
  PROVE  ~enable /\ txfifo = << >> /\ rxfifo = << >> /\ h = "idle"
<1>1. ASSUME NEW d \in Clients PROVE pc[d] \notin Programmed
  BY OnlyOne DEF Unlocked, Programmed, InTransfer
<1> QED
  BY <1>1, NothingProgrammed

(* While the handler runs nobody is about to program the block. *)
LEMMA NobodyPrograms ==
  ASSUME Settled, h # "idle", NEW c \in Clients
  PROVE  pc[c] \notin {"prepare", "request", "enable", "unlock"}
BY RestBeforeProgram

(* The FIFO accounts balance at the start. *)
LEMMA InitFifo == Init => FifoInv
  BY DEF Init, HwInit, FifoInv, AccountInv, AbortInv, LimitInv, RequestInv

(* What the block does by itself. *)
LEMMA HardwareFifo == ASSUME Settled, FifoInv, Hardware PROVE FifoInv'
<1> USE DEF Settled, TypeOK
<1>1. UNCHANGED <<enable, cerr, outst, mask, h, stat, pc, valid, tlim, rlim>>
  BY DEF Hardware, HwStep, StartByte, Acknowledged, NotAcknowledged, StopCondition, StopOnEmpty,
     Settle, busVars, threadVars, localVars
<1>2. Len(txfifo) \in Nat /\ Len(rxfifo) \in Nat /\ outst \in Int /\ RxDepth \in Nat /\ TxDepth \in Nat
  BY LenProperties, DepthAssumption DEF HwTypeOK, BusTypeOK
<1>3. AbortInv'
  BY DEF Hardware, HwStep, StartByte, Acknowledged, NotAcknowledged, StopCondition, StopOnEmpty,
     Settle, FifoInv, AbortInv
<1>4. LimitInv'
  <2>1. txfifo # << >> => Len(Tail(txfifo)) <= Len(txfifo)
    BY HeadTailProperties, <1>2 DEF HwTypeOK
  <2>2. shift.at \in Position /\ Len(Append(rxfifo, shift.at)) >= Len(rxfifo)
    BY AppendProperties, <1>2 DEF HwTypeOK, Command
  <2>3. Len(txfifo') <= Len(txfifo) /\ Len(rxfifo') >= Len(rxfifo)
    BY <1>2, <2>1, <2>2, EmptySeq DEF Hardware, HwStep, StartByte, Acknowledged, NotAcknowledged,
       StopCondition, StopOnEmpty, Settle
  <2>4. Len(txfifo') \in Nat /\ Len(rxfifo') \in Nat
    BY HwTyped, LenProperties DEF Next, HwTypeOK
  <2> QED
    BY <1>1, <1>2, <2>3, <2>4 DEF FifoInv, LimitInv, HandlerTypeOK
<1>5. RequestInv'
  <2>1. ASSUME NEW c \in Clients, pc[c] \in {"request", "enable"}, bus = "idle" PROVE bus' = "idle"
    BY <2>1, RestBeforeProgram DEF Hardware, HwStep, StartByte, Acknowledged, NotAcknowledged,
       StopCondition, StopOnEmpty, Settle
  <2> QED
    BY <1>1, <2>1 DEF FifoInv, RequestInv, Quiet
<1>6. AccountInv'
  <2> SUFFICES ASSUME enable PROVE IF cerr THEN Aborted' ELSE Accounted'
    BY <1>1 DEF AccountInv
  <2>1. CASE cerr
    <3>1. Aborted
      BY <2>1 DEF FifoInv, AccountInv
    <3> QED
      BY <1>1, <2>1, <3>1 DEF Aborted, Quiet, Hardware, HwStep, StartByte, Acknowledged,
         NotAcknowledged, StopCondition, StopOnEmpty, Settle
  <2>2. CASE ~cerr
    <3>0. /\ Accounted /\ txfifo \in Seq(Command)
          /\ BeingRead \in {0, 1} /\ Unread \in Int /\ Unread >= 0
          /\ BeingRead + Len(rxfifo) <= RxDepth
      <4>1. Accounted /\ txfifo \in Seq(Command)
        BY <2>2 DEF FifoInv, AccountInv, HwTypeOK
      <4>2. BeingRead \in {0, 1} /\ Unread \in Int
        BY <1>2 DEF BeingRead, Unread
      <4>3. Unread >= 0
        BY <4>1, <4>2, ReadsWeaken DEF Accounted
      <4> QED
        BY <1>2, <4>1, <4>2, <4>3 DEF Accounted, Unread
    <3>1. CASE StartByte
      <4>1. ReadsAtMost(Tail(txfifo), Unread - IsRead(Head(txfifo)))
        BY <3>0, <3>1, ReadsOfTail DEF Accounted, StartByte
      <4>2. Unread' = Unread - IsRead(Head(txfifo)) /\ txfifo' = Tail(txfifo)
        BY <1>1, <1>2, <3>1 DEF StartByte, Unread, BeingRead, IsRead
      <4> QED
        BY <1>1, <2>2, <3>0, <4>1, <4>2 DEF Accounted
    <3>2. CASE Acknowledged
      <4>1. shift.rd => Len(rxfifo) < RxDepth
        BY <1>2, <3>0, <3>2 DEF Acknowledged, BeingRead
      <4>2. shift.at \in Position
        BY DEF HwTypeOK, Command
      <4>3. Len(rxfifo') = Len(rxfifo) + BeingRead
        BY <1>2, <3>2, <4>1, <4>2, AppendProperties DEF Acknowledged, BeingRead, HwTypeOK
      <4>4. BeingRead' = 0
        BY <3>2 DEF Acknowledged, BeingRead
      <4>5. Unread' = Unread
        BY <1>1, <1>2, <3>0, <4>3, <4>4 DEF Unread
      <4> QED
        BY <1>1, <2>2, <3>0, <3>2, <4>5 DEF Accounted, Acknowledged
    <3>3. CASE NotAcknowledged
      <4>1. BeingRead' = 0 /\ rxfifo' = rxfifo /\ txfifo' = << >>
        BY <3>3 DEF NotAcknowledged, BeingRead
      <4>2. Unread' \in Nat
        BY <1>1, <1>2, <3>0, <4>1 DEF Unread
      <4>3. ReadsAtMost(<< >>, Unread')
        BY <4>2, ReadsOfEmpty
      <4> QED
        BY <1>1, <2>2, <3>0, <4>1, <4>3 DEF Accounted
    <3>4. CASE StopCondition \/ StopOnEmpty
      <4>1. BeingRead' = BeingRead /\ rxfifo' = rxfifo /\ txfifo' = txfifo
        BY <3>4 DEF StopCondition, StopOnEmpty, BeingRead
      <4> QED
        BY <1>1, <2>2, <3>0, <4>1 DEF Accounted, Unread
    <3> QED
      BY <3>1, <3>2, <3>3, <3>4 DEF Hardware, HwStep, Settle
  <2> QED
    BY <2>1, <2>2
<1> QED
  BY <1>3, <1>4, <1>5, <1>6 DEF FifoInv

(* Client threads and power management. *)
LEMMA ThreadFifo ==
  ASSUME Unhurried, Settled, FifoInv, NEW c \in Clients, Thread(c)
  PROVE  FifoInv'
<1> USE DEF Settled, TypeOK, ThreadTypeOK
<1>0. ~env.lateirq
  BY DEF Unhurried
<1>1. ASSUME Call(c) \/ Lock(c) \/ RefuseBusy(c) \/ Sleep(c) \/ Deadline(c) \/ Signal(c) \/ Unlock(c)
      PROVE  FifoInv'
  <2>1. /\ UNCHANGED <<hwVars, busVars, h, localVars>>
        /\ \E to \in ThreadPC \ {"request", "enable", "unmask"} : pc' = [pc EXCEPT ![c] = to]
    BY <1>1 DEF Call, Lock, RefuseBusy, Sleep, Deadline, Signal, Unlock, Goto, ThreadPC
  <2>2. UNCHANGED <<AccountInv, AbortInv, LimitInv, Quiet>>
    BY <2>1 DEF AccountInv, AbortInv, LimitInv, Quiet, Aborted, Accounted, Unread, BeingRead,
       hwVars, busVars, localVars
  <2>3. RequestInv'
    BY <2>1, <2>2 DEF FifoInv, RequestInv, hwVars, busVars
  <2> QED
    BY <2>2, <2>3 DEF FifoInv
<1>2. ASSUME Setup(c) PROVE FifoInv'
  <2>1. ~enable /\ h = "idle" /\ pc[c] = "prepare" /\ bus = "idle"
    BY <1>2, RestBeforeProgram DEF Setup, Goto, Activity
  <2>2. AccountInv' /\ AbortInv' /\ LimitInv'
    BY <1>2, <2>1 DEF Setup, FifoInv, AccountInv, AbortInv, LimitInv
  <2>3. \A d \in Clients \ {c} : pc[d] \in Unlocked
    BY <2>1, OnlyOne DEF Unlocked
  <2>4. RequestInv'
    BY <1>2, <2>1, <2>3 DEF Setup, Goto, RequestInv, Unlocked
  <2> QED
    BY <2>2, <2>4 DEF FifoInv
<1>3. ASSUME Reprogram(c) PROVE FifoInv'
  <2>1. ~enable /\ h = "idle" /\ pc[c] = "request" /\ bus = "idle" /\ ~cerr /\ outst = 0
    BY <1>3, RestBeforeProgram DEF Reprogram, Goto, FifoInv, RequestInv
  <2>2. AccountInv' /\ AbortInv' /\ LimitInv'
    BY <1>3, <2>1 DEF Reprogram, Disabled, AccountInv, AbortInv, LimitInv
  <2>3. \A d \in Clients \ {c} : pc[d] \in Unlocked
    BY <2>1, OnlyOne DEF Unlocked
  <2>4. RequestInv'
    BY <1>3, <2>1, <2>3 DEF Reprogram, Disabled, Activity, Goto, RequestInv, Unlocked, busVars
  <2> QED
    BY <2>2, <2>4 DEF FifoInv
<1>4. ASSUME Enable(c) PROVE FifoInv'
  <2>1. /\ ~enable /\ h = "idle" /\ txfifo = << >> /\ rxfifo = << >>
        /\ pc[c] = "enable" /\ bus = "idle" /\ ~cerr /\ outst = 0 /\ mask = {}
    BY <1>4, RestBeforeProgram DEF Enable, Goto, FifoInv, RequestInv
  <2>2. UNCHANGED <<mask, txfifo, rxfifo, bus, shift, abrt, busVars, h, localVars>>
    BY <1>4 DEF Enable
  <2>3. AbortInv' /\ LimitInv'
    BY <2>1, <2>2 DEF AbortInv, LimitInv, FifoInv
  <2>4. Accounted'
    <3>1. bus' = "idle" /\ outst' = 0 /\ rxfifo' = << >> /\ txfifo' = << >>
      BY <2>1, <2>2 DEF busVars
    <3>2. BeingRead' = 0
      BY <3>1 DEF BeingRead
    <3>3. Len(rxfifo') = 0
      BY <3>1, EmptySeq
    <3>4. Unread' = 0
      <4>1. outst' = 0 /\ Unread' = outst' - BeingRead' - Len(rxfifo')
        BY <3>1 DEF Unread
      <4> QED
        BY <3>2, <3>3, <4>1
    <3> QED
      BY <3>1, <3>4, ReadsOfEmpty, DepthAssumption DEF Accounted
  <2>5. \A d \in Clients \ {c} : pc[d] \in Unlocked
    BY <2>1, OnlyOne DEF Unlocked
  <2>6. RequestInv'
    BY <1>4, <2>1, <2>2, <2>5 DEF Enable, Goto, RequestInv, Unlocked, Quiet, busVars
  <2> QED
    BY <2>1, <2>2, <2>3, <2>4, <2>6 DEF FifoInv, AccountInv, busVars
<1>5. ASSUME Unmask(c) PROVE FifoInv'
  <2>1. pc[c] = "unmask" /\ ~cerr
    BY <1>5 DEF Unmask, Goto, FifoInv, RequestInv
  <2>2. UNCHANGED <<enable, txfifo, rxfifo, bus, shift, busVars, h, localVars>> /\ ~abrt'
    BY <1>5 DEF Unmask
  <2>3. AbortInv' /\ LimitInv'
    BY <2>2 DEF AbortInv, LimitInv, FifoInv, localVars
  <2>4. AccountInv'
    BY <2>1, <2>2 DEF FifoInv, AccountInv, Accounted, Unread, BeingRead, busVars
  <2>5. \A d \in Clients \ {c} : pc[d] \in Unlocked
    BY <2>1, OnlyOne DEF Unlocked
  <2>6. RequestInv'
    BY <1>5, <2>5 DEF Unmask, Goto, RequestInv, Unlocked
  <2> QED
    BY <2>3, <2>4, <2>6 DEF FifoInv
<1>6. ASSUME Finish(c) \/ TimedOut(c) PROVE FifoInv'
  <2>1. /\ h = "idle" /\ UNCHANGED h /\ Disabled
        /\ pc[c] \notin Unlocked /\ pc' = [pc EXCEPT ![c] = "unlock"]
    BY <1>0, <1>6 DEF Finish, TimedOut, Leave, HandlerSettled, Goto, Unlocked
  <2>2. AccountInv' /\ AbortInv' /\ LimitInv'
    BY <2>1 DEF Disabled, AccountInv, AbortInv, LimitInv
  <2>3. \A d \in Clients \ {c} : pc[d] \in Unlocked
    BY <2>1, OnlyOne
  <2>4. RequestInv'
    BY <2>1, <2>3 DEF RequestInv, Unlocked
  <2> QED
    BY <2>2, <2>4 DEF FifoInv
<1> QED
  BY <1>1, <1>2, <1>3, <1>4, <1>5, <1>6 DEF Thread, Proceed

(* setPowerState runs with the lock, so the block it disables has empty FIFOs. *)
LEMMA PowerFifo == ASSUME Settled, FifoInv, Power PROVE FifoInv'
<1> USE DEF Settled, TypeOK, ThreadTypeOK
<1>1. CASE StopInterrupt
  <2>1. UNCHANGED <<hwVars, busVars, pc, h, localVars>>
    BY <1>1 DEF StopInterrupt
  <2> QED
    BY <2>1 DEF FifoInv, AccountInv, AbortInv, LimitInv, RequestInv, Quiet, Aborted, Accounted,
       Unread, BeingRead, hwVars, busVars, localVars
<1>2. CASE PowerOff \/ PowerOn
  <2>1. lock = Free /\ Disabled /\ UNCHANGED <<pc, h>>
    BY <1>2 DEF PowerOff, PowerOn, threadVars
  <2>2. \A c \in Clients : pc[c] \in Unlocked
    BY <2>1, ActorAssumption DEF Locking, Owned
  <2>3. h = "idle"
    BY <2>2, NothingProgrammed DEF Unlocked, Programmed, InTransfer
  <2> QED
    BY <2>1, <2>2, <2>3 DEF Disabled, FifoInv, AccountInv, AbortInv, LimitInv, RequestInv, Unlocked
<1> QED
  BY <1>1, <1>2 DEF Power

(* The handler, up to and including readClearInterruptBits. *)
LEMMA EnterFifo == ASSUME Settled, FifoInv, HandlerEnter \/ ReadClear PROVE FifoInv'
<1> USE DEF Settled, TypeOK, ThreadTypeOK
<1>1. CASE HandlerEnter
  BY <1>1 DEF HandlerEnter, Handler, FifoInv, AccountInv, AbortInv, LimitInv, RequestInv, Quiet,
     Aborted, Accounted, Unread, BeingRead, hwVars, busVars, localVars, threadVars
<1>2. CASE ReadClear
  <2>1. /\ UNCHANGED <<enable, txfifo, rxfifo, bus, shift, pc, valid, tlim, rlim>>
        /\ abrt' => abrt
        /\ h = "clear" /\ h' \in {"rx", "wake"}
    BY <1>2 DEF ReadClear, Handler, threadVars
  <2>2. \A c \in Clients : pc[c] \notin {"request", "enable"}
    BY <2>1, NobodyPrograms
  <2>3. AbortInv' /\ LimitInv'
    BY <2>1 DEF FifoInv, AbortInv, LimitInv
  <2>4. mask = {} => stat' = {}
    BY <1>2 DEF ReadClear
  <2>5. CASE "TX_ABRT" \in stat'
    <3>1. abrt
      BY <1>2, <2>5 DEF ReadClear, Raw
    <3>2. mask # {}
      BY <2>4, <2>5
    <3>3. AccountInv'
      BY <1>2, <2>1, <2>5, <3>1 DEF ReadClear, FifoInv, AbortInv, AccountInv, Aborted, Quiet, Handler
    <3>4. RequestInv'
      BY <2>1, <2>2, <3>2 DEF FifoInv, RequestInv, Quiet
    <3> QED
      BY <2>3, <3>3, <3>4 DEF FifoInv
  <2>6. CASE "TX_ABRT" \notin stat'
    <3>1. UNCHANGED <<cerr, outst, mask>> /\ h' = "rx"
      BY <1>2, <2>6 DEF ReadClear, Handler
    <3>2. Quiet => Quiet'
      BY <2>4, <3>1 DEF Quiet
    <3>3. AccountInv'
      BY <2>1, <3>1, <3>2 DEF FifoInv, AccountInv, Aborted, Accounted, Unread, BeingRead
    <3>4. RequestInv'
      BY <2>1, <2>2, <3>1, <3>2 DEF FifoInv, RequestInv
    <3> QED
      BY <2>3, <3>3, <3>4 DEF FifoInv
  <2> QED
    BY <2>5, <2>6
<1> QED
  BY <1>1, <1>2

(* A handler step that leaves the block's FIFOs and receive_outstanding alone. *)
LEMMA QuietStepFifo ==
  ASSUME Settled, FifoInv, h # "idle",
         UNCHANGED <<enable, txfifo, rxfifo, bus, shift, abrt, cerr, outst, pc>>,
         Quiet => Quiet', LimitInv'
  PROVE  FifoInv'
<1>1. \A c \in Clients : pc[c] \notin {"request", "enable"}
  BY NobodyPrograms
<1> QED
  BY <1>1 DEF FifoInv, AccountInv, AbortInv, RequestInv, Aborted, Accounted, Unread, BeingRead

(* readFromBus. *)
LEMMA ReadFifo ==
  ASSUME Settled, FifoInv, RxEnd \/ RxSkipWrite \/ RxBegin \/ RxByte \/ RxPause \/ RxMessageDone
  PROVE  FifoInv'
<1> USE DEF Settled, TypeOK, ThreadTypeOK, HandlerTypeOK
<1>1. CASE RxEnd \/ RxSkipWrite \/ RxPause \/ RxMessageDone
  <2>1. /\ h # "idle" /\ h' \in {"rx", "tx"}
        /\ UNCHANGED <<hwVars, cerr, outst, pc>>
    BY <1>1 DEF RxEnd, RxSkipWrite, RxPause, RxMessageDone, Handler, busVars, threadVars
  <2>2. Quiet => Quiet'
    BY <1>1, <2>1 DEF RxEnd, RxSkipWrite, RxPause, RxMessageDone, Handler, Quiet, hwVars, localVars
  <2>3. LimitInv'
    BY <2>1 DEF LimitInv
  <2> QED
    BY <2>1, <2>2, <2>3, QuietStepFifo DEF hwVars
<1>2. CASE RxBegin
  <2>1. h = "rx" /\ h' = "rxbyte" /\ stat # {} /\ UNCHANGED <<hwVars, cerr, outst, pc>>
    BY <1>2 DEF RxBegin, Handler, busVars, threadVars
  <2>2. ~Quiet
    BY <2>1 DEF Quiet
  <2>3. LimitInv'
    BY <1>2, <2>1, LenProperties DEF RxBegin, LimitInv, hwVars, HwTypeOK
  <2> QED
    BY <2>1, <2>2, <2>3, QuietStepFifo DEF hwVars
<1>3. CASE RxByte
  <2>1. /\ h = "rxbyte" /\ h' = "rxbyte" /\ valid > 0
        /\ UNCHANGED <<enable, txfifo, bus, shift, abrt, cerr, pc, mask>>
        /\ outst' = outst - 1 /\ valid' = valid - 1
    BY <1>3 DEF RxByte, Handler, threadVars
  <2>2. Len(rxfifo) \in Nat /\ valid <= Len(rxfifo) /\ valid \in Nat /\ outst \in Int
    BY <2>1, LenProperties DEF FifoInv, LimitInv, HwTypeOK, BusTypeOK
  <2>3. rxfifo' = Tail(rxfifo) /\ Len(rxfifo') = Len(rxfifo) - 1
    BY <1>3, <2>1, <2>2, EmptySeq, HeadTailProperties DEF RxByte, HwTypeOK
  <2>4. ~Quiet
    BY <2>1 DEF Quiet
  <2>5. \A c \in Clients : pc[c] \notin {"request", "enable"}
    BY <2>1, NobodyPrograms
  <2>6. AbortInv' /\ LimitInv' /\ RequestInv'
    BY <2>1, <2>2, <2>3, <2>4, <2>5 DEF FifoInv, AbortInv, LimitInv, RequestInv
  <2>7. AccountInv'
    <3>1. CASE enable
      <4>1. ~cerr /\ Accounted
        BY <2>4, <3>1 DEF FifoInv, AccountInv, Aborted
      <4>2. BeingRead' = BeingRead /\ BeingRead \in {0, 1}
        BY <2>1 DEF BeingRead
      <4>3. Unread' = Unread
        BY <2>1, <2>2, <2>3, <4>2 DEF Unread
      <4> QED
        BY <2>1, <2>2, <4>1, <4>3, DepthAssumption DEF AccountInv, Accounted
    <3>2. CASE ~enable
      BY <2>1, <3>2 DEF AccountInv
    <3> QED
      BY <3>1, <3>2
  <2> QED
    BY <2>6, <2>7 DEF FifoInv
<1> QED
  BY <1>1, <1>2, <1>3

(* transferMessageToBus. *)
LEMMA WriteFifo ==
  ASSUME Settled, FifoInv,
         \/ TxSkip \/ TxEnter \/ TxBadMessage \/ TxBegin \/ TxPush \/ TxPause \/ TxMessageDone
         \/ TxEnd \/ TxSetMask
  PROVE  FifoInv'
<1> USE DEF Settled, TypeOK, ThreadTypeOK, HandlerTypeOK
<1>1. CASE TxSkip
  <2>1. h = "tx" /\ h' = "wake" /\ UNCHANGED <<hwVars, busVars, pc, stat>>
    BY <1>1 DEF TxSkip, Handler, threadVars, localVars
  <2> QED
    BY <2>1, QuietStepFifo DEF hwVars, busVars, Quiet, LimitInv
<1>2. CASE TxEnter \/ TxBadMessage \/ TxPause \/ TxMessageDone \/ TxEnd
  <2>1. /\ h # "idle" /\ h' \in {"txmsg", "txmask"}
        /\ UNCHANGED <<hwVars, cerr, outst, pc>>
        /\ h \in {"txmsg", "push"} \/ (h = "tx" /\ stat # {})
    BY <1>2 DEF TxEnter, TxBadMessage, TxPause, TxMessageDone, TxEnd, Handler, busVars, threadVars
  <2> QED
    BY <2>1, QuietStepFifo DEF hwVars, Quiet, LimitInv
<1>3. CASE TxSetMask
  <2>1. /\ h = "txmask" /\ h' = "wake"
        /\ UNCHANGED <<enable, txfifo, rxfifo, bus, shift, abrt, cerr, outst, pc>>
    BY <1>3 DEF TxSetMask, Handler, busVars, threadVars
  <2> QED
    BY <2>1, QuietStepFifo DEF Quiet, LimitInv
<1>4. CASE TxBegin
  <2>1. h = "txmsg" /\ h' = "push" /\ UNCHANGED <<hwVars, cerr, outst, pc>>
    BY <1>4 DEF TxBegin, Handler, busVars, threadVars
  <2>2. LimitInv'
    BY <1>4, <2>1, LenProperties, DepthAssumption DEF TxBegin, LimitInv, hwVars, HwTypeOK
  <2> QED
    BY <2>1, <2>2, QuietStepFifo DEF hwVars, Quiet
<1>5. CASE TxPush
  <2>1. /\ h = "push" /\ h' = "push" /\ MayPush /\ Pushed(NextCommand)
        /\ UNCHANGED <<enable, rxfifo, bus, shift, abrt, cerr, pc, mask, msgs>>
        /\ tlim' = tlim - 1
        /\ IF msgs[widx].rd THEN rlim' = rlim - 1 /\ outst' = outst + 1 ELSE UNCHANGED <<rlim, outst>>
    BY <1>5 DEF TxPush, Handler, threadVars
  <2>2. /\ Len(rxfifo) \in Nat /\ Len(txfifo) \in Nat /\ outst \in Int /\ tlim > 0
        /\ Len(txfifo) + tlim <= TxDepth /\ rlim <= RxDepth
    BY <2>1, LenProperties DEF FifoInv, LimitInv, HwTypeOK, BusTypeOK, MayPush
  <2>3. NextCommand \in Command /\ NextCommand.rd = msgs[widx].rd
    <3>1. msgs[widx].rd \in BOOLEAN /\ msgs[widx].len \in Nat
      BY <2>1, MessageAt DEF BusTypeOK
    <3> QED
      BY <3>1 DEF NextCommand, Command, Position, BusTypeOK
  <2>4. ~Quiet
    BY <2>1 DEF Quiet
  <2>5. \A c \in Clients : pc[c] \notin {"request", "enable"}
    BY <2>1, NobodyPrograms
  <2>6. /\ txfifo' = txfifo \/ (~abrt /\ txfifo' = Append(txfifo, NextCommand))
        /\ Len(txfifo') <= Len(txfifo) + 1 /\ Len(txfifo') \in Nat
    BY <2>1, <2>2, <2>3, AppendProperties DEF Pushed, HwTypeOK
  <2>7. AbortInv' /\ LimitInv' /\ RequestInv'
    BY <2>1, <2>2, <2>4, <2>5, <2>6, DepthAssumption DEF FifoInv, AbortInv, LimitInv, RequestInv
  <2>8. AccountInv'
    <3>1. CASE enable
      <4>1. ~cerr /\ Accounted
        BY <2>4, <3>1 DEF FifoInv, AccountInv, Aborted
      <4>2. BeingRead' = BeingRead /\ BeingRead \in {0, 1} /\ Unread \in Int
        BY <2>1, <2>2 DEF BeingRead, Unread
      <4>3. Unread' = Unread + IsRead(NextCommand)
        BY <2>1, <2>2, <2>3, <4>2 DEF Unread, IsRead
      <4>4. IsRead(NextCommand) \in {0, 1} /\ txfifo \in Seq(Command)
        BY DEF IsRead, HwTypeOK
      <4>5. ReadsAtMost(txfifo, Unread + IsRead(NextCommand))
        BY <4>1, <4>2, <4>4, ReadsWeaken DEF Accounted
      <4>6. ReadsAtMost(Append(txfifo, NextCommand), Unread + IsRead(NextCommand))
        BY <2>3, <4>1, <4>2, <4>4, ReadsOfAppend DEF Accounted
      <4>7. outst' <= RxDepth
        BY <2>1, <2>2, <4>1, DepthAssumption DEF Accounted, MayPush
      <4>8. ReadsAtMost(txfifo', Unread')
        BY <2>6, <4>3, <4>5, <4>6
      <4> QED
        BY <2>1, <4>1, <4>7, <4>8 DEF AccountInv, Accounted
    <3>2. CASE ~enable
      BY <2>1, <3>2 DEF AccountInv
    <3> QED
      BY <3>1, <3>2
  <2> QED
    BY <2>7, <2>8 DEF FifoInv
<1> QED
  BY <1>1, <1>2, <1>3, <1>4, <1>5

(* The end of handleInterrupt. *)
LEMMA ExitFifo ==
  ASSUME Settled, FifoInv, Wakeup \/ HandlerReturn \/ ReadMask \/ RestoreMask
  PROVE  FifoInv'
<1> USE DEF Settled, TypeOK, ThreadTypeOK, HandlerTypeOK
<1>1. CASE Wakeup
  <2>1. /\ UNCHANGED <<hwVars, busVars>> /\ h = "wake" /\ h' = "idle"
        /\ \A c \in Clients : pc'[c] = pc[c] \/ pc'[c] = "woken"
    BY <1>1 DEF Wakeup, Handler
  <2>2. Quiet => Quiet'
    BY <2>1 DEF Quiet, hwVars
  <2>3. AccountInv' /\ AbortInv' /\ LimitInv'
    BY <2>1, <2>2 DEF FifoInv, AccountInv, AbortInv, LimitInv, Aborted, Accounted, Unread,
       BeingRead, hwVars, busVars
  <2>4. RequestInv'
    BY <2>1, <2>2 DEF FifoInv, RequestInv, hwVars, busVars
  <2> QED
    BY <2>3, <2>4 DEF FifoInv
<1>2. CASE HandlerReturn \/ ReadMask \/ RestoreMask
  <2>1. /\ h # "idle" /\ h' \in {"idle", "remask"}
        /\ UNCHANGED <<enable, txfifo, rxfifo, bus, shift, abrt, cerr, outst, pc>>
    BY <1>2 DEF HandlerReturn, ReadMask, RestoreMask, Handler, hwVars, busVars, threadVars
  <2>2. Quiet => Quiet'
    BY <1>2 DEF HandlerReturn, ReadMask, RestoreMask, Handler, hwVars, Quiet
  <2> QED
    BY <2>1, <2>2, QuietStepFifo DEF LimitInv
<1> QED
  BY <1>1, <1>2

(* Every step of the system keeps the FIFO accounts. *)
LEMMA NextFifo == ASSUME Unhurried, Settled, FifoInv, [Next]_vars PROVE FifoInv'
<1>1. CASE UNCHANGED vars
  BY <1>1 DEF vars, FifoInv, AccountInv, AbortInv, LimitInv, RequestInv, Quiet, Aborted, Accounted,
     Unread, BeingRead, hwVars, busVars, localVars, threadVars
<1>2. CASE Next
  BY <1>2, HardwareFifo, ThreadFifo, PowerFifo, EnterFifo, ReadFifo, WriteFifo, ExitFifo
     DEF Next, HandlerStep
<1> QED
  BY <1>1, <1>2

(* "Avoid rx buffer overrun": for FIFOs of any depth and transfers of any shape, a byte that
   is being read finds room in the receive FIFO, and what transferMessageToBus pushes finds
   room in the transmit FIFO, in every environment in which handlers are not overtaken. *)
THEOREM FifosNeverOverrun == Unhurried => (Spec => []NoFifoOverrun)
<1> SUFFICES ASSUME Unhurried PROVE Spec => []NoFifoOverrun
  OBVIOUS
<1>1. Settled /\ FifoInv => NoFifoOverrun
  <2> SUFFICES ASSUME Settled, FifoInv PROVE NoFifoOverrun
    OBVIOUS
  <2> USE DEF Settled, TypeOK
  <2>1. /\ Len(txfifo) \in Nat /\ Len(rxfifo) \in Nat /\ outst \in Int
        /\ RxDepth \in Nat /\ RxDepth > 0
    BY LenProperties, DepthAssumption DEF HwTypeOK, BusTypeOK
  <2>2. h = "push" /\ tlim > 0 => Len(txfifo) < TxDepth
    BY <2>1, DepthAssumption DEF FifoInv, LimitInv, HandlerTypeOK
  <2>3. ASSUME bus = "byte", shift.rd PROVE Len(rxfifo) < RxDepth
    <3>1. CASE enable
      <4>1. Accounted
        BY <2>3, <3>1 DEF FifoInv, AccountInv, Aborted
      <4>2. BeingRead = 1 /\ Unread \in Int
        BY <2>1, <2>3 DEF BeingRead, Unread
      <4>3. Unread >= 0
        BY <4>1, <4>2, ReadsWeaken DEF Accounted, HwTypeOK
      <4> QED
        BY <2>1, <4>1, <4>2, <4>3 DEF Accounted, Unread
    <3>2. CASE ~enable
      BY <2>1, <3>2, EmptySeq DEF Locking, DisabledIsEmpty
    <3> QED
      BY <3>1, <3>2
  <2> QED
    BY <2>2, <2>3 DEF NoFifoOverrun
<1>2. Spec => [](Settled /\ FifoInv)
  <2>1. Init => Settled /\ FifoInv
    BY InitTyped, InitLocking, InitFifo DEF Init, HwInit, Settled, HandlerHasOwner
  <2>2. Settled /\ FifoInv /\ [Next]_vars => Settled' /\ FifoInv'
    BY NextFifo, NextSettled
  <2> QED
    BY <2>1, <2>2, PTL DEF Spec
<1> QED
  BY <1>1, <1>2, PTL

=============================================================================
