------------------------------ MODULE DeviceNub ------------------------------
(***************************************************************************)
(* A device nub between its satellite driver and the controller driver: the *)
(* resources it attaches with (DeviceResources), the command gate that its  *)
(* satellite's threads share, and its start and stop.  The controller       *)
(* driver is what I2CService promises, which ControllerDriver implements;   *)
(* every thread inside transferI2C is a client of it, and so is another     *)
(* device, the Rival.                                                       *)
(***************************************************************************)
EXTENDS DeviceResources

CONSTANTS Threads, NoThread, Rival

ASSUME ThreadAssumption == NoThread \notin Threads /\ Rival \notin Threads

VARIABLES
  gate,      \* command_gate: none, open, disabled, removing (from its work loop) or freed
  holder,    \* the thread that has closed the gate of the work loop
  thread,    \* what each thread of the satellite is at
  call, request, result, wire    \* I2CService

Clients == Threads \cup {Rival}
Ops == {"read", "write", "writeRead"}

(* The messages of readI2CGated, writeI2CGated and writeReadI2CGated; all have one byte. *)
WriteMessage(addr, ten) == [addr |-> addr, ten |-> ten, rd |-> FALSE, len |-> 1]

(* Mutant: a read does not say that the address has ten bits. *)
ReadMessagePlain(addr, ten) == [addr |-> addr, ten |-> FALSE, rd |-> TRUE, len |-> 1]

ReadMessage(addr, ten) == [addr |-> addr, ten |-> ten, rd |-> TRUE, len |-> 1]

MessagesOf(op, addr, ten) ==
  CASE op = "read" -> <<ReadMessage(addr, ten)>>
    [] op = "write" -> <<WriteMessage(addr, ten)>>
    [] op = "writeRead" -> <<WriteMessage(addr, ten), ReadMessage(addr, ten)>>

Addresses ==
  {Address(x.addr) : x \in {y \in UNION {Range(d.crs) \cup Range(d.dsm) : d \in Declarations} :
                         y.kind = "i2c"}}

Requests == {MessagesOf(op, a, ten) : op \in Ops, a \in Addresses, ten \in BOOLEAN}

RivalRequest == <<WriteMessage(0, FALSE)>>

Service == INSTANCE I2CService WITH Requests <- Requests \cup {RivalRequest}

serviceVars == <<call, request, result, wire>>
gateVars == <<gate, holder, thread>>
vars == <<resourceVars, gateVars, serviceVars>>

Idle == [at |-> "idle", op |-> "none"]

Init ==
  /\ ResourceInit /\ Service!Init
  /\ gate = "none" /\ holder = NoThread
  /\ thread = [t \in Threads |-> Idle]

(* A satellite calls while the nub is started; it ends itself before the nub. *)
Served == life = "started"

AttachNub == Attach /\ UNCHANGED <<gateVars, serviceVars>>

StartNub ==
  /\ life = "attached"
  /\ life' = "started" /\ gate' = "open"
  /\ UNCHANGED <<acpi, info, holder, thread, serviceVars>>

(* No work loop, or no gate on it: releaseResources. *)
CannotStart ==
  /\ life = "attached"
  /\ life' = "refused" /\ gate' = "freed"
  /\ UNCHANGED <<acpi, info, holder, thread, serviceVars>>

-----------------------------------------------------------------------------
(* The thread that enters closes the gate and calls transferI2C. *)
Inside(t, op) ==
  /\ holder' = t
  /\ thread' = [thread EXCEPT ![t] = [at |-> "inside", op |-> op]]
  /\ Service!Ask(t) /\ request'[t] = MessagesOf(op, info.addr, info.ten)

(* attemptAction on an open gate: readI2C. *)
Read(t) ==
  /\ Served /\ thread[t].at = "idle" /\ holder = NoThread
  /\ Inside(t, "read")
  /\ UNCHANGED <<resourceVars, gate>>

(* Mutant: a read goes through while another call is inside. *)
ReadTurnedAwayNot(t) ==
  /\ Served /\ thread[t].at = "idle" /\ holder # NoThread
  /\ Inside(t, "read")
  /\ UNCHANGED <<resourceVars, gate>>

(* attemptAction while another thread is inside: kIOReturnCannotLock. *)
ReadTurnedAway(t) ==
  /\ Served /\ thread[t].at = "idle" /\ holder # NoThread
  /\ thread' = [thread EXCEPT ![t] = [at |-> "back", op |-> "none"]]
  /\ UNCHANGED <<resourceVars, gate, holder, serviceVars>>

(* runAction: writeI2C and writeReadI2C wait for the gate. *)
Call(t, op) ==
  /\ Served /\ thread[t].at = "idle" /\ op # "read"
  /\ thread' = [thread EXCEPT ![t] = [at |-> "lock", op |-> op]]
  /\ UNCHANGED <<resourceVars, gate, holder, serviceVars>>

EnterGate(t) ==
  /\ thread[t].at = "lock" /\ holder = NoThread /\ gate = "open"
  /\ Inside(t, thread[t].op)
  /\ UNCHANGED <<resourceVars, gate>>

(* runAction on a disabled gate: the thread gives the work loop's lock back and sleeps. *)
FindDisabled(t) ==
  /\ thread[t].at = "lock" /\ holder = NoThread /\ gate \in {"disabled", "removing"}
  /\ thread' = [thread EXCEPT ![t].at = "asleep"]
  /\ UNCHANGED <<resourceVars, gate, holder, serviceVars>>

(* removeEventSource wakes it: kIOReturnAborted. *)
Aborted(t) ==
  /\ thread[t].at = "asleep" /\ holder = NoThread /\ gate = "removing"
  /\ thread' = [thread EXCEPT ![t] = [at |-> "back", op |-> "none"]]
  /\ UNCHANGED <<resourceVars, gate, holder, serviceVars>>

(* A thread that gets the lock only after the release goes on in runAction with a gate that is no
   more: it may find it as it was left, without a work loop, and return; else it is lost. *)
UseFreedGate(t) ==
  /\ thread[t].at = "lock" /\ gate = "freed"
  /\ \E at \in {"back", "lost"} : thread' = [thread EXCEPT ![t] = [at |-> at, op |-> "none"]]
  /\ UNCHANGED <<resourceVars, gate, holder, serviceVars>>

(* Mutant: the gate stays closed behind a call that did not succeed. *)
LeaveGateClosed(t) ==
  /\ thread[t].at = "inside" /\ Service!Return(t)
  /\ thread' = [thread EXCEPT ![t] = [at |-> "back", op |-> "none"]]
  /\ holder' = IF result[t] = "Success" THEN NoThread ELSE t
  /\ UNCHANGED <<resourceVars, gate>>

LeaveGate(t) ==
  /\ thread[t].at = "inside" /\ Service!Return(t)
  /\ thread' = [thread EXCEPT ![t] = [at |-> "back", op |-> "none"]]
  /\ holder' = NoThread
  /\ UNCHANGED <<resourceVars, gate>>

Return(t) ==
  /\ thread[t].at = "back"
  /\ thread' = [thread EXCEPT ![t] = Idle]
  /\ UNCHANGED <<resourceVars, gate, holder, serviceVars>>

Transfer(c) ==
  /\ Service!Serve(c) \/ Service!Refuse(c) \/ Service!Move(c) \/ Service!End(c)
  /\ UNCHANGED <<resourceVars, gateVars>>

RivalCalls ==
  /\ Service!Ask(Rival) /\ request'[Rival] = RivalRequest
  /\ UNCHANGED <<resourceVars, gateVars>>

RivalReturns == Service!Return(Rival) /\ UNCHANGED <<resourceVars, gateVars>>

-----------------------------------------------------------------------------
(* stop: command_gate->disable.  The satellite's threads may still be inside or stand at the
   gate. *)
DisableGate ==
  /\ life = "started"
  /\ life' = "stopping" /\ gate' = "disabled"
  /\ UNCHANGED <<acpi, info, holder, thread, serviceVars>>

(* removeEventSource gets the work loop's lock, in whatever order it is handed on. *)
RemoveGate ==
  /\ life = "stopping" /\ gate = "disabled" /\ holder = NoThread
  /\ gate' = "removing"
  /\ UNCHANGED <<resourceVars, holder, thread, serviceVars>>

(* It waits for the threads that sleep at the gate, not for those that wait for the lock; then
   gate and work loop are released. *)
FreeGate ==
  /\ life = "stopping" /\ gate = "removing" /\ holder = NoThread
  /\ \A t \in Threads : thread[t].at # "asleep"
  /\ life' = "stopped" /\ gate' = "freed"
  /\ UNCHANGED <<acpi, info, holder, thread, serviceVars>>

ThreadStep(t) ==
  \/ Read(t) \/ ReadTurnedAway(t) \/ EnterGate(t) \/ LeaveGate(t) \/ Return(t)
  \/ FindDisabled(t) \/ Aborted(t) \/ UseFreedGate(t)
  \/ \E op \in Ops : Call(t, op)

Next ==
  \/ AttachNub \/ StartNub \/ CannotStart
  \/ \E t \in Threads : ThreadStep(t)
  \/ \E c \in Clients : Transfer(c)
  \/ RivalCalls \/ RivalReturns
  \/ DisableGate \/ RemoveGate \/ FreeGate

Spec == Init /\ [][Next]_vars

(* A call ends (ControllerDriver's CallerReturns), the bus and the gate are handed on to whoever
   waits, and a thread that may go on does.  Nobody has to call, start or stop. *)
Fairness ==
  /\ \A c \in Clients : SF_vars(Transfer(c))
  /\ \A t \in Threads :
       /\ SF_vars(EnterGate(t))
       /\ WF_vars(LeaveGate(t) \/ Return(t) \/ FindDisabled(t) \/ Aborted(t) \/ UseFreedGate(t))
  /\ WF_vars(RivalReturns) /\ WF_vars(RemoveGate \/ FreeGate)

FairSpec == Spec /\ Fairness

-----------------------------------------------------------------------------
TypeOK ==
  /\ life \in {"new", "gpio", "attached", "refused", "started", "stopping", "stopped"}
  /\ acpi \in Declarations
  /\ info.addr \in 0..255 /\ info.ten \in BOOLEAN /\ info.mode \in {"Polling", "APIC", "GPIO"}
  /\ gate \in {"none", "open", "disabled", "removing", "freed"}
  /\ holder \in Threads \cup {NoThread}
  /\ thread \in [Threads -> [at : {"idle", "lock", "asleep", "inside", "back", "lost"},
                             op : Ops \cup {"none"}]]
  /\ call \in [Clients -> {"idle", "waiting", "served", "done"}]

(* At most one thread of a device competes for the bus, so what a satellite writes and then reads
   back is not torn apart by another of its own calls (readI2C, writeI2C, writeReadI2C). *)
OneCallPerDevice ==
  \A t, u \in Threads : call[t] # "idle" /\ call[u] # "idle" => t = u

(* Whatever this device asks of the bus carries, in both directions, the width its firmware
   declares for the slave and the eight bits that i2c_address keeps of the address declared along
   with it: all of it up to 255, and never a mixture of two declarations (readI2CGated,
   writeI2CGated, writeReadI2CGated on getDeviceResources). *)
RequestsAsDeclared ==
  \A t \in Threads : call[t] # "idle" =>
    \E buffer \in {acpi.crs, acpi.dsm} : \E x \in Range(buffer) :
      /\ FirstOf(buffer, "i2c", x)
      /\ \A m \in Range(request[t]) : m.ten = x.ten /\ m.addr = x.addr % 256

(* Every call returns although reads come in between, another device uses the bus and the nub is
   stopped meanwhile; the one exception is a thread that releaseResources has overtaken on its way
   to the gate (readI2C to writeReadI2C). *)
CallReturns == \A t \in Threads : thread[t].at # "idle" ~> thread[t].at \in {"idle", "lost"}

(* A stop that has begun ends behind calls that are inside or at the gate, whoever has the bus
   (releaseResources). *)
StopEnds == life = "stopping" ~> life = "stopped"
=============================================================================
