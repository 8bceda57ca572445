--------------------------- MODULE DeviceNubProofs ---------------------------
(***************************************************************************)
(* Theorems about DeviceNub, for any number of threads of the satellite and *)
(* whatever the devices declare.                                            *)
(***************************************************************************)
EXTENDS DeviceNub, SequenceLemmas, TLAPS

(* Calls and threads are in range. *)
CallsTyped ==
  /\ thread \in [Threads -> [at : {"idle", "lock", "asleep", "inside", "back", "lost"},
                             op : Ops \cup {"none"}]]
  /\ call \in [Clients -> {"idle", "waiting", "served", "done"}]

(* Whoever is inside holds the gate, and only who is inside is a client of the bus. *)
HolderInside ==
  \A t \in Threads :
    /\ thread[t].at = "inside" => holder = t
    /\ holder = t => thread[t].at = "inside"
    /\ call[t] # "idle" => thread[t].at = "inside"

(* The gate follows the life of the nub, and nobody is inside or asleep at it but while it is
   there. *)
GateFollowsLife ==
  /\ life = "started" <=> gate = "open"
  /\ life = "stopping" <=> gate \in {"disabled", "removing"}
  /\ life \notin {"started", "stopping"} =>
       \A t \in Threads : thread[t].at \in {"idle", "lock", "back", "lost"}
  /\ life \notin {"started", "stopping", "stopped"} => \A t \in Threads : thread[t].at # "lock"

IInv == CallsTyped /\ HolderInside /\ GateFollowsLife

-----------------------------------------------------------------------------
LEMMA InitIInv == Init => IInv
BY ThreadAssumption DEF Init, ResourceInit, Service!Init, IInv, CallsTyped, HolderInside,
     GateFollowsLife, Idle, Clients

(* What the bus does for a client leaves the client where it is called from. *)
LEMMA TransferKeeps ==
  ASSUME IInv, NEW c \in Clients, Transfer(c)
  PROVE  IInv'
<1> USE DEF IInv, Transfer, resourceVars, gateVars
<1>1. CallsTyped'
  BY DEF CallsTyped, Service!Serve, Service!Refuse, Service!Move, Service!End
<1>2. HolderInside'
  BY DEF CallsTyped, HolderInside, Clients, Service!Serve, Service!Refuse, Service!Move,
         Service!End
<1>3. GateFollowsLife'
  BY DEF GateFollowsLife
<1> QED
  BY <1>1, <1>2, <1>3

(* A thread's own steps. *)
LEMMA ThreadKeeps ==
  ASSUME IInv, NEW u \in Threads, ThreadStep(u)
  PROVE  IInv'
<1> USE ThreadAssumption DEF IInv, resourceVars, gateVars, serviceVars, Served, Ops, Idle
<1>1. CASE Read(u)
  <2>1. CallsTyped'
    BY <1>1 DEF CallsTyped, Clients, Read, Inside, Service!Ask
  <2>2. HolderInside'
    BY <1>1 DEF CallsTyped, HolderInside, GateFollowsLife, Clients, Read, Inside, Service!Ask
  <2>3. GateFollowsLife'
    BY <1>1 DEF CallsTyped, HolderInside, GateFollowsLife, Read, Inside, Service!Ask
  <2> QED
    BY <2>1, <2>2, <2>3
<1>2. CASE ReadTurnedAway(u)
  <2>1. CallsTyped'
    BY <1>2 DEF CallsTyped, Clients, ReadTurnedAway
  <2>2. HolderInside'
    BY <1>2 DEF CallsTyped, HolderInside, GateFollowsLife, Clients, ReadTurnedAway
  <2>3. GateFollowsLife'
    BY <1>2 DEF CallsTyped, HolderInside, GateFollowsLife, ReadTurnedAway
  <2> QED
    BY <2>1, <2>2, <2>3
<1>3. CASE EnterGate(u)
  <2>1. CallsTyped'
    BY <1>3 DEF CallsTyped, Clients, EnterGate, Inside, Service!Ask
  <2>2. HolderInside'
    BY <1>3 DEF CallsTyped, HolderInside, GateFollowsLife, Clients, EnterGate, Inside, Service!Ask
  <2>3. GateFollowsLife'
    BY <1>3 DEF CallsTyped, HolderInside, GateFollowsLife, EnterGate, Inside, Service!Ask
  <2> QED
    BY <2>1, <2>2, <2>3
<1>4. CASE Aborted(u)
  <2>1. CallsTyped'
    BY <1>4 DEF CallsTyped, Clients, Aborted
  <2>2. HolderInside'
    BY <1>4 DEF CallsTyped, HolderInside, GateFollowsLife, Clients, Aborted
  <2>3. GateFollowsLife'
    BY <1>4 DEF CallsTyped, HolderInside, GateFollowsLife, Aborted
  <2> QED
    BY <2>1, <2>2, <2>3
<1>5. CASE LeaveGate(u)
  <2>1. CallsTyped'
    BY <1>5 DEF CallsTyped, Clients, LeaveGate, Service!Return
  <2>2. HolderInside'
    BY <1>5 DEF CallsTyped, HolderInside, GateFollowsLife, Clients, LeaveGate, Service!Return
  <2>3. GateFollowsLife'
    BY <1>5 DEF CallsTyped, HolderInside, GateFollowsLife, LeaveGate, Service!Return
  <2> QED
    BY <2>1, <2>2, <2>3
<1>6. CASE Return(u)
  <2>1. CallsTyped'
    BY <1>6 DEF CallsTyped, Clients, Return
  <2>2. HolderInside'
    BY <1>6 DEF CallsTyped, HolderInside, GateFollowsLife, Clients, Return
  <2>3. GateFollowsLife'
    BY <1>6 DEF CallsTyped, HolderInside, GateFollowsLife, Return
  <2> QED
    BY <2>1, <2>2, <2>3
<1>7. CASE FindDisabled(u)
  <2>1. CallsTyped'
    BY <1>7 DEF CallsTyped, Clients, FindDisabled
  <2>2. HolderInside'
    BY <1>7 DEF CallsTyped, HolderInside, GateFollowsLife, Clients, FindDisabled
  <2>3. GateFollowsLife'
    BY <1>7 DEF CallsTyped, HolderInside, GateFollowsLife, FindDisabled
  <2> QED
    BY <2>1, <2>2, <2>3
<1>8. CASE UseFreedGate(u)
  <2>0. PICK at \in {"back", "lost"} : thread' = [thread EXCEPT ![u] = [at |-> at, op |-> "none"]]
    BY <1>8 DEF UseFreedGate
  <2>1. CallsTyped'
    BY <1>8, <2>0 DEF CallsTyped, Clients, UseFreedGate
  <2>2. HolderInside'
    BY <1>8, <2>0 DEF CallsTyped, HolderInside, GateFollowsLife, Clients, UseFreedGate
  <2>3. GateFollowsLife'
    BY <1>8, <2>0 DEF CallsTyped, HolderInside, GateFollowsLife, UseFreedGate
  <2> QED
    BY <2>1, <2>2, <2>3
<1>9. ASSUME NEW op \in Ops, Call(u, op) PROVE IInv'
  <2>1. CallsTyped'
    BY <1>9 DEF CallsTyped, Clients, Call
  <2>2. HolderInside'
    BY <1>9 DEF CallsTyped, HolderInside, GateFollowsLife, Clients, Call
  <2>3. GateFollowsLife'
    BY <1>9 DEF CallsTyped, HolderInside, GateFollowsLife, Call
  <2> QED
    BY <2>1, <2>2, <2>3
<1> QED
  BY <1>1, <1>2, <1>3, <1>4, <1>5, <1>6, <1>9, <1>7, <1>8 DEF ThreadStep, IInv

LEMMA NextIInv == IInv /\ [Next]_vars => IInv'
<1> SUFFICES ASSUME IInv, [Next]_vars PROVE IInv'
  OBVIOUS
<1> USE ThreadAssumption DEF IInv, resourceVars, gateVars, serviceVars
<1>1. CASE AttachNub
  <2>1. life \in {"new", "gpio"} /\ life' \in {"gpio", "attached", "refused"}
    BY <1>1 DEF AttachNub, Attach, NoBus, GetDeviceResources, GetGPIOController
  <2>2. UNCHANGED <<gate, holder, thread, call>>
    BY <1>1 DEF AttachNub
  <2> QED
    BY <2>1, <2>2 DEF CallsTyped, HolderInside, GateFollowsLife
<1>2. CASE StartNub
  <2>1. CallsTyped'
    BY <1>2 DEF CallsTyped, Clients, StartNub
  <2>2. HolderInside'
    BY <1>2 DEF CallsTyped, HolderInside, GateFollowsLife, Clients, StartNub
  <2>3. GateFollowsLife'
    BY <1>2 DEF CallsTyped, HolderInside, GateFollowsLife, StartNub
  <2> QED
    BY <2>1, <2>2, <2>3
<1>3. CASE CannotStart
  <2>1. CallsTyped'
    BY <1>3 DEF CallsTyped, Clients, CannotStart
  <2>2. HolderInside'
    BY <1>3 DEF CallsTyped, HolderInside, GateFollowsLife, Clients, CannotStart
  <2>3. GateFollowsLife'
    BY <1>3 DEF CallsTyped, HolderInside, GateFollowsLife, CannotStart
  <2> QED
    BY <2>1, <2>2, <2>3
<1>4. CASE DisableGate
  <2>1. CallsTyped'
    BY <1>4 DEF CallsTyped, Clients, DisableGate
  <2>2. HolderInside'
    BY <1>4 DEF CallsTyped, HolderInside, GateFollowsLife, Clients, DisableGate
  <2>3. GateFollowsLife'
    BY <1>4 DEF CallsTyped, HolderInside, GateFollowsLife, DisableGate
  <2> QED
    BY <2>1, <2>2, <2>3
<1>5. CASE FreeGate
  <2>1. CallsTyped'
    BY <1>5 DEF CallsTyped, Clients, FreeGate
  <2>2. HolderInside'
    BY <1>5 DEF CallsTyped, HolderInside, GateFollowsLife, Clients, FreeGate
  <2>3. GateFollowsLife'
    BY <1>5 DEF CallsTyped, HolderInside, GateFollowsLife, FreeGate
  <2> QED
    BY <2>1, <2>2, <2>3
<1>6. CASE RemoveGate
  <2>1. CallsTyped'
    BY <1>6 DEF CallsTyped, Clients, RemoveGate
  <2>2. HolderInside'
    BY <1>6 DEF CallsTyped, HolderInside, Clients, RemoveGate
  <2>3. GateFollowsLife'
    BY <1>6 DEF GateFollowsLife, RemoveGate
  <2> QED
    BY <2>1, <2>2, <2>3
<1>7. CASE RivalCalls
  <2>1. CallsTyped'
    BY <1>7 DEF CallsTyped, Clients, RivalCalls, Service!Ask
  <2>2. HolderInside'
    BY <1>7 DEF CallsTyped, HolderInside, GateFollowsLife, Clients, RivalCalls, Service!Ask
  <2>3. GateFollowsLife'
    BY <1>7 DEF CallsTyped, HolderInside, GateFollowsLife, RivalCalls, Service!Ask
  <2> QED
    BY <2>1, <2>2, <2>3
<1>8. CASE RivalReturns
  <2>1. CallsTyped'
    BY <1>8 DEF CallsTyped, Clients, RivalReturns, Service!Return
  <2>2. HolderInside'
    BY <1>8 DEF CallsTyped, HolderInside, GateFollowsLife, Clients, RivalReturns, Service!Return
  <2>3. GateFollowsLife'
    BY <1>8 DEF CallsTyped, HolderInside, GateFollowsLife, RivalReturns, Service!Return
  <2> QED
    BY <2>1, <2>2, <2>3
<1>9. ASSUME NEW u \in Threads, ThreadStep(u) PROVE IInv'
  BY <1>9, ThreadKeeps
<1>10. ASSUME NEW c \in Clients, Transfer(c) PROVE IInv'
  BY <1>10, TransferKeeps
<1>11. CASE UNCHANGED vars
  BY <1>11 DEF vars, CallsTyped, HolderInside, GateFollowsLife
<1> QED
  BY <1>1, <1>2, <1>3, <1>4, <1>5, <1>7, <1>8, <1>9, <1>10, <1>11, <1>6 DEF Next

-----------------------------------------------------------------------------
LEMMA SpecIInv == Spec => []IInv
BY InitIInv, NextIInv, PTL DEF Spec

(* Whatever the number of threads, at most one call of a device competes for the bus. *)
THEOREM CallsAreSerial == Spec => []OneCallPerDevice
<1>1. IInv => OneCallPerDevice
  BY ThreadAssumption DEF IInv, HolderInside, OneCallPerDevice
<1> QED
  BY SpecIInv, <1>1, PTL

-----------------------------------------------------------------------------
(* The descriptors of a buffer, and what a parser has found. *)
Descriptors == SerialBuses \cup GPIOs \cup Others

LEMMA BufferShape ==
  ASSUME NEW buffer \in Buffers
  PROVE  /\ Len(buffer) \in Nat /\ DOMAIN buffer = 1..Len(buffer)
         /\ \A i \in 1..Len(buffer) :
              /\ buffer[i] \in Descriptors /\ buffer[i] # None
              /\ buffer[i].kind = "i2c" => buffer[i] \in SerialBuses
              /\ buffer[i].kind = "gpioint" => buffer[i] \in GPIOs
<1>1. \A x \in Descriptors : /\ x # None
                             /\ x.kind = "i2c" => x \in SerialBuses
                             /\ x.kind = "gpioint" => x \in GPIOs
  BY DEF Descriptors, SerialBuses, GPIOs, Others, None
<1>2. /\ Len(buffer) \in Nat /\ DOMAIN buffer = 1..Len(buffer)
      /\ \A i \in 1..Len(buffer) : buffer[i] \in Descriptors
  BY DEF Buffers, Descriptors
<1> QED
  BY <1>1, <1>2

LEMMA DeclaredShape ==
  ASSUME NEW buffer \in Buffers, NEW k \in {"i2c", "gpioint"}
  PROVE  /\ Declared(buffer, k) \in SUBSET (1..Len(buffer))
         /\ \A i \in Declared(buffer, k) : buffer[i] # None /\ buffer[i].kind = k
BY BufferShape DEF Declared

(* parseACPISerialBus, called for every descriptor, keeps the first bus. *)
LEMMA FindsBus ==
  ASSUME NEW buffer \in Buffers
  PROVE  Parsed(buffer).i2c = IF Declared(buffer, "i2c") = {} THEN None
                              ELSE buffer[Min(Declared(buffer, "i2c"))]
<1> DEFINE n == Len(buffer)
           M == Declared(buffer, "i2c")
           it == CHOOSE iter : iter = [s \in SUBSET DOMAIN buffer |->
                   IF s = {} THEN None ELSE SerialBus(iter[s \ {Max(s)}], buffer[Max(s)])]
<1>1. /\ n \in Nat /\ DOMAIN buffer = 1..n /\ M \in SUBSET (1..n)
      /\ \A i \in M : buffer[i] # None
  BY BufferShape, DeclaredShape
<1>2. \A s \in SUBSET (1..n) : s # {} =>
        /\ Max(s) \in 1..n
        /\ Max(s) \in M <=> buffer[Max(s)].kind = "i2c"
  <2>1. ASSUME NEW s \in SUBSET (1..n), s # {} PROVE Max(s) \in 1..n
    <3>1. s \in SUBSET Nat /\ \A x \in s : x <= n
      BY <1>1
    <3> QED
      BY <1>1, <2>1, <3>1, Greatest
  <2> QED
    BY <1>1, <2>1 DEF Declared
<1>3. Parsed(buffer).i2c = it[DOMAIN buffer]
  <2>1. FoldLeft(SerialBus, None, buffer) = it[DOMAIN buffer]
    BY DEF FoldLeft, MapThenFoldSet
  <2> QED
    BY <2>1 DEF Parsed
<1> HIDE DEF n, M
<1>4. PICK g : KeepsFirst(g, n, M, buffer, None)
  BY <1>1, KeepsFirstExists
<1>5. \A iter : (iter = [s \in SUBSET DOMAIN buffer |->
                   IF s = {} THEN None ELSE SerialBus(iter[s \ {Max(s)}], buffer[Max(s)])])
                <=> KeepsFirst(iter, n, M, buffer, None)
  BY <1>1, <1>2 DEF KeepsFirst, SerialBus
<1>6. it = [s \in SUBSET DOMAIN buffer |->
              IF s = {} THEN None ELSE SerialBus(it[s \ {Max(s)}], buffer[Max(s)])]
  BY <1>4, <1>5
<1> HIDE DEF it
<1>7. KeepsFirst(it, n, M, buffer, None)
  BY <1>5, <1>6
<1>8. it[1..n] = IF M = {} THEN None ELSE buffer[Min(M)]
  <2>1. \A i \in M : buffer[i] # None
    BY <1>1
  <2> QED
    <3> DEFINE none == None
    <3>1. n \in Nat /\ M \in SUBSET (1..n) /\ KeepsFirst(it, n, M, buffer, none)
      BY <1>1, <1>7
    <3>2. \A i \in M : buffer[i] # none
      BY <2>1
    <3> HIDE DEF none
    <3>3. it[1..n] = IF M = {} THEN none ELSE buffer[Min(M)]
      BY <3>1, <3>2, KeepsFirstResult
    <3> QED
      BY <3>3 DEF none
<1> QED
  BY <1>1, <1>3, <1>8 DEF M

(* parseACPIGPIO, called for every descriptor, keeps the first interrupt with a valid pin. *)
LEMMA FindsInterrupt ==
  ASSUME NEW buffer \in Buffers
  PROVE  Parsed(buffer).gpio = IF Declared(buffer, "gpioint") = {} THEN None
                               ELSE buffer[Min(Declared(buffer, "gpioint"))]
<1> DEFINE n == Len(buffer)
           M == Declared(buffer, "gpioint")
           it == CHOOSE iter : iter = [s \in SUBSET DOMAIN buffer |->
                   IF s = {} THEN None ELSE Interrupt(iter[s \ {Max(s)}], buffer[Max(s)])]
<1>1. /\ n \in Nat /\ DOMAIN buffer = 1..n /\ M \in SUBSET (1..n)
      /\ \A i \in M : buffer[i] # None
  BY BufferShape, DeclaredShape
<1>2. \A s \in SUBSET (1..n) : s # {} =>
        /\ Max(s) \in 1..n
        /\ Max(s) \in M <=> buffer[Max(s)].kind = "gpioint" /\ buffer[Max(s)].pin # NoPin
  <2>1. ASSUME NEW s \in SUBSET (1..n), s # {} PROVE Max(s) \in 1..n
    <3>1. s \in SUBSET Nat /\ \A x \in s : x <= n
      BY <1>1
    <3> QED
      BY <1>1, <2>1, <3>1, Greatest
  <2> QED
    BY <1>1, <2>1 DEF Declared
<1>3. Parsed(buffer).gpio = it[DOMAIN buffer]
  <2>1. FoldLeft(Interrupt, None, buffer) = it[DOMAIN buffer]
    BY DEF FoldLeft, MapThenFoldSet
  <2> QED
    BY <2>1 DEF Parsed
<1> HIDE DEF n, M
<1>4. PICK g : KeepsFirst(g, n, M, buffer, None)
  BY <1>1, KeepsFirstExists
<1>5. \A iter : (iter = [s \in SUBSET DOMAIN buffer |->
                   IF s = {} THEN None ELSE Interrupt(iter[s \ {Max(s)}], buffer[Max(s)])])
                <=> KeepsFirst(iter, n, M, buffer, None)
  BY <1>1, <1>2 DEF KeepsFirst, Interrupt
<1>6. it = [s \in SUBSET DOMAIN buffer |->
              IF s = {} THEN None ELSE Interrupt(it[s \ {Max(s)}], buffer[Max(s)])]
  BY <1>4, <1>5
<1> HIDE DEF it
<1>7. KeepsFirst(it, n, M, buffer, None)
  BY <1>5, <1>6
<1>8. it[1..n] = IF M = {} THEN None ELSE buffer[Min(M)]
  <2>1. \A i \in M : buffer[i] # None
    BY <1>1
  <2> QED
    <3> DEFINE none == None
    <3>1. n \in Nat /\ M \in SUBSET (1..n) /\ KeepsFirst(it, n, M, buffer, none)
      BY <1>1, <1>7
    <3>2. \A i \in M : buffer[i] # none
      BY <2>1
    <3> HIDE DEF none
    <3>3. it[1..n] = IF M = {} THEN none ELSE buffer[Min(M)]
      BY <3>1, <3>2, KeepsFirstResult
    <3> QED
      BY <3>3 DEF none
<1> QED
  BY <1>1, <1>3, <1>8 DEF M

-----------------------------------------------------------------------------
(* What a parser has found is the first descriptor of its kind. *)
LEMMA FoundIsFirst ==
  ASSUME NEW buffer \in Buffers
  PROVE  /\ Parsed(buffer).i2c = None <=> Declared(buffer, "i2c") = {}
         /\ Parsed(buffer).i2c # None =>
              /\ Parsed(buffer).i2c \in Range(buffer) /\ Parsed(buffer).i2c \in SerialBuses
              /\ FirstOf(buffer, "i2c", Parsed(buffer).i2c)
         /\ Parsed(buffer).gpio = None <=> Declared(buffer, "gpioint") = {}
         /\ Parsed(buffer).gpio # None =>
              /\ Parsed(buffer).gpio \in Range(buffer)
              /\ FirstOf(buffer, "gpioint", Parsed(buffer).gpio)
<1> DEFINE B == Declared(buffer, "i2c")
           G == Declared(buffer, "gpioint")
<1>1. /\ DOMAIN buffer = 1..Len(buffer) /\ B \in SUBSET (1..Len(buffer)) /\ G \in SUBSET (1..Len(buffer))
      /\ \A i \in B : buffer[i] # None /\ buffer[i] \in SerialBuses
      /\ \A i \in G : buffer[i] # None
  BY BufferShape, DeclaredShape
<1>2. Parsed(buffer).i2c = IF B = {} THEN None ELSE buffer[Min(B)]
  BY FindsBus
<1>3. Parsed(buffer).gpio = IF G = {} THEN None ELSE buffer[Min(G)]
  BY FindsInterrupt
<1>4. B # {} => Min(B) \in B /\ \A y \in B : Min(B) <= y
  BY <1>1, Smallest
<1>5. G # {} => Min(G) \in G /\ \A y \in G : Min(G) <= y
  BY <1>1, Smallest
<1>6. /\ Parsed(buffer).i2c = None <=> B = {}
      /\ B # {} => /\ Parsed(buffer).i2c \in Range(buffer) /\ Parsed(buffer).i2c \in SerialBuses
                   /\ FirstOf(buffer, "i2c", Parsed(buffer).i2c)
  <2> HIDE DEF B
  <2>1. CASE B = {}
    BY <1>2, <2>1
  <2>2. CASE B # {}
    <3>1. Parsed(buffer).i2c = buffer[Min(B)] /\ Min(B) \in B
      BY <1>2, <1>4, <2>2
    <3>2. FirstOf(buffer, "i2c", buffer[Min(B)])
      BY <1>4, <2>2 DEF FirstOf, B
    <3>3. buffer[Min(B)] \in Range(buffer)
      BY <1>1, <3>1 DEF Range
    <3> QED
      BY <1>1, <2>2, <3>1, <3>2, <3>3
  <2> QED
    BY <2>1, <2>2
<1>7. /\ Parsed(buffer).gpio = None <=> G = {}
      /\ G # {} => /\ Parsed(buffer).gpio \in Range(buffer)
                   /\ FirstOf(buffer, "gpioint", Parsed(buffer).gpio)
  <2> HIDE DEF G
  <2>1. CASE G = {}
    BY <1>3, <2>1
  <2>2. CASE G # {}
    <3>1. Parsed(buffer).gpio = buffer[Min(G)] /\ Min(G) \in G
      BY <1>3, <1>5, <2>2
    <3>2. FirstOf(buffer, "gpioint", buffer[Min(G)])
      BY <1>5, <2>2 DEF FirstOf, G
    <3>3. buffer[Min(G)] \in Range(buffer)
      BY <1>1, <3>1 DEF Range
    <3> QED
      BY <1>1, <2>2, <3>1, <3>2, <3>3
  <2> QED
    BY <2>1, <2>2
<1> QED
  BY <1>6, <1>7

(* The resources of the nub are in range, and those of one of the two methods. *)
ResourcesOK ==
  /\ life \in {"new", "gpio", "attached", "refused", "started", "stopping", "stopped"}
  /\ acpi \in Declarations
  /\ info.addr \in 0..255 /\ info.ten \in BOOLEAN /\ info.mode \in {"Polling", "APIC", "GPIO"}

AttachInv == ResourcesOK /\ ResourcesTogether /\ InterruptNotMissed

LEMMA InitAttachInv == Init => AttachInv
BY DEF Init, ResourceInit, AttachInv, ResourcesOK, ResourcesTogether, InterruptNotMissed

(* getDeviceResources. *)
LEMMA ResourcesChosen ==
  ASSUME ResourcesOK, GetDeviceResources
  PROVE  AttachInv'
<1> DEFINE crs == Parsed(acpi.crs)
           dsm == Parsed(acpi.dsm)
           gpio == ~ValidAPIC /\ ~acpi.polling /\ Used.gpio # None
<1>1. acpi.crs \in Buffers /\ acpi.dsm \in Buffers /\ acpi' = acpi
  BY DeclarationAssumption DEF ResourcesOK, GetDeviceResources
<1>2. PICK buffer \in {acpi.crs, acpi.dsm} : Used = Parsed(buffer)
  BY DEF Used, Chosen
<1>3. buffer \in Buffers
  BY <1>1, <1>2
<1>4. /\ Used.i2c # None
      /\ life' = IF gpio THEN "gpio" ELSE "attached"
      /\ info' = [addr |-> Address(Used.i2c.addr), ten |-> Used.i2c.ten,
                  mode |-> IF ValidAPIC THEN "APIC" ELSE IF gpio THEN "GPIO" ELSE "Polling",
                  pin  |-> IF gpio THEN Used.gpio.pin ELSE 0,
                  type |-> IF gpio THEN IrqType(Used.gpio) ELSE "none"]
  BY DEF GetDeviceResources, PinSource
<1>5. /\ Used.i2c \in Range(buffer) /\ Used.i2c \in SerialBuses /\ FirstOf(buffer, "i2c", Used.i2c)
      /\ Used.gpio # None => Used.gpio \in Range(buffer) /\ FirstOf(buffer, "gpioint", Used.gpio)
  BY <1>2, <1>3, <1>4, FoundIsFirst
<1>6. /\ Used.i2c.addr \in Nat /\ Used.i2c.ten \in BOOLEAN
      /\ Address(Used.i2c.addr) \in 0..255
      /\ Address(Used.i2c.addr) = Used.i2c.addr % 256
  <2>1. Used.i2c.addr \in Nat /\ Used.i2c.ten \in BOOLEAN
    BY <1>5 DEF SerialBuses
  <2> QED
    BY <2>1 DEF Address
<1>7. ResourcesOK'
  BY <1>1, <1>4, <1>6 DEF ResourcesOK
<1>8. ResourcesTogether'
  <2>1. \E x \in Range(buffer) : /\ FirstOf(buffer, "i2c", x)
                                 /\ info'.ten = x.ten /\ info'.addr = x.addr % 256
    <3>1. info'.ten = Used.i2c.ten /\ info'.addr = Address(Used.i2c.addr)
      BY <1>4
    <3> QED
      BY <1>5, <1>6, <3>1
  <2>2. info'.mode = "GPIO" =>
          \E x \in Range(buffer) : /\ FirstOf(buffer, "gpioint", x)
                                   /\ info'.pin = x.pin /\ info'.type = IrqType(x)
    <3> SUFFICES ASSUME info'.mode = "GPIO"
                 PROVE  \E x \in Range(buffer) : /\ FirstOf(buffer, "gpioint", x)
                                                 /\ info'.pin = x.pin /\ info'.type = IrqType(x)
      OBVIOUS
    <3>1. gpio
      BY <1>4
    <3>2. info'.pin = Used.gpio.pin /\ info'.type = IrqType(Used.gpio)
      BY <1>4, <3>1
    <3> QED
      BY <1>5, <3>1, <3>2
  <2> QED
    BY <1>1, <1>2, <2>1, <2>2 DEF ResourcesTogether
<1>9. InterruptNotMissed'
  <2> SUFFICES ASSUME info'.mode = "Polling", ~acpi.polling
               PROVE  /\ ~ValidAPIC
                      /\ \A b \in {acpi.crs, acpi.dsm} :
                           Declared(b, "i2c") = {} \/ Declared(b, "gpioint") = {}
    <3>1. info'.mode = "Polling" => ~ValidAPIC
      BY <1>4
    <3> QED
      BY <1>1, <3>1 DEF InterruptNotMissed, ValidAPIC
  <2>1. ~ValidAPIC /\ Used.gpio = None
    BY <1>4
  <2>2. /\ crs.i2c = None <=> Declared(acpi.crs, "i2c") = {}
        /\ dsm.i2c = None <=> Declared(acpi.dsm, "i2c") = {}
        /\ crs.gpio = None <=> Declared(acpi.crs, "gpioint") = {}
        /\ dsm.gpio = None <=> Declared(acpi.dsm, "gpioint") = {}
    BY <1>1, FoundIsFirst
  <2>3. Used = IF crs.i2c = None \/ (dsm.i2c # None /\ dsm.gpio # None) THEN dsm ELSE crs
    BY DEF Used, Chosen
  <2> HIDE DEF crs, dsm
  <2>4. (crs.i2c = None \/ crs.gpio = None) /\ (dsm.i2c = None \/ dsm.gpio = None)
    BY <2>1, <2>3
  <2> QED
    BY <2>1, <2>2, <2>4
<1> QED
  BY <1>7, <1>8, <1>9 DEF AttachInv

LEMMA NextAttachInv == AttachInv /\ [Next]_vars => AttachInv'
<1> SUFFICES ASSUME AttachInv, [Next]_vars PROVE AttachInv'
  OBVIOUS
<1>1. CASE GetDeviceResources
  BY <1>1, ResourcesChosen DEF AttachInv
<1>2. CASE ~GetDeviceResources
  <2>1. /\ UNCHANGED <<acpi, info>>
        /\ life' \in {life, "attached", "refused", "started", "stopping", "stopped"}
        /\ life' \in {"new", "refused"} \/ life \notin {"new", "refused"}
    <3> USE DEF resourceVars, gateVars, serviceVars
    <3>1. CASE AttachNub
      BY <1>2, <3>1 DEF AttachNub, Attach, NoBus, GetGPIOController
    <3>2. CASE StartNub \/ CannotStart \/ DisableGate \/ RemoveGate \/ FreeGate
      BY <3>2 DEF StartNub, CannotStart, DisableGate, RemoveGate, FreeGate
    <3>3. CASE \/ \E t \in Threads : ThreadStep(t)
               \/ \E c \in Clients : Transfer(c)
               \/ RivalCalls \/ RivalReturns \/ UNCHANGED vars
      BY <3>3 DEF ThreadStep, Read, ReadTurnedAway, EnterGate, FindDisabled, Aborted, UseFreedGate,
         LeaveGate, Return, Call, Transfer,
         RivalCalls, RivalReturns, vars
    <3> QED
      BY <3>1, <3>2, <3>3 DEF Next
  <2> QED
    BY <2>1 DEF AttachInv, ResourcesOK, ResourcesTogether, InterruptNotMissed, ValidAPIC
<1> QED
  BY <1>1, <1>2

LEMMA SpecAttachInv == Spec => []AttachInv
BY InitAttachInv, NextAttachInv, PTL DEF Spec

(* Whatever firmware declares, however many descriptors a buffer has: address and interrupt of a
   slave come from one method, each from the first descriptor of its kind. *)
THEOREM ResourcesAreTogether == Spec => []ResourcesTogether
<1>1. AttachInv => ResourcesTogether
  BY DEF AttachInv
<1> QED
  BY SpecAttachInv, <1>1, PTL

(* No interrupt that firmware declares along with the bus is overlooked. *)
THEOREM InterruptIsUsed == Spec => []InterruptNotMissed
<1>1. AttachInv => InterruptNotMissed
  BY DEF AttachInv
<1> QED
  BY SpecAttachInv, <1>1, PTL

-----------------------------------------------------------------------------
(* What a call of this device has asked for is addressed with what attach found. *)
RequestInv ==
  /\ request = [c \in Clients |-> request[c]]
  /\ \A t \in Threads : thread[t].at = "lock" => thread[t].op \in Ops
  /\ \A t \in Threads : call[t] # "idle" =>
       \A m \in Range(request[t]) : m.addr = info.addr /\ m.ten = info.ten

(* readI2CGated, writeI2CGated and writeReadI2CGated address every message alike. *)
LEMMA MessagesAddressed ==
  ASSUME NEW op \in Ops, NEW addr, NEW ten
  PROVE  \A m \in Range(MessagesOf(op, addr, ten)) : m.addr = addr /\ m.ten = ten
<1>1. CASE op = "read"
  BY <1>1 DEF MessagesOf, ReadMessage, Range
<1>2. CASE op = "write"
  BY <1>2 DEF MessagesOf, WriteMessage, Range
<1>3. CASE op = "writeRead"
  BY <1>3 DEF MessagesOf, ReadMessage, WriteMessage, Range
<1> QED
  BY <1>1, <1>2, <1>3 DEF Ops

LEMMA InitRequestInv == Init => RequestInv
BY DEF Init, Service!Init, RequestInv, Idle, Clients

(* A thread that enters the gate asks for what it has been called for. *)
LEMMA InsideRequest ==
  ASSUME IInv, RequestInv, NEW t \in Threads, NEW op \in Ops, Inside(t, op),
         UNCHANGED resourceVars
  PROVE  RequestInv'
<1>1. PICK r : request' = [request EXCEPT ![t] = r]
  BY DEF Inside, Service!Ask
<1>2. /\ \A u \in Threads \ {t} : request'[u] = request[u] /\ call'[u] = call[u]
      /\ request' = [c \in Clients |-> request'[c]]
      /\ request'[t] = MessagesOf(op, info.addr, info.ten)
  BY <1>1 DEF Inside, Service!Ask, IInv, CallsTyped, RequestInv, Clients
<1>3. \A u \in Threads : thread'[u].at = "lock" => thread'[u].op \in Ops
  BY DEF Inside, IInv, CallsTyped, RequestInv
<1>4. UNCHANGED info
  BY DEF resourceVars
<1>5. \A m \in Range(request'[t]) : m.addr = info.addr /\ m.ten = info.ten
  BY <1>2, MessagesAddressed
<1> QED
  BY <1>2, <1>3, <1>4, <1>5 DEF RequestInv

(* A step by which no call of this device begins. *)
LEMMA RequestKept ==
  ASSUME RequestInv, UNCHANGED info,
         request' = [c \in Clients |-> request'[c]],
         \A t \in Threads : call'[t] # "idle" => call[t] # "idle" /\ request'[t] = request[t],
         \A t \in Threads : thread'[t].at = "lock" =>
           thread'[t].op \in Ops \/ (thread[t].at = "lock" /\ thread'[t].op = thread[t].op)
  PROVE  RequestInv'
BY DEF RequestInv

LEMMA ThreadRequest ==
  ASSUME IInv, RequestInv, NEW t \in Threads, ThreadStep(t)
  PROVE  RequestInv'
<1> USE DEF resourceVars, gateVars, serviceVars
<1>1. CASE Read(t)
  BY <1>1, InsideRequest DEF Read, Ops
<1>2. CASE EnterGate(t)
  BY <1>2, InsideRequest DEF EnterGate, RequestInv
<1>3. CASE ReadTurnedAway(t) \/ Aborted(t) \/ UseFreedGate(t) \/ Return(t)
  <2>1. /\ UNCHANGED <<info, call, request>>
        /\ \E at \in {"back", "lost", "idle"} :
             thread' = [thread EXCEPT ![t] = [at |-> at, op |-> "none"]]
    BY <1>3 DEF ReadTurnedAway, Aborted, UseFreedGate, Return, Idle
  <2>2. \A u \in Threads : thread'[u].at = "lock" => thread'[u] = thread[u]
    BY <2>1 DEF Idle, IInv, CallsTyped
  <2> QED
    BY <2>1, <2>2, RequestKept DEF RequestInv
<1>4. CASE LeaveGate(t)
  <2>1. /\ UNCHANGED info
        /\ thread' = [thread EXCEPT ![t] = [at |-> "back", op |-> "none"]]
        /\ call' = [call EXCEPT ![t] = "idle"]
        /\ request' = [request EXCEPT ![t] = << >>]
    BY <1>4 DEF LeaveGate, Service!Return
  <2>2. \A u \in Threads : thread'[u].at = "lock" => thread'[u] = thread[u]
    BY <2>1 DEF IInv, CallsTyped
  <2>3. \A u \in Threads : call'[u] # "idle" => call[u] # "idle" /\ request'[u] = request[u]
    BY <2>1 DEF IInv, CallsTyped, RequestInv, Clients
  <2>4. request' = [c \in Clients |-> request'[c]]
    BY <2>1 DEF RequestInv, Clients
  <2> QED
    BY <2>1, <2>2, <2>3, <2>4, RequestKept
<1>5. ASSUME NEW op \in Ops, Call(t, op) PROVE RequestInv'
  <2>1. /\ UNCHANGED <<info, call, request>>
        /\ thread' = [thread EXCEPT ![t] = [at |-> "lock", op |-> op]]
    BY <1>5 DEF Call
  <2>2. \A u \in Threads : thread'[u].at = "lock" => thread'[u].op \in Ops \/ thread'[u] = thread[u]
    BY <2>1 DEF IInv, CallsTyped
  <2> QED
    BY <2>1, <2>2, RequestKept DEF RequestInv
<1>6. CASE FindDisabled(t)
  <2>1. /\ UNCHANGED <<info, call, request>>
        /\ thread' = [thread EXCEPT ![t].at = "asleep"]
    BY <1>6 DEF FindDisabled
  <2>2. \A u \in Threads : thread'[u].at = "lock" => thread'[u] = thread[u]
    BY <2>1 DEF IInv, CallsTyped
  <2> QED
    BY <2>1, <2>2, RequestKept DEF RequestInv
<1> QED
  BY <1>1, <1>2, <1>3, <1>4, <1>5, <1>6 DEF ThreadStep

LEMMA NextRequestInv == IInv /\ AttachInv /\ RequestInv /\ [Next]_vars => RequestInv'
<1> SUFFICES ASSUME IInv, AttachInv, RequestInv, [Next]_vars PROVE RequestInv'
  OBVIOUS
<1> USE DEF resourceVars, gateVars, serviceVars
<1>1. CASE AttachNub
  <2>1. life \in {"new", "gpio"}
    BY <1>1 DEF AttachNub, Attach, NoBus, GetDeviceResources, GetGPIOController
  <2>2. \A t \in Threads : call[t] = "idle"
    BY <2>1 DEF IInv, HolderInside, GateFollowsLife
  <2>3. UNCHANGED <<thread, call, request>>
    BY <1>1 DEF AttachNub
  <2> QED
    BY <2>2, <2>3 DEF RequestInv
<1>2. CASE StartNub \/ CannotStart \/ DisableGate \/ RemoveGate \/ FreeGate \/ UNCHANGED vars
  <2>1. UNCHANGED <<info, thread, call, request>>
    BY <1>2 DEF StartNub, CannotStart, DisableGate, RemoveGate, FreeGate, vars
  <2> QED
    BY <2>1 DEF RequestInv
<1>3. ASSUME NEW t \in Threads, ThreadStep(t) PROVE RequestInv'
  BY <1>3, ThreadRequest
<1>4. ASSUME NEW c \in Clients, Transfer(c) PROVE RequestInv'
  <2>1. UNCHANGED <<info, thread, request>>
    BY <1>4 DEF Transfer, Service!Serve, Service!Refuse, Service!Move, Service!End
  <2>2. \A t \in Threads : call'[t] # "idle" => call[t] # "idle"
    BY <1>4 DEF Transfer, Service!Serve, Service!Refuse, Service!Move, Service!End, IInv, CallsTyped, Clients
  <2> QED
    BY <2>1, <2>2, RequestKept DEF RequestInv
<1>5. CASE RivalCalls \/ RivalReturns
  <2>1. UNCHANGED <<info, thread>>
    BY <1>5 DEF RivalCalls, RivalReturns
  <2>2. PICK r, k : request' = [request EXCEPT ![Rival] = r] /\ call' = [call EXCEPT ![Rival] = k]
    BY <1>5 DEF RivalCalls, RivalReturns, Service!Ask, Service!Return
  <2>3. /\ \A t \in Threads : call'[t] = call[t] /\ request'[t] = request[t]
        /\ request' = [c \in Clients |-> request'[c]]
    BY <2>2, ThreadAssumption DEF RequestInv, IInv, CallsTyped, Clients
  <2> QED
    BY <2>1, <2>3, RequestKept
<1> QED
  BY <1>1, <1>2, <1>3, <1>4, <1>5 DEF Next

(* The state of the gate is in range as well. *)
GateOK ==
  /\ gate \in {"none", "open", "disabled", "removing", "freed"}
  /\ holder \in Threads \cup {NoThread}

LEMMA NextGateOK == GateOK /\ [Next]_vars => GateOK'
<1> SUFFICES ASSUME GateOK, [Next]_vars PROVE GateOK'
  OBVIOUS
<1> USE DEF resourceVars, gateVars, serviceVars, GateOK
<1>1. CASE AttachNub \/ StartNub \/ CannotStart \/ DisableGate \/ RemoveGate \/ FreeGate
           \/ RivalCalls \/ RivalReturns \/ UNCHANGED vars \/ \E c \in Clients : Transfer(c)
  BY <1>1 DEF AttachNub, StartNub, CannotStart, DisableGate, RemoveGate, FreeGate, RivalCalls,
        RivalReturns, vars, Transfer
<1>2. ASSUME NEW t \in Threads, ThreadStep(t) PROVE GateOK'
  BY <1>2 DEF ThreadStep, Read, ReadTurnedAway, EnterGate, FindDisabled, Aborted,
        UseFreedGate, LeaveGate, Return, Call, Inside
<1> QED
  BY <1>1, <1>2 DEF Next

(* A nub is well-formed, its resources and its gate. *)
THEOREM NubIsTyped == Spec => []TypeOK
<1>1. Init => GateOK
  BY DEF Init, GateOK
<1>2. Spec => []GateOK
  BY <1>1, NextGateOK, PTL DEF Spec
<1>3. IInv /\ AttachInv /\ GateOK => TypeOK
  BY DEF IInv, CallsTyped, AttachInv, ResourcesOK, GateOK, TypeOK
<1> QED
  BY SpecIInv, SpecAttachInv, <1>2, <1>3, PTL

(* Whatever firmware declares and however the threads of the satellite meet, every message of
   theirs carries the declared width and the low eight bits of the address declared along with
   it. *)
THEOREM RequestsMatchDeclaration == Spec => []RequestsAsDeclared
<1>1. Spec => []RequestInv
  BY SpecIInv, SpecAttachInv, InitRequestInv, NextRequestInv, PTL DEF Spec
<1>2. IInv /\ AttachInv /\ RequestInv => RequestsAsDeclared
  <2> SUFFICES ASSUME IInv, AttachInv, RequestInv, NEW t \in Threads, call[t] # "idle"
               PROVE  \E buffer \in {acpi.crs, acpi.dsm} : \E x \in Range(buffer) :
                        /\ FirstOf(buffer, "i2c", x)
                        /\ \A m \in Range(request[t]) : m.ten = x.ten /\ m.addr = x.addr % 256
    BY DEF RequestsAsDeclared
  <2>1. life \notin {"new", "refused"}
    BY DEF IInv, HolderInside, GateFollowsLife
  <2>2. PICK buffer \in {acpi.crs, acpi.dsm} : \E x \in Range(buffer) :
          FirstOf(buffer, "i2c", x) /\ info.ten = x.ten /\ info.addr = x.addr % 256
    BY <2>1 DEF AttachInv, ResourcesTogether
  <2>3. PICK x \in Range(buffer) :
          FirstOf(buffer, "i2c", x) /\ info.ten = x.ten /\ info.addr = x.addr % 256
    BY <2>2
  <2>4. \A m \in Range(request[t]) : m.addr = info.addr /\ m.ten = info.ten
    BY DEF RequestInv
  <2> QED
    BY <2>3, <2>4
<1> QED
  BY SpecIInv, SpecAttachInv, <1>1, <1>2, PTL
=============================================================================
