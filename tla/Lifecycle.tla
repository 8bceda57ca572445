------------------------------ MODULE Lifecycle ------------------------------
(***************************************************************************)
(* The life of one controller.  VoodooI2CPCIController or                   *)
(* VoodooI2CACPIController start and publish their nub, the driver matches  *)
(* on it, starts and publishes the device nubs; the power manager puts      *)
(* driver and controller to sleep and wakes them; satellites ask for        *)
(* transfers through the device nubs; at the end driver and controller are  *)
(* stopped.  Transfers are abstracted to what they need and what they       *)
(* change; module ControllerDriver has the rest.                            *)
(***************************************************************************)
EXTENDS Naturals, FiniteSets

CONSTANTS
  Devices,    \* the I2C slaves below the controller, each with one satellite
  PM,         \* the power-management thread
  Free,       \* value of the lock when nobody holds it
  Races,      \* may power changes arrive while the tree starts or stops?
  Faults      \* may what setPowerState(on) calls fail?

ASSUME NamesAssumption == PM \notin Devices /\ Free \notin Devices /\ PM # Free
ASSUME EnvironmentAssumption == Races \subseteq BOOLEAN /\ Faults \subseteq BOOLEAN

VARIABLES
  race,       \* an element of Races
  faults,     \* an element of Faults
  variant,    \* pci or acpi
  (* VoodooI2CController and its nub *)
  cpc,        \* where start and stop of the controller are
  cawake,     \* physical_device.awake
  mapped,     \* physical_device.mmap # NULL
  held,       \* the provider is retained and open
  cpm,        \* registered with the power manager
  nub,        \* the controller nub is published
  (* VoodooI2CControllerDriver *)
  dpc,        \* where start and stop of the driver are
  dawake,     \* bus_device.awake
  lockmem,    \* i2c_bus_lock: none, ok or freed
  gate,       \* command_gate is on the work loop
  dpm,        \* registered with the power manager
  irq,        \* is_interrupt_registered
  enabled,    \* IC_ENABLE
  configured, \* the block holds what initialiseBus writes
  lock,       \* holder of i2c_bus_lock
  (* VoodooI2CDeviceNub and the satellites *)
  pending,    \* children publishNubs has not come to yet
  nubs,       \* device_nubs
  dgate,      \* each nub's command gate: none, open or closed
  cl,         \* where each satellite is in a request
  (* the power manager *)
  pm

envVars  == <<race, faults, variant>>
ctlData  == <<cawake, mapped, held, cpm, nub>>
ctlVars  == <<cpc, ctlData>>
plumbing == <<lockmem, gate, dpm>>
block    == <<enabled, configured>>
drvVars  == <<dpc, dawake, plumbing, irq, block, lock>>
nubVars  == <<pending, nubs, dgate, cl>>
vars     == <<envVars, ctlVars, drvVars, nubVars, pm>>

ControllerPC == {"none", "power", "map", "publish", "up", "failed", "stop", "leave",
                 "gone"}
DriverPC == {"none", "lock", "gate", "power", "config", "bus", "irq", "publish", "up", "refused",
             "failed", "stopnubs", "release", "pmstop", "stopped"}
ClientPC == {"idle", "queued", "inside", "running", "leaving"}
PowerPC == {"on", "drvoff", "stopirq", "ctloff", "off", "drvon"}

Init ==
  /\ race \in Races /\ faults \in Faults /\ variant \in {"pci", "acpi"}
  /\ cpc = "none" /\ cawake = TRUE /\ mapped = FALSE
  /\ held = FALSE /\ cpm = FALSE /\ nub = FALSE
  /\ dpc = "none" /\ dawake = TRUE /\ lockmem = "none" /\ lock = Free
  /\ gate = FALSE /\ dpm = FALSE /\ irq = FALSE /\ enabled = FALSE /\ configured = FALSE
  /\ pending = Devices /\ nubs = {}
  /\ dgate = [d \in Devices |-> "none"]
  /\ cl = [d \in Devices |-> "idle"]
  /\ pm = "on"

(* A step of start or stop of the controller, of the driver, of a request. *)
ControllerStep(from, to) ==
  cpc = from /\ cpc' = to /\ UNCHANGED <<envVars, nubVars, pm>>
DriverStep(from, to) ==
  dpc = from /\ dpc' = to /\ UNCHANGED <<envVars, ctlVars, dawake, lock, pm>>
ClientStep(d, from, to) ==
  /\ cl[d] = from /\ cl' = [cl EXCEPT ![d] = to]
  /\ UNCHANGED <<envVars, ctlVars, dpc, dawake, plumbing, irq, configured,
                 pending, nubs, dgate, pm>>

(* Neither start nor stop is under way.  Unless power changes may race with them, each waits
   for the other. *)
Settled ==
  /\ cpc \in {"none", "up", "failed", "gone"}
  /\ dpc \in {"none", "up", "refused", "failed", "stopped"}

MayChangePower == race \/ Settled
MayStart == race \/ pm = "on"
MayStop == race \/ pm \in {"on", "off"}

(* The registers answer: mapped, and the block has power. *)
Reachable == mapped /\ cawake

-----------------------------------------------------------------------------
(* VoodooI2CController::start and what the two variants add to it. *)

StartController ==
  /\ MayStart
  /\ ControllerStep("none", "power")
  /\ cpm' = TRUE /\ held' = TRUE
  /\ UNCHANGED <<cawake, mapped, nub, drvVars>>

(* getACPIDevice and configurePCI, or _PS0. *)
PowerUp ==
  /\ ControllerStep("power", "map")
  /\ UNCHANGED <<ctlData, drvVars>>

NoACPIDevice ==
  /\ variant = "pci"
  /\ ControllerStep("power", "failed")
  /\ UNCHANGED <<ctlData, drvVars>>

MapOnStart ==
  /\ ControllerStep("map", "publish")
  /\ mapped' = TRUE
  /\ UNCHANGED <<cawake, held, cpm, nub, drvVars>>

CannotMapOnStart ==
  /\ ControllerStep("map", "failed")
  /\ mapped' = FALSE
  /\ UNCHANGED <<cawake, held, cpm, nub, drvVars>>

PublishNub ==
  /\ ControllerStep("publish", "up")
  /\ nub' = TRUE
  /\ UNCHANGED <<cawake, mapped, held, cpm, drvVars>>

CannotPublishNub ==
  /\ ControllerStep("publish", "failed")
  /\ UNCHANGED <<ctlData, drvVars>>

(* stop of a variant: the ACPI device is released, or _PS3 takes the power.  IOKit stops the
   driver first. *)
StopController ==
  /\ MayStop
  /\ dpc \in {"none", "refused", "failed", "stopped"}
  /\ ControllerStep("up", "stop")
  /\ configured' = (configured /\ variant = "pci")
  /\ UNCHANGED <<ctlData, dpc, dawake, plumbing, irq, enabled, lock>>

(* releaseResources gives everything back first and then leaves the power tree; power changes
   may come in between. *)
ReleaseController ==
  /\ ControllerStep("stop", "leave")
  /\ nub' = FALSE /\ mapped' = FALSE /\ held' = FALSE
  /\ UNCHANGED <<cawake, cpm, drvVars>>

(* Mutant: the power manager is not told. *)
EndSilently ==
  /\ ControllerStep("leave", "gone")
  /\ UNCHANGED <<ctlData, drvVars>>

(* PMstop *)
ControllerLeavesPowerTree ==
  /\ ControllerStep("leave", "gone")
  /\ cpm' = FALSE
  /\ UNCHANGED <<cawake, mapped, held, nub, drvVars>>

-----------------------------------------------------------------------------
(* VoodooI2CControllerDriver: probe and start. *)

(* DW_IC_COMP_TYPE of a block that is not mapped reads as 0. *)
Probe ==
  /\ MayStart /\ nub /\ cpc = "up" /\ mapped
  /\ DriverStep("none", "lock")
  /\ UNCHANGED <<plumbing, irq, block, nubVars>>

ProbeRefused ==
  /\ MayStart /\ nub /\ cpc = "up"
  /\ DriverStep("none", "refused")
  /\ UNCHANGED <<plumbing, irq, block, nubVars>>

AllocateLock ==
  /\ DriverStep("lock", "gate")
  /\ lockmem' = "ok"
  /\ UNCHANGED <<gate, dpm, irq, block, nubVars>>

OpenGate ==
  /\ DriverStep("gate", "power")
  /\ gate' = TRUE
  /\ UNCHANGED <<lockmem, dpm, irq, block, nubVars>>

JoinPowerTree ==
  /\ DriverStep("power", "config")
  /\ dpm' = TRUE
  /\ UNCHANGED <<lockmem, gate, irq, block, nubVars>>

ConfigureBus ==
  /\ DriverStep("config", "bus")
  /\ UNCHANGED <<plumbing, irq, block, nubVars>>

(* What initialiseBus writes to a block that does not answer is lost. *)
InitialiseOnStart ==
  /\ DriverStep("bus", "irq")
  /\ configured' = Reachable /\ enabled' = FALSE
  /\ UNCHANGED <<plumbing, irq, nubVars>>

(* The block stays active: start gives up and gives nothing back. *)
CannotInitialise ==
  /\ DriverStep("bus", "failed")
  /\ UNCHANGED <<plumbing, irq, block, nubVars>>

RegisterInterrupt ==
  /\ ~irq
  /\ DriverStep("irq", "publish")
  /\ irq' = TRUE
  /\ UNCHANGED <<plumbing, block, nubVars>>

(* releaseResources *)
Released ==
  /\ irq' = FALSE /\ gate' = FALSE
  /\ lockmem' = IF lockmem = "ok" THEN "freed" ELSE lockmem

(* The goto exits of start: no lock, no gate, no bus configuration, or an interrupt that
   cannot be registered (or already is).  The power manager is not told. *)
FailStart ==
  /\ dpc \in {"lock", "gate", "config", "irq"}
  /\ DriverStep(dpc, "failed")
  /\ Released
  /\ UNCHANGED <<dpm, block, nubVars>>

(* Mutant: the child is met again. *)
PublishDeviceAgain(d) ==
  /\ d \in pending
  /\ DriverStep("publish", "publish")
  /\ nubs' = nubs \cup {d}
  /\ dgate' = [dgate EXCEPT ![d] = "open"]
  /\ UNCHANGED <<plumbing, irq, block, pending, cl>>

(* publishNubs: one child after the other, each may fail on its own. *)
PublishDevice(d) ==
  /\ d \in pending
  /\ DriverStep("publish", "publish")
  /\ pending' = pending \ {d}
  /\ nubs' = nubs \cup {d}
  /\ dgate' = [dgate EXCEPT ![d] = "open"]
  /\ UNCHANGED <<plumbing, irq, block, cl>>

CannotPublishDevice(d) ==
  /\ d \in pending
  /\ DriverStep("publish", "publish")
  /\ pending' = pending \ {d}
  /\ UNCHANGED <<plumbing, irq, block, nubs, dgate, cl>>

Started ==
  /\ pending = {}
  /\ DriverStep("publish", "up")
  /\ UNCHANGED <<plumbing, irq, block, nubVars>>

-----------------------------------------------------------------------------
(* VoodooI2CControllerDriver::stop *)

StopDriver ==
  /\ MayStop /\ cpc = "up"
  /\ DriverStep("up", "stopnubs")
  /\ UNCHANGED <<plumbing, irq, block, nubVars>>

(* Mutant: the nub's gate is closed under a request that is inside. *)
StopDeviceNubNow(d) ==
  /\ d \in nubs
  /\ DriverStep("stopnubs", "stopnubs")
  /\ nubs' = nubs \ {d}
  /\ dgate' = [dgate EXCEPT ![d] = "closed"]
  /\ UNCHANGED <<plumbing, irq, block, pending, cl>>

(* Mutant: the nub stays in the array. *)
StopDeviceNubAgain(d) ==
  /\ d \in nubs /\ cl[d] = "idle"
  /\ DriverStep("stopnubs", "stopnubs")
  /\ dgate' = [dgate EXCEPT ![d] = "closed"]
  /\ UNCHANGED <<plumbing, irq, block, pending, nubs, cl>>

(* VoodooI2CDeviceNub::stop; taking the gate off its work loop waits for a request that is
   inside it. *)
StopDeviceNub(d) ==
  /\ d \in nubs /\ cl[d] = "idle"
  /\ DriverStep("stopnubs", "stopnubs")
  /\ nubs' = nubs \ {d}
  /\ dgate' = [dgate EXCEPT ![d] = "closed"]
  /\ UNCHANGED <<plumbing, irq, block, pending, cl>>

DisableBus ==
  /\ nubs = {}
  /\ DriverStep("stopnubs", "release")
  /\ enabled' = (enabled /\ ~dawake)
  /\ UNCHANGED <<plumbing, irq, configured, nubVars>>

ReleaseDriver ==
  /\ DriverStep("release", "pmstop")
  /\ Released
  /\ UNCHANGED <<dpm, block, nubVars>>

(* PMstop waits for a call of setPowerState that is under way and ends them. *)
LeavePowerTree ==
  /\ pm \notin {"drvoff", "stopirq", "drvon"}
  /\ DriverStep("pmstop", "stopped")
  /\ dpm' = FALSE
  /\ UNCHANGED <<lockmem, gate, irq, block, nubVars>>

-----------------------------------------------------------------------------
(* A satellite's request: the nub's gate, the bus lock, the transfer. *)

Request(d) ==
  /\ dgate[d] = "open"
  /\ ClientStep(d, "idle", "queued")
  /\ UNCHANGED <<lock, enabled>>

TakeLock(d) ==
  /\ lock = Free
  /\ ClientStep(d, "queued", "inside")
  /\ lock' = d
  /\ UNCHANGED enabled

(* Mutant: a busy controller is tried again, with the lock held. *)
RefuseBusyRetry(d) ==
  /\ ~dawake
  /\ ClientStep(d, "inside", "inside")
  /\ UNCHANGED <<lock, enabled>>

RefuseBusy(d) ==
  /\ ~dawake
  /\ ClientStep(d, "inside", "leaving")
  /\ UNCHANGED <<lock, enabled>>

BeginTransfer(d) ==
  /\ dawake
  /\ ClientStep(d, "inside", "running")
  /\ enabled' = Reachable
  /\ UNCHANGED lock

EndTransfer(d) ==
  /\ ClientStep(d, "running", "leaving")
  /\ enabled' = FALSE
  /\ UNCHANGED lock

GiveLockBack(d) ==
  /\ ClientStep(d, "leaving", "idle")
  /\ lock' = Free
  /\ UNCHANGED enabled

-----------------------------------------------------------------------------
(* Power: the driver goes to sleep before its controller and wakes after it. *)

BeginSleep ==
  /\ MayChangePower
  /\ pm = "on"
  /\ pm' = IF dpm THEN "drvoff" ELSE "ctloff"
  /\ UNCHANGED <<envVars, ctlVars, drvVars, nubVars>>

(* Mutant: a transfer that holds the lock is not waited for. *)
DriverOffUnlocked ==
  /\ pm = "drvoff" /\ dawake
  /\ lock' = PM
  /\ pm' = "stopirq"
  /\ dawake' = FALSE /\ enabled' = FALSE
  /\ UNCHANGED <<envVars, ctlVars, dpc, plumbing, irq, configured, nubVars>>

(* Mutant: the lock is tried, and the power change given up if it is taken. *)
DriverOffTrying ==
  /\ pm = "drvoff" /\ dawake
  /\ IF lock = Free
     THEN pm' = "stopirq" /\ lock' = PM /\ dawake' = FALSE /\ enabled' = FALSE
     ELSE pm' = "on" /\ UNCHANGED <<lock, dawake, enabled>>
  /\ UNCHANGED <<envVars, ctlVars, dpc, plumbing, irq, configured, nubVars>>

DriverOff ==
  /\ pm = "drvoff" /\ dawake /\ lock = Free
  /\ lock' = PM
  /\ pm' = "stopirq"
  /\ dawake' = FALSE /\ enabled' = FALSE
  /\ UNCHANGED <<envVars, ctlVars, dpc, plumbing, irq, configured, nubVars>>

StopInterrupt ==
  /\ pm = "stopirq"
  /\ irq' = FALSE
  /\ lock' = Free
  /\ pm' = "ctloff"
  /\ UNCHANGED <<envVars, ctlVars, dpc, dawake, plumbing, block, nubVars>>

(* The block loses its registers with its power. *)
ControllerOff ==
  /\ pm = "ctloff"
  /\ pm' = "off"
  /\ IF cpm /\ cawake
     THEN cawake' = FALSE /\ mapped' = FALSE /\ configured' = FALSE /\ enabled' = FALSE
     ELSE UNCHANGED <<cawake, mapped, block>>
  /\ UNCHANGED <<envVars, cpc, held, cpm, nub, dpc, dawake, plumbing, irq, lock, nubVars>>

(* How a call made by setPowerState(on) may end. *)
Outcome == IF faults THEN BOOLEAN ELSE {TRUE}

(* Mutant: the memory is mapped again only by the PCI controller. *)
RemapPCI == IF variant = "pci" THEN mapped' \in Outcome ELSE UNCHANGED mapped

(* mapMemory may fail; setPowerState goes on regardless.  Once releaseResources has given the
   provider back there is nothing to map (mapMemory calls it through a null pointer then). *)
Remap == mapped' \in {held /\ ok : ok \in Outcome}

ControllerOn ==
  /\ MayChangePower
  /\ pm = "off"
  /\ pm' = IF dpm THEN "drvon" ELSE "on"
  /\ IF cpm /\ ~cawake
     THEN cawake' = TRUE /\ Remap
     ELSE UNCHANGED <<cawake, mapped>>
  /\ UNCHANGED <<envVars, cpc, held, cpm, nub, drvVars, nubVars>>

(* Mutant: the bus is not initialised again. *)
WakeBusAsItWas ==
  /\ dawake' = TRUE /\ enabled' = FALSE
  /\ irq' \in (IF irq THEN {TRUE} ELSE Outcome)
  /\ UNCHANGED configured

(* initialiseBus and startI2CInterrupt may fail; setPowerState goes on regardless. *)
WakeBus ==
  /\ dawake' = TRUE /\ enabled' = FALSE
  /\ configured' \in {Reachable /\ ok : ok \in Outcome}
  /\ irq' \in (IF irq THEN {TRUE} ELSE Outcome)

DriverOn ==
  /\ pm = "drvon" /\ lock = Free
  /\ pm' = "on"
  /\ IF dawake THEN UNCHANGED <<dawake, irq, block>> ELSE WakeBus
  /\ UNCHANGED <<envVars, ctlVars, dpc, plumbing, lock, nubVars>>

-----------------------------------------------------------------------------
ControllerThread ==
  \/ PowerUp \/ NoACPIDevice \/ MapOnStart \/ CannotMapOnStart
  \/ PublishNub \/ CannotPublishNub
  \/ ReleaseController \/ ControllerLeavesPowerTree

DriverStarts ==
  \/ AllocateLock \/ OpenGate \/ JoinPowerTree \/ ConfigureBus
  \/ InitialiseOnStart \/ CannotInitialise \/ RegisterInterrupt \/ FailStart
  \/ \E d \in Devices : PublishDevice(d) \/ CannotPublishDevice(d)
  \/ Started

Satellite(d) ==
  \/ TakeLock(d) \/ RefuseBusy(d) \/ BeginTransfer(d) \/ EndTransfer(d) \/ GiveLockBack(d)

PowerManager == DriverOff \/ StopInterrupt \/ ControllerOff \/ DriverOn

Next ==
  \/ StartController \/ ControllerThread \/ StopController
  \/ Probe \/ ProbeRefused \/ DriverStarts \/ StopDriver
  \/ \E d \in Devices : StopDeviceNub(d)
  \/ DisableBus \/ ReleaseDriver \/ LeavePowerTree
  \/ \E d \in Devices : Request(d) \/ Satellite(d)
  \/ BeginSleep \/ PowerManager \/ ControllerOn

Spec == Init /\ [][Next]_vars

(* Starts, stops and power changes that have begun go on; a thread that waits for the lock or a
   gate gets it in the end.  Nothing has to be asked for, and the machine may sleep for ever. *)
Fairness ==
  /\ WF_vars(ControllerThread) /\ WF_vars(DriverStarts)
  /\ WF_vars(DisableBus) /\ WF_vars(ReleaseDriver) /\ SF_vars(LeavePowerTree)
  /\ \A d \in Devices : SF_vars(StopDeviceNub(d)) /\ SF_vars(Satellite(d))
  /\ SF_vars(PowerManager)

FairSpec == Spec /\ Fairness

-----------------------------------------------------------------------------
FlagsOK ==
  /\ race \in BOOLEAN /\ faults \in BOOLEAN
  /\ cawake \in BOOLEAN /\ mapped \in BOOLEAN /\ held \in BOOLEAN
  /\ cpm \in BOOLEAN /\ nub \in BOOLEAN
  /\ dawake \in BOOLEAN /\ gate \in BOOLEAN /\ dpm \in BOOLEAN
  /\ irq \in BOOLEAN /\ enabled \in BOOLEAN /\ configured \in BOOLEAN

(* Every variable has its type; no child is published twice. *)
TypeOK ==
  /\ FlagsOK /\ variant \in {"pci", "acpi"}
  /\ cpc \in ControllerPC /\ dpc \in DriverPC /\ pm \in PowerPC
  /\ lockmem \in {"none", "ok", "freed"} /\ lock \in Devices \cup {PM, Free}
  /\ pending \subseteq Devices /\ nubs \subseteq Devices \ pending
  /\ dgate \in [Devices -> {"none", "open", "closed"}]
  /\ cl \in [Devices -> ClientPC]

(* Whoever is inside a request finds the lock and the gate it uses: stop does not free them under
   a satellite, whatever the power manager does meanwhile (stop 666-684, releaseResources
   507-520). *)
GateAndLockThere ==
  \A d \in Devices : cl[d] # "idle" => lockmem = "ok" /\ gate /\ d \in nubs

(* While the controller is off no transfer runs, no interrupt is installed and the block is not
   enabled, so nobody is between the test of mmap and its use when unmapMemory takes it
   (setPowerState of driver and controller, readRegister 91-103).  A driver whose start failed is
   left out: the power manager still calls it, and wakes it. *)
QuietWhenOff ==
  ~race /\ dpc # "failed" /\ ~cawake =>
    ~enabled /\ ~irq /\ \A d \in Devices : cl[d] # "running"

(* A driver that says it is awake can serve a request: registers mapped, block configured,
   interrupt installed (start 595-660, setPowerState 581-590, setPowerState of the controller). *)
AwakeMeansReady ==
  ~race /\ ~faults /\ dpc = "up" /\ dawake /\ pm = "on" => mapped /\ configured /\ irq

(* The same for a transfer under way, in the middle of power changes: a transfer the lock let in
   has all it needs until it gives the lock back (setPowerState 573, transferI2C 715-733). *)
RunningIsServed ==
  \A d \in Devices :
    ~race /\ ~faults /\ cl[d] \in {"inside", "running"} /\ dawake => mapped /\ configured /\ irq

(* After both stops nothing that start took is kept (stop and releaseResources of driver and
   controller).  With races it would not hold: setPowerState may come between releaseResources
   and PMstop of the driver (682-684) and install the interrupt again. *)
StoppedHoldsNothing ==
  ~race /\ dpc = "stopped" /\ cpc = "gone" =>
    /\ ~mapped /\ ~held /\ ~cpm /\ ~nub
    /\ ~dpm /\ ~irq /\ ~gate /\ lockmem = "freed" /\ nubs = {} /\ lock = Free

(* stop comes to its end while satellites go on asking (stop 666-687). *)
StopEnds == dpc = "stopnubs" ~> dpc = "stopped"

(* A power change the manager has begun is never stuck behind requests, starts and stops
   (setPowerState 568-593). *)
SleepEnds == pm \in {"drvoff", "stopirq", "ctloff"} ~> pm = "off"

(* A request gets its answer, also when the controller sleeps or stops meanwhile. *)
RequestReturns == \A d \in Devices : cl[d] = "queued" ~> cl[d] = "idle"

(* VoodooI2CController.hpp:151: releaseResources is called during a graceful exit from start. *)
FailedStartReleases == cpc = "failed" => ~mapped /\ ~held /\ ~cpm

(* VoodooI2CControllerDriver.cpp:572: setPowerState takes the bus lock so as not to come into the
   middle of a session; the lock has to be there. *)
PowerFindsLock == pm \in {"drvoff", "stopirq", "drvon"} => lockmem = "ok"
=============================================================================
