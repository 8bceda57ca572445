# VoodooI2C in TLA+

A verification project for VoodooI2C, the macOS kernel extension that drives
Synopsys DesignWare I2C controllers and the touchpads, touchscreens and sensors
behind them.  It holds TLA+ modules translated from the C++ sources, TLC
configurations that model-check them on small instances, and theorems about them
that TLAPS checks.  `PROJECT.json` maps every definition to the source lines it
stands for and lists the runs, mutants, hazards and theorems.

    tlc -workers 2 -config driver_safety.cfg MCControllerDriver.tla
    tlc -workers 2 -config lifecycle.cfg MCLifecycle.tla
    tlapm ControllerDriverProofs.tla
    tlapm TransferProofs.tla
    tlapm ServiceProofs.tla
    tlapm LifecycleProofs.tla
    tlc -workers 2 -config device.cfg MCDeviceNub.tla
    tlapm SequenceLemmas.tla
    tlapm DeviceNubProofs.tla
    tlc -workers 2 -config bus_config.cfg MCBusConfig.tla
    tlapm BusConfigProofs.tla
    tlc -workers 2 -config multitouch.cfg MCMultitouch.tla
    tlapm MultitouchProofs.tla

## 1. Inventory of the system

| component | state it keeps | operations | hard behaviour |
|---|---|---|---|
| **Controller driver** (`VoodooI2CControllerDriver`) | `bus_device` (messages, two indices, status bits, outstanding reads, errors, `awake`), `i2c_bus_lock`, `command_gate`, `is_interrupt_registered` | `transferI2C`, `handleInterrupt`, `setPowerState`, `start`, `stop`, `publishNubs`, `getBusConfig` | client threads against a handler in interrupt context against the power manager; one transfer spread over many handler runs; deadline and lost wakeups |
| **Physical controller** (`VoodooI2CController`, PCI and ACPI variants) | `physical_device`: provider, `mmap`, `awake` | `mapMemory`, `unmapMemory`, `readRegister`, `writeRegister`, `setPowerState`, `publishNub`, `start`, `stop` | registers accessed while the mapping comes and goes; failures on wake |
| **Controller nub** (`VoodooI2CControllerNub`) | pointer to the controller | forwards registers and interrupts, reads ACPI timings | none of its own |
| **Device nub** (`VoodooI2CDeviceNub`) | command gate, own work loop, address, interrupt routing | `readI2C`, `writeI2C`, `writeReadI2C`, interrupt calls, `attach`, `start`, `stop` | callers of one device at a gate, refused or queued; stop while they wait |
| **ACPI resources parser** | what was found | `parseACPIResources` | descriptor arithmetic |
| **Multitouch interface, engines, transducers** | ordered set of engines; message, stylus flag, cached preference | `handleInterruptReport`, open/close, `isForceClickEnabled` | dispatch while engines come and go; state carried from report to report |
| **VoodooI2CServices** | registry plane, notifications | attach/detach to the plane | order of notifications |
| helpers, logger, templates, scripts, submodules | none | | |

How they interact.  A satellite driver calls the device nub, which enters its own
command gate and calls `transferI2C` of the controller driver; that takes
`i2c_bus_lock`, enters the controller's command gate, programs the block through the
nub's and controller's `readRegister`/`writeRegister`, and sleeps on
`command_complete`.  The interrupt of the block calls `handleInterrupt`, which moves
bytes between the messages and the FIFOs and, at the end, wakes the sleeper.  The
power manager calls `setPowerState` of driver and controller, children before
parents on the way down.  Touch satellites hand events to the multitouch
interface, which offers them to its engines by score.

What makes each correct:

* controller driver: calls are served one at a time; the bytes on the wire and in the
  buffers are the ones asked for, in order; FIFOs never overrun; a sleeper is always
  woken; a result says what happened; the handler never works for a call that is over;
  nothing moves while asleep.
* physical controller: registers are touched only while mapped and powered; awake
  means usable.
* device nub: one request at a time per device; a request carries what the device's
  firmware declares; every call returns and a stop ends, whoever stands at the gate.
* parser and bus configuration: what they compute is what the tables say.
* multitouch: every engine entitled to a report sees it, in order; what is carried
  from one report to the next is still true of the next.

## 2. Plan

1. *(done)* `Messages`, `DesignWare`, `I2CService`, `ControllerDriver`: the transfer
   path, with its proofs in `ControllerDriverProofs` (types, power, FIFO levels),
   `TransferProofs` (what is in the FIFOs) and `ServiceProofs` (results, refinement).
2. *(done)* `Lifecycle`: controller variants, nub, driver `start`/`stop`, the memory
   mapping, and the order in which IOKit calls them; safety of register
   accesses and of the freed lock and gate; the start that fails half way; its proofs in
   `LifecycleProofs`.
3. *(done)* `DeviceResources`, `DeviceNub`: resource selection, and the nub's gate and callers
   on top of `I2CService` (the abstract service the driver implements), start and stop; its
   proofs in `DeviceNubProofs`.
4. *(done)* `BusConfig`: the bus timings of `getBusConfig`, against what they should be, and
   what start, sleep and wake leave of them in the block; its proofs in `BusConfigProofs`.
5. *(done)* `NativeEngine`, `Multitouch`: dispatch while engines open and close, and the native
   engine's state from report to report; its proofs in `MultitouchProofs`.
6. *(done)* Theorems for every safety property and the action property of the runs, and for the
   refinement.  Left to TLC are the liveness properties.

## 3. The transfer path

### Modules

* **`Messages`**: a transfer is a sequence of messages (address, direction, length);
  the payload is abstracted to *positions*, <message, byte>, so that order,
  omission and duplication of bytes can be told apart but not their values.
* **`DesignWare`** (environment, not in this repository): the block as the driver uses
  it.  Commands wait in a transmit FIFO, are shifted out one by one, reads leave a
  position in the receive FIFO, a slave may refuse any byte (abort: flush,
  `TX_ABRT`), a stop bit ends the transfer (`STOP_DET`), the interrupt line is
  raw status and mask.  `sent` is a history variable: the last position acknowledged.
* **`ControllerDriver`** (extends `DesignWare`): per client a program counter through
  `transferI2C`; the handler with its own program counter and locals; the
  power manager; the lock.
* **`I2CService`**: the abstract service, four states per call and the position on
  the wire.  `ControllerDriver` implements it under the mapping `CallState`.

| code | model |
|---|---|
| `transferI2C`, `transferI2CGated` | `Call`, `Lock`, `Unlock` |
| `prepareTransferI2C` | `RefuseBusy`, `Setup`, `Sleep`, `Deadline`, `Signal`, `Finish`, `TimedOut` |
| `requestTransferI2C`, `toggleBusState`, `toggleInterrupts` | `Reprogram`, `Enable`, `Unmask`, `Disabled` |
| `setPowerState`, `stopI2CInterrupt` | `PowerOff`, `StopInterrupt`, `PowerOn` |
| `handleInterrupt`, `readClearInterruptBits` | `HandlerEnter`, `ReadClear`, `Wakeup`, `HandlerReturn`, `ReadMask`, `RestoreMask` |
| `readFromBus` | `RxEnd`, `RxSkipWrite`, `RxBegin`, `RxByte`, `RxPause`, `RxMessageDone` |
| `transferMessageToBus` | `TxSkip`, `TxEnter`, `TxBadMessage`, `TxBegin`, `TxPush`, `TxPause`, `TxMessageDone`, `TxEnd`, `TxSetMask` |

Indices count from 1.  The retry loop of `transferI2CGated` does not appear:
`command_error` is only ever 0 or `DW_IC_ERR_TX_ABRT`, so `kIOReturnNotReady` is
never returned.  The command gate adds no exclusion to `i2c_bus_lock` on this path
(`commandSleep` gives it back), so it is not a variable.  Interrupt bits the
driver never unmasks are left out.  Ten-bit addressing changes only register
contents and is abstracted into the address.

### Environments

`env` is chosen in `Init` and kept.  `hold`: the block keeps the bus while its FIFO is
empty (else it ends the transfer by itself).  `stuck`: a disabled block may stay active,
so that `toggleBusState` gives up.  `shared`: the handler may be called for another
device on the line.  `workaround`: the AMD mask quirk.  `signals`: the sleep may be
interrupted.  `lateirq`: threads may overtake a handler that is running (another
processor).  The safety run takes every environment with `hold`, without `signals` and
`lateirq`, and without `shared` and `workaround` together; what the ones left out do is
shown by the violation runs and named in the hazards, not hidden.

### Runs

* `driver_safety`: two clients, FIFOs of depth 2, four shapes of transfer: a write of one
  byte, a read of three from another slave (longer than the receive FIFO), a
  write of three and a read of two (longer than the transmit FIFO, spread over several
  handler runs), and a write followed by an empty read (the error path).  About
  1.3 million states.  A second client is enough for every hand-over
  of the lock; depth 2 is the smallest in which a FIFO can be partly full and the
  threshold (half the depth) differs from empty.
* `driver_liveness`: depth 1, one shape, the environments where everything is well and
  where everything goes wrong.  Two clients.
* `v_lost_wakeup`, `v_interrupted_sleep`, `v_overtaken_handler`, `v_restart_bit`: each shows
  a disagreement between the code and what its comments or headers say
  (`findings` in `PROJECT.json`).

Properties.  `TypeOK`; `NoFifoOverrun`; `ByteIsNext` (each byte on the wire is the one
after the last acknowledged, with the stop bit on the last only); `ReadsPlaced` (a
received byte goes where the buffer waits for it); `SuccessMeansDone`;
`NoStaleHandler` (the block is enabled only for the call that holds the lock, in every
environment, and without `lateirq` the handler works only for such a call); `NeverStalls` (a
sleeper always has something on its way); `TargetsSlave`; `AsleepIsQuiet`; `ImplementsService`
(refinement); `CallerReturns` and `TransferEnds` (liveness).  `TransferEnds` speaks of a caller that
sleeps *before* it is woken: it gets up without its deadline.  A wakeup that comes before
`commandSleep` is lost and leaves the call to its deadline; `v_lost_wakeup` shows that one.

Fairness.  `HandlerStep` and `StopInterrupt` are weakly fair: a started handler runs to its
end, and the power manager's wait for it ends.  `Proceed(c)` is strongly fair: the
kernel schedules a runnable thread, also one whose next step is disabled again
and again because another holds the lock or because interrupts break in
(`IOLock` is not a fair lock in theory; that a waiter gets it eventually
is the assumption).  `Call` is not fair.  `CallerReturns` assumes further that the
deadline comes, `TransferEnds` that the hardware moves and interrupts are delivered (and not
that the deadline comes); each states its assumption itself.

### Proofs

`ControllerDriverProofs` proves, for every set of clients, FIFO depth and set of
transfers (the assumptions are `ActorAssumption`, `RequestAssumption`,
`DepthAssumption`, `EnvAssumption`):

* `TypeCorrect`: `Spec => []TypeOK`, one lemma per group of variables.
* `AsleepStaysQuiet`: `Spec => []AsleepIsQuiet`, in every environment.  The invariant is
  `Locking`: who is past the lock is who holds it (`Owned`), the block is enabled only for
  that client (`EnabledForOwner`), a disabled block has empty FIFOs (`DisabledIsEmpty`).
* `HandlersServeHolder`: `Spec => []NoStaleHandler`, in every environment.  With threads on other
  processors overtaking a running handler (`lateirq`), what remains is that nobody but the holder of
  the lock has the block enabled, and so nobody else can start a handler; without, `HandlerHasOwner`
  ties the running handler to a client that is still in its transfer.  That a handler
  that *is* overtaken works for the next call is shown by `v_overtaken_handler`.
* `FifosNeverOverrun`: `NoFifoOverrun` when no environment has `lateirq` (`Unhurried`).  `NoFifoOverrun` is not
  inductive: that a byte finds room follows from `AccountInv`, which says that the reads
  in the transmit FIFO, the one on the bus and the bytes in the receive FIFO together are
  `receive_outstanding`, and that this never exceeds the depth; after an abort the account
  is void until the handler resets it (`AbortInv`).  The number of reads in a FIFO is
  bounded with a prefix count (`ReadsAtMost`), because a recursive definition
  would be out of the provers' reach.

`TransferProofs` goes on to what the FIFOs contain, under the same hypothesis `Unhurried`:

* `TargetsSlaveUnhurried` (`TargetsSlave`), from `SetupInv`: what each step of `requestTransferI2C` has
  left in the fields and registers, and that nothing but the handler changes them after it.
* `ByteIsNextUnhurried` (`ByteIsNext`), from `OrderInv`.  `ByteIsNext` speaks of the byte on the wire;
  what makes it inductive is `ChainInv`: the last acknowledged position, the byte being shifted and
  the commands in the transmit FIFO follow each other without a gap, each with the direction
  and stop bit of its position; and `WriteInv`: the last of them is where `widx`, `wip` and
  `transaction_buffer_length` say that the handler has got to, so that a handler run that
  goes on with a message starts where the one before stopped.
* `ReadsPlacedUnhurried` (`ReadsPlaced`), from `ReadInv`: the receive FIFO holds
  exactly the positions of reads between the cursor of `readFromBus` and the last acknowledged byte
  (`FetchInv`), in order, so that its head is the one the cursor waits for.

`ServiceProofs` needs more of the environment, `Calm`: the block holds the bus when its FIFO
is empty, no signal interrupts the sleep, no thread overtakes a handler.  Without the first a
slow handler lets the block end the transfer early, without the second
a signal is taken for a wakeup (`v_interrupted_sleep`); in both cases Success is returned for a
transfer that is not done, so the hypothesis is one the code needs.

* `SuccessMeansDoneCalm` (`SuccessMeansDone`).  The invariant `OutcomeInv` says that a stop
  condition, latched or read by the handler, is one after the last byte (`StopInv`), and that who is
  woken up has an error or is done (`WokenInv`).  That every read byte is in its buffer
  when `receive_outstanding` is 0 is lemma `DoneMeansRead`, which is where the account of
  reads (`AccountInv`) and the contents of the FIFO (`FetchInv`) meet.
* `DriverImplementsService` (`ImplementsService`): initial states map to initial states, and
  `ThreadImplements` and `OthersImplement` map every step to a step of `I2CService` or a stutter.
* `SleepersAreWoken` (`NeverStalls`).  The invariant `WaitInv` follows the handler: no read is forgotten in
  the count (`ExactInv`, an equality where `AccountInv` has a bound); a run that has
  seen the stop condition reads everything there is and so ends in `commandWakeup` (`DrainInv`); a run that
  finds an error does, too (`ErrorInv`); in between the mask hides at most `TX_EMPTY`, and that only after the last
  byte has been written (`UsefulInv`); after the last acknowledged byte the stop condition is on
  its way (`LastInv`).  Two hypotheses more, both needed (TLC finds a caller that stalls without
  either): `OwnLine`, that no block with the AMD workaround shares its line, because a
  handler called for another device can write the old, empty mask back over the one `Unmask` has
  set; and `Orderly`, that all messages of a transfer go to one slave and no
  empty message follows a read, because a bad message masks all interrupts while reads
  are outstanding, and the wakeup waits for these.  Every transfer of the device nub is
  orderly: a read, a write, or a write and a read of one slave.

Only model-checked: liveness (temporal reasoning under fairness and ENABLED are beyond the provers).

## 4. The life cycle and the power tree

### Module

**`Lifecycle`** models one controller of either variant, its nub, the driver on it, the device
nubs, one satellite per nub and the power manager.  A transfer is here only what it needs
(lock, gate, mapping, configured block, interrupt) and what it changes (`IC_ENABLE`); the
transfer path of section 3 is the detail behind `BeginTransfer` and `EndTransfer`.

| code | model |
|---|---|
| `VoodooI2CController::start`, `getACPIDevice`, `configurePCI`, `setACPIPowerState`, `mapMemory`, `publishNub` | `StartController`, `PowerUp`, `NoACPIDevice`, `MapOnStart`, `CannotMapOnStart`, `PublishNub`, `CannotPublishNub` |
| `stop`, `releaseResources` of the controller | `StopController`, `ReleaseController`, `ControllerLeavesPowerTree` |
| driver `probe` | `Probe`, `ProbeRefused` |
| driver `start` | `AllocateLock`, `OpenGate`, `JoinPowerTree`, `ConfigureBus`, `InitialiseOnStart`, `CannotInitialise`, `RegisterInterrupt`, `FailStart`, `PublishDevice`, `CannotPublishDevice`, `Started` |
| driver `stop`, `releaseResources` | `StopDriver`, `StopDeviceNub`, `DisableBus`, `ReleaseDriver` (with `Released`), `LeavePowerTree` |
| device nub calls, `transferI2C` | `Request`, `TakeLock`, `RefuseBusy`, `BeginTransfer`, `EndTransfer`, `GiveLockBack` |
| driver `setPowerState`, `stopI2CInterrupt` | `DriverOff`, `StopInterrupt`, `DriverOn` (with `WakeBus`) |
| controller `setPowerState` | `ControllerOff`, `ControllerOn` (with `Remap`) |

Assumed of IOKit, whose code is not here: the driver is stopped before its controller;
the power manager calls children first on the way down and parents first on the way
up; `PMstop` waits for a call under way; taking a gate off its work loop waits for the
request inside.  `registerPowerDriver` without `PMstop` leaves a service in the power tree
also when its start has failed.

### Environments

`race`: power changes may arrive in the middle of starts and stops; without it each waits for
the other.  `faults`: mapping, bus initialisation and interrupt registration may fail on wake,
where the code ignores their results.  `variant`: PCI or ACPI.  The run takes all eight
combinations; a property that needs `~race` or `~faults` says so itself, because the code
indeed breaks it otherwise:

* a wake between `registerPowerDriver` and `startI2CInterrupt` installs the interrupt first, and
  start then fails on `kIOReturnStillOpen`;
* a wake between `releaseResources` and `PMstop` installs the interrupt of a stopped driver and
  locks a freed lock; in the controller, whose `releaseResources` ends with `PMstop`, it finds the
  provider released (`Remap` maps nothing then; the code calls a null pointer);
* a fault on wake leaves a driver that says it is awake on a block it cannot use.

### Runs

* `lifecycle`: two slaves, so that one nub can be stopped while the other's satellite holds the
  lock or waits for it, and one may fail to be published; 18022 states, all
  behaviours to any length (nothing in the module counts, so no bound is needed).
  `GateAndLockThere` (no request ever finds its lock freed or its gate gone), `QuietWhenOff`
  (nobody can be between the test of `mmap` and its use when it goes), `AwakeMeansReady` and
  `RunningIsServed` (awake means mapped, configured and connected, idle or in the middle of
  power changes), `StoppedHoldsNothing`, and the liveness properties `StopEnds`, `SleepEnds`,
  `RequestReturns`.
* `v_failed_start`, `v_freed_lock`: what a start that fails half way leaves behind.

Fairness.  Starts, stops and power changes that have begun go on (weakly fair where nothing can
disable them, strongly where the lock or a call of the power manager can); a satellite's thread
gets the lock in the end; `command_gate->disable()` keeps new requests out while the gate is
taken off, hence strong fairness of `StopDeviceNub`.  Nobody has to start, stop, sleep,
wake or ask.

### Proofs

`LifecycleProofs` proves for every set of slaves, in every environment: `LifecycleTyped`,
`RequestsKeepLockAndGate` (`GateAndLockThere`) and `OffIsQuiet` (`QuietWhenOff`).  The inductive
invariant `IInv` has five parts beside the types: `Stages` (what each stage of start and stop
has acquired), `LockOwned`, `EnabledForTransfer`, `PowerTree` (who is registered when) and
`NoRaceInv` (where the driver may be when a power change is under way).  `QuietWhenOff` needs
all of them: that the controller is off only between `ControllerOff` and `ControllerOn`
or after its stop, that the driver has gone to sleep or stopped before, that a sleeping
driver has no transfer because both take the lock, and that only a transfer enables
the block.

Three more theorems say what start and wake have achieved, in the environments each property names:
`AwakeDriverIsReady` (`AwakeMeansReady`) and `TransfersAreServed` (`RunningIsServed`) from `ReadyInv`, which
says at each stage of start what a driver that is awake has behind it when no fault is about;
`StopsReleaseAll` (`StoppedHoldsNothing`) from `EndInv`, which follows the memory mapping and the power
tree to the end of a stop.  Only liveness is left to TLC.

## 5. The device nub

### Modules

* **`DeviceResources`**: `attach` up to the interrupt mode.  `acpi` is what one device declares:
  the buffers of `_CRS` and `_DSM` as sequences of descriptors, the first APIC pin, whether polling
  is forced; `info` is what the nub keeps.  The parser's recursion is a fold
  (`Parsed`) of what it does with one descriptor.
* **`DeviceNub`**: the nub's gate between the threads of its satellite (`thread`, `holder`,
  `gate`) and the controller driver, which is an instance of `I2CService`: the abstract module that
  `ControllerDriver` is checked to implement takes the place of the driver.  Every thread that is
  inside `transferI2C` is a client of it, and so is a `Rival`, another device on the bus.

| code | definitions |
|---|---|
| `parseACPISerialBus`, `parseACPIGPIO`, `parseACPIResources` | `SerialBus`, `Interrupt`, `IrqType`, `Parsed` |
| `getDeviceResources`, `parseResourcesCRS`/`DSM`, `validateAPICInterrupt` | `NoBus`, `GetDeviceResources` (with `Chosen`, `ValidAPIC`, `Address`) |
| `attach`, `getGPIOController` | `Attach`, `GetGPIOController` |
| `start`, `releaseResources` | `StartNub`, `CannotStart`, `DisableGate`, `RemoveGate`, `FreeGate` |
| `readI2C` (`attemptAction`) | `Read`, `ReadTurnedAway`, `LeaveGate` |
| `writeI2C`, `writeReadI2C` (`runAction`) | `Call`, `EnterGate`, `FindDisabled`, `Aborted`, `UseFreedGate`, `LeaveGate` |
| the messages of the three gated functions | `MessagesOf` |

`IOCommandGate` is external: `attemptAction` is refused while the work loop's lock is taken;
`runAction` waits for it, and on a gate that is disabled sleeps until it is woken with
`kIOReturnAborted`; `removeEventSource` takes the lock too, wakes who sleeps at the gate and waits for
them.  The lock is handed on in any order, so a thread that waits for it may get it only after
`removeEventSource` has, and after `releaseResources` has released gate and work loop: it goes on
with a gate that is no more (`UseFreedGate`).  What happens to it then is not defined; in the model it
returns, or is `lost`.  A satellite makes no new call once its nub stops.  All messages have one
byte: how many bytes go over the wire is the subject of section 3.

### Run

`device`: two threads, a rival, and 31 declarations: every pair of five buffers (none; a bus; an
interrupt alone; bus, interrupt without a pin, interrupt, second bus; another kind of bus, output
pin, interrupt, 10-bit bus, second interrupt) with an APIC pin just out of range, and one pair with
no, the first and the last valid APIC pin, with and without forced polling.  Five buffers are
enough for every outcome of the two parsers (bus or not, interrupt or not) and for each of them
to have to pass over something; two threads are enough for one to be inside while another is
refused or waits.  It shows
`ResourcesTogether` (address and interrupt are the first of their kind in one and the same
buffer), `InterruptNotMissed` (a slave is polled only if forced, or if no buffer that declares its bus
declares an interrupt), `OneCallPerDevice`, `RequestsAsDeclared` (the width and the low eight bits
of one declared address in every message, in both directions), and the liveness of `CallReturns`
(except for a thread that is lost as above) and `StopEnds`; 99663 states.

The nub keeps the address in eight bits, so a 10-bit address above 255 is cut although its
messages are flagged `I2C_M_TEN` (277 goes out as 21).  The model cuts it as the code does, and
`ResourcesTogether` and `RequestsAsDeclared` say so: they claim the eight bits that are kept.
Whether firmware uses such addresses is not in this repository; the hazard has no property.

Fairness: a call in the driver ends and the bus goes to every client that waits for it in the
end (what `CallerReturns` of section 3 says of the driver, under the fairness assumed there); the work loop's lock
goes to every thread that waits; a thread that can return does; a stop goes on.  Nobody has
to call, start or stop.  A read that is refused has returned, so nothing is claimed about how
often that happens.

### Proofs

`DeviceNubProofs` proves for any number of threads and whatever the devices declare:
`CallsAreSerial` (`OneCallPerDevice`).  It is not inductive: that the calls of a device exclude each
other on the bus follows from `HolderInside` (who is inside is who holds the gate, and only who is
inside is a client of the bus) and `GateFollowsLife` (nobody is inside or asleep at a gate that is not
there).

`NubIsTyped` (`TypeOK`), `RequestsMatchDeclaration` (`RequestsAsDeclared`), `ResourcesAreTogether`
(`ResourcesTogether`) and `InterruptIsUsed` (`InterruptNotMissed`) depend on what the parser makes of
buffers of any length.  The parser keeps the first descriptor of a kind, or nothing: `FoldLeft`
of a step that changes its result once.  `SequenceLemmas` proves that such a fold returns the first
descriptor of its kind (`KeepsFirstResult`): `FoldLeft` is defined by a recursive function,
and a function that is claimed to differ somewhere does so at a least argument (`Least`,
from the well-foundedness of the naturals), where one unfolding refutes the
claim.  On top of it, `FindsBus` and `FindsInterrupt` say what the two parsers return, and
`ResourcesChosen` which of the two buffers the nub takes.  Liveness stays with TLC.

## 6. The timing of the bus

### Module

**`BusConfig`**: `platform` is what controller and firmware declare: the clock, properties, what
the methods `SSCN` and `FMCN` return (functions on those values that are numbers), the version of
the block and its hold time after reset.  `config` is `bus_device.acpi_config`; `registers` what
the block holds; `step` how far start has come.  Power may change between any two steps,
because start calls `registerPowerDriver` first.

| code | definitions |
|---|---|
| `vi2c_scl_hcnt`, `vi2c_scl_lcnt`, `DIV_ROUND_CLOSEST_ULL` | the same names and `DivRoundClosest`; additions of times and the results wrap at `Word`, the product, 64 bits wide, does not |
| `getBusConfig` | `NoClock`, `GrabDefaults`, `CallSSCN`, `CallFMCN`, `DeriveSs`, `DeriveFs`, `AdjustHold` |
| `getACPIParams` | `GetACPIParams` |
| `initialiseBus`, from `start` and `setPowerState` | `Written`, `InitialiseOnStart`, `CannotInitialise`, `Wake` |
| `setPowerState` off | `Sleep` |

`DW_IC_CON`, the FIFO threshold and depths, which initialiseBus also writes or getBusConfig reads, are constants of the
transfer path (section 3) and not repeated.  `AdjustHold` reads two registers in one step.
A header says that a missing clock gives `kIOReturnNotFound`
(`VoodooI2CControllerDriver.hpp:175`); the code returns `kIOReturnError` and every caller treats
all errors alike.

### Run

`bus_config`: every combination of six clocks (two of those in `Info.plist`; 999 Hz, which
rounds to no clock; 2 and 3 MHz, with which the high count of fast mode wraps around or is 0; 4 MHz, just fast
enough with the longer fall time), hold and fall times, complete, absent and
half complete properties, four answers of `SSCN` and three of `FMCN`, old and new
blocks; 200320 states.  No behaviour is cut off: start is finite and power has no counter.  `Word` is 2^30, not 2^32,
because TLC's integers have 32 bits; what depends on it is that slow clocks wrap around, which they
do at any width.

* `CountsUsable`: from a clock that is fast enough (`ClockFastEnough`) the counts are the declared
  ones if a pair is complete, and else within half a clock of the specified times; never 0,
  never wrapped.  Half declared pairs are the hard case: the firmware's number for one count goes
  before the property's, and a pair it completes is not derived.
* `TimingKept`: an initialised block that is awake has the configuration's timing.  Not
  claimed after an `initialiseBus` that failed on wake (nobody looks at its result), nor for
  a hold time of 0, which is not written and so leaves the earlier one in the block.

### Proofs

`BusConfigProofs`: `TimingAlwaysKept` (`TimingKept`) on every platform, and `CountsAlwaysUsable`
(`CountsUsable`) on every platform whose products fit in a word, which its hypothesis
`NoOverflow` states.  The first rests on `Restored` and `HoldAdjusted`, and on a lemma that adding
the shift to a hold time without a reception part gives it one.  The second has two halves: `Rounding`, `HighCount` and
`LowCount` say what the formulas compute for every clock and time, and `Gathered` follows each
pair through start: from the properties to what is declared to what is derived.  That
`ClockFastEnough` needs a condition for the low count too was found by this proof.

## 7. Multitouch

### Modules

* **`NativeEngine`**: what one report becomes, and what is kept between reports.  An event is a number of contacts and
  the device's transducers; of a transducer its type, validity, confidence, vertical position and buttons.
  Contacts are converted one by one, each with its own call of `isForceClickEnabled` and its own
  reading of `stylus_check`; in between, time passes, preferences change and the engine's start goes on.
* **`Multitouch`** (extends it): the interface's set of engines, the two loops over it, the engines that
  open and close it, the native engine's start, and VoodooInput that opens and closes the
  native engine.  A loop is a record with its index and its bound; no loop holds a lock, so
  anything may happen between two of its steps.

| code | definitions |
|---|---|
| `VoodooI2CMultitouchInterface::handleInterruptReport`, `setProperty` | `BeginReport`, `BeginProperty`, `GetObject`, `EndLoop`, `Limit`, `Continue`, `Break` |
| interface `handleOpen`, `handleClose`, `orderEngines` | `OpenInterface`, `CloseInterface`, `OrderEngines` |
| `VoodooI2CNativeEngine::start` | `OpenInterface`, `ForgetInstance`, `PublishSupport`, `ResetStylus` |
| its `handleOpen`, `handleIsOpen`, `handleClose` | `OpenEngine`, `CloseEngine` (with `HandleOpen`, `HandleIsOpen`, `HandleClose`) |
| its `handleInterruptReport` | `NobodyToTell`, `NoTransducer`, `BeginConversion`, `ConvertContact` (with `NextSlot`), `FinishConversion` (with `Thumb`), `LoadInstance`, `Deliver` |
| its `onPropertyChange` | `NobodyToTell`, `NotifyProperty`, `LoadInstance`, `Deliver` |
| `isForceClickEnabled` | `ForceClick`, `ReadKey`, `AskForceClick` |
| the base class and engines of satellites | `OtherReturns` |

Assumed of what is not here: `OSOrderedSet` puts an engine behind those that outrank or equal it, and
its operations are atomic; VoodooInput is matched on `VoodooInputSupported` and one instance at a time
has the engine open; the contacts of one report are converted within a second (`TimePasses`: the
loop calls nothing that waits).  The fields `line`, `offered`, `moved`, `open`, `torn` and `split` of a loop
are history for the properties.

### Run

`multitouch`: 350868 states in four kinds of scenario, since the questions are independent: devices (touch pad, two
buttons, a screen whose reports begin with a stylus or leave it out) with ten, two and four events each, with
preferences and with none; one press of two contacts under eight preferences, in both orders of the two
keys, and with none at first; three engines, two of them of equal score, under each of the two loops; the native
engine alone under both loops at once, with preferences that are set for the first time.  Three engines are
enough for one to be above, one equal to and one below the one that moves; two instances of
VoodooInput for one to be left behind by the other; four contacts for the thumb to be looked for without a
button; `Second` = 2 ticks for a press before, at and after the end of the cache's second.

* `ServedInOrder`: engines above all that move are offered the report once, in order.  Those below
  may be skipped or asked twice, which the code does not prevent.
* `DeliveredToOpen`: who is sent a message had the native engine open during the loop.  Not
  that it still has: `handleClose` takes no lock against `messageClient`.
* `InstanceRemembered`: the engine's start, which goes on after it can be opened, forgets nobody.
* `PressReportedOnce`: force click, button and trackpoint exclude each other over all contacts of a
  report, however the cached preference ages and changes under the conversion.  One exception is
  the code's, and `split` marks exactly it: without a dictionary `isForceClickEnabled` returns before it
  renews its time stamp (150-152), so the next contact looks again, and the first preferences set between
  two contacts make one press both a button and a force click.
* `SlotsMatchContacts`: the message has fingers only, in order and without a gap.  A device that has sent a
  stylus may lose the first finger of a later report without one, because `stylus_check` is set and never
  reset by reports; and start resets it only after `VoodooInputSupported`, so under a conversion
  too (`torn`), of which nothing is claimed.
* `ThumbIsLowest`, `FreshAfterPause`: the result of the thumb search; a contact of a press that comes a
  second after the last one follows the preferences as they are then, in either order of the keys.
* `WalksEnd`: a loop ends, though `setProperty` counts the engines anew each turn
  and engines may come back while it runs: its index only grows, and the set is finite.

Fairness: weak fairness of the steps of a loop: an engine that is called returns.  Nobody has to
open, close, report or change anything.

### Proofs

`MultitouchProofs` proves for every set of engines, scores, devices and preferences:

* `MessagesReachClients` (`DeliveredToOpen`) and `ClientIsRemembered` (`InstanceRemembered`).  The
  invariant adds that nobody has the engine open before `VoodooInputSupported` is set
  (`NobodyBeforeSupport`, without which `ForgetInstance` would forget somebody) and that every loop
  under way has noted who has it open (`OpenNoted`).
* `TypesHold` (`TypeOK`).  The invariant `Typed` adds that a report under way has an event of the device.  The
  lemmas before it say what the parts of the conversion return: `ForceClickRead` that the fold over the
  preferences depends on what they say and not on their order, `ThumbTyped` and those after it that the
  search for the thumb changes one slot at most.
* `ThumbsAreLowest` (`ThumbIsLowest`), `FingersInOrder` (`SlotsMatchContacts`) and `PressesReportedOnce`
  (`PressReportedOnce`).  The invariant `Contents` follows the message as it is made, contact by contact.
  `MessageMade`: each contact has no transducer, or one whose button it shows unless it is a
  force click.  `MessageInLine`: the contacts are those of the transducers from the first or from the second
  on, as `stylus_check` said when the conversion began and, unless start resets it, says until it
  ends.  `MessageAnswered`: all contacts that ask have had one answer, and the next will have it, because
  the last asked less than a second ago or because there is nothing to read (`Held`); `split` is the one
  step that breaks this.  `StylusSeen`: a flag that is set comes from a report of the device, this one
  or one before.
* `PreferencesAreFresh` (`FreshAfterPause`), an action property, from `Typed`.
* `EnginesServedInOrder` (`ServedInOrder`).  The invariant `InPlace` says that the set is sorted
  and has an engine once (`Sorted`, `Distinct`), and that the engines above all that have moved
  since a loop began are the first of the set, in the places they had then, and have
  been offered the report up to the loop's index (`Placed`).  An engine that comes or goes lower down
  moves none of them (`Inserted`, `Removed` of `SequenceLemmas`).

Two hypotheses on the device are needed:
`FingersFollow` (for `FingersInOrder`), that only the first transducer of a report may be a stylus;
reports with one and without one may alternate.  `stylus_check` skips the first transducer and nothing else.
`OneButton` (for `PressesReportedOnce`), that only the first transducer carries the pad's button, which is what
the comment at `VoodooI2CNativeEngine.cpp:74` says (a second button beside it would be passed on next to the force
click).  The devices of the run satisfy both.

That a dictionary has each key once is part of `Preferences`.  `FoldLeft` is a recursive function
chosen by its equation; `LoopExists` proves that there is one, `LoopTurn` is its step, and the folds above
are reasoned about with these.  Only `WalksEnd` stays with TLC.

## 8. Not modelled

* The walk of the resources parser over bytes, and so what it makes of small descriptors (the
  buffers of the model hold large ones only).
* The interrupt calls of the device nub, which pass on to VoodooGPIO or the ACPI device.
* `setBusConfigProperties`, which shows the configuration in the registry for a reader.
* The multitouch interface's own `stop`: its satellite has stopped reporting before it, in
  code that is not here.
* `serialize` and the factories of the transducers, which compute nothing.
* The registry plane of VoodooI2CServices, which mirrors the service tree for inspection and
  is read back by nothing; the logger, helpers, templates and project files.
* VoodooGPIO, VoodooInput and the satellites, which are submodules and not in this tree.
