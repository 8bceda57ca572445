-------------------------- MODULE LifecycleProofs --------------------------
(***************************************************************************)
(* Theorems about Lifecycle, for every set of slaves and in every           *)
(* environment: with races and without, with faults and without.            *)
(***************************************************************************)
EXTENDS Lifecycle, TLAPS

(* What each program counter has already done: the stages of start and stop. *)
Stages ==
  /\ dpc \in {"gate", "power", "config", "bus", "irq", "publish", "up", "stopnubs", "release"}
       => lockmem = "ok"
  /\ dpc \in {"power", "config", "bus", "irq", "publish", "up", "stopnubs", "release"} => gate
  /\ dpc \notin {"publish", "up", "stopnubs"} => nubs = {}
  /\ \A d \in Devices : (dgate[d] = "open" \/ cl[d] # "idle") => d \in nubs

(* The lock belongs to the thread that is past it. *)
LockOwned ==
  /\ \A d \in Devices : cl[d] \in {"inside", "running", "leaving"} <=> lock = d
  /\ pm = "stopirq" <=> lock = PM

(* The block is enabled only for a transfer, and a transfer runs only while awake. *)
EnabledForTransfer ==
  /\ enabled => \E d \in Devices : cl[d] = "running"
  /\ \A d \in Devices : cl[d] = "running" => dawake

(* The driver is in the power tree from JoinPowerTree to PMstop, the controller from its start
   to its PMstop, and the driver lives inside the life of its controller. *)
PowerTree ==
  /\ dpc \in {"config", "bus", "irq", "publish", "up", "stopnubs", "release", "pmstop"} => dpm
  /\ dpm => dpc \in {"config", "bus", "irq", "publish", "up", "stopnubs", "release", "pmstop",
                     "failed"}
  /\ pm \in {"drvoff", "stopirq", "drvon"} => dpm
  /\ cpm <=> cpc \notin {"none", "gone"}
  /\ held <=> cpc \notin {"none", "leave", "gone"}
  /\ dpc \notin {"none", "refused", "failed", "stopped"} => cpc = "up"
  /\ cpc = "none" => cawake

(* Without races a power change never meets a start or a stop half way. *)
NoRaceInv ==
  ~race =>
    /\ pm # "on" => dpc \in {"none", "up", "refused", "failed", "stopped", "stopnubs", "release",
                             "pmstop"}
    /\ pm \notin {"on", "off"} => dpc \in {"none", "up", "refused", "failed", "stopped"}
    /\ irq => dpc \in {"publish", "up", "stopnubs", "release", "failed"}
    /\ pm = "stopirq" => ~dawake
    /\ pm \in {"ctloff", "off"} /\ dpc \in {"up", "stopnubs", "release", "pmstop"}
         => ~dawake /\ ~irq
    /\ ~cawake => pm = "off" \/ ~cpm

(* Without races and faults a driver that is up and awake has what a transfer needs; that the
   memory is mapped follows from the controller being awake. *)
ReadyInv ==
  ~race /\ ~faults =>
    /\ cpc \in {"publish", "up"} /\ cawake => mapped
    /\ dpc = "irq" => configured
    /\ dpc \in {"publish", "up", "stopnubs"} /\ dawake => configured /\ irq

(* What the two releaseResources give back stays given back. *)
EndInv ==
  /\ cpc \in {"leave", "gone"} => ~mapped /\ ~held /\ ~nub
  /\ dpc \in {"pmstop", "stopped"} => ~gate /\ lockmem = "freed"

IInv ==
  /\ TypeOK /\ Stages /\ LockOwned /\ EnabledForTransfer /\ PowerTree /\ NoRaceInv
  /\ ReadyInv /\ EndInv

-----------------------------------------------------------------------------
(* Every step leaves every flag a Boolean. *)
LEMMA FlagsPreserved == FlagsOK /\ [Next]_vars => FlagsOK'
<1> SUFFICES ASSUME FlagsOK, [Next]_vars PROVE FlagsOK'
  OBVIOUS
<1> USE DEF FlagsOK, envVars, ctlVars, ctlData, plumbing, block, drvVars, nubVars
<1>1. CASE StartController
  BY <1>1, ZenonT(60) DEF ControllerStep, StartController
<1>2. CASE PowerUp
  BY <1>2, ZenonT(60) DEF ControllerStep, PowerUp
<1>3. CASE NoACPIDevice
  BY <1>3, ZenonT(60) DEF ControllerStep, NoACPIDevice
<1>4. CASE MapOnStart
  BY <1>4, ZenonT(60) DEF ControllerStep, MapOnStart
<1>5. CASE CannotMapOnStart
  BY <1>5, ZenonT(60) DEF ControllerStep, CannotMapOnStart
<1>6. CASE PublishNub
  BY <1>6, ZenonT(60) DEF ControllerStep, PublishNub
<1>7. CASE CannotPublishNub
  BY <1>7, ZenonT(60) DEF ControllerStep, CannotPublishNub
<1>8. CASE StopController
  BY <1>8, ZenonT(60) DEF ControllerStep, StopController
<1>9. CASE ReleaseController
  BY <1>9, ZenonT(60) DEF ControllerStep, ReleaseController
<1>90. CASE ControllerLeavesPowerTree
  BY <1>90, ZenonT(60) DEF ControllerStep, ControllerLeavesPowerTree
<1>10. CASE Probe
  BY <1>10, ZenonT(60) DEF DriverStep, Probe
<1>11. CASE ProbeRefused
  BY <1>11, ZenonT(60) DEF DriverStep, ProbeRefused
<1>12. CASE AllocateLock
  BY <1>12, ZenonT(60) DEF DriverStep, AllocateLock
<1>13. CASE OpenGate
  BY <1>13, ZenonT(60) DEF DriverStep, OpenGate
<1>14. CASE JoinPowerTree
  BY <1>14, ZenonT(60) DEF DriverStep, JoinPowerTree
<1>15. CASE ConfigureBus
  BY <1>15, ZenonT(60) DEF DriverStep, ConfigureBus
<1>16. CASE InitialiseOnStart
  BY <1>16, ZenonT(60) DEF DriverStep, Reachable, InitialiseOnStart
<1>17. CASE CannotInitialise
  BY <1>17, ZenonT(60) DEF DriverStep, CannotInitialise
<1>18. CASE RegisterInterrupt
  BY <1>18, ZenonT(60) DEF DriverStep, RegisterInterrupt
<1>19. CASE FailStart
  BY <1>19, ZenonT(60) DEF DriverStep, Released, FailStart
<1>20. CASE Started
  BY <1>20, ZenonT(60) DEF DriverStep, Started
<1>21. CASE StopDriver
  BY <1>21, ZenonT(60) DEF DriverStep, StopDriver
<1>22. CASE DisableBus
  BY <1>22, ZenonT(60) DEF DriverStep, DisableBus
<1>23. CASE ReleaseDriver
  BY <1>23, ZenonT(60) DEF DriverStep, Released, ReleaseDriver
<1>24. CASE LeavePowerTree
  BY <1>24, ZenonT(60) DEF DriverStep, LeavePowerTree
<1>25. CASE BeginSleep
  BY <1>25, ZenonT(60) DEF BeginSleep
<1>26. CASE DriverOff
  BY <1>26, ZenonT(60) DEF DriverOff
<1>27. CASE StopInterrupt
  BY <1>27, ZenonT(60) DEF StopInterrupt
<1>28. CASE ControllerOff
  BY <1>28, ZenonT(60) DEF ControllerOff
<1>29. CASE ControllerOn
  BY <1>29, ZenonT(60) DEF Remap, Outcome, ControllerOn
<1>30. CASE DriverOn
  BY <1>30, ZenonT(60) DEF WakeBus, Outcome, Reachable, DriverOn
<1>31. ASSUME NEW d \in Devices, PublishDevice(d) PROVE FlagsOK'
  BY <1>31, ZenonT(60) DEF DriverStep, PublishDevice
<1>32. ASSUME NEW d \in Devices, CannotPublishDevice(d) PROVE FlagsOK'
  BY <1>32, ZenonT(60) DEF DriverStep, CannotPublishDevice
<1>33. ASSUME NEW d \in Devices, StopDeviceNub(d) PROVE FlagsOK'
  BY <1>33, ZenonT(60) DEF DriverStep, StopDeviceNub
<1>34. ASSUME NEW d \in Devices, Request(d) PROVE FlagsOK'
  BY <1>34, ZenonT(60) DEF ClientStep, Request
<1>35. ASSUME NEW d \in Devices, TakeLock(d) PROVE FlagsOK'
  BY <1>35, ZenonT(60) DEF ClientStep, TakeLock
<1>36. ASSUME NEW d \in Devices, RefuseBusy(d) PROVE FlagsOK'
  BY <1>36, ZenonT(60) DEF ClientStep, RefuseBusy
<1>37. ASSUME NEW d \in Devices, BeginTransfer(d) PROVE FlagsOK'
  BY <1>37, ZenonT(60) DEF ClientStep, Reachable, BeginTransfer
<1>38. ASSUME NEW d \in Devices, EndTransfer(d) PROVE FlagsOK'
  BY <1>38, ZenonT(60) DEF ClientStep, EndTransfer
<1>39. ASSUME NEW d \in Devices, GiveLockBack(d) PROVE FlagsOK'
  BY <1>39, ZenonT(60) DEF ClientStep, GiveLockBack
<1>40. CASE UNCHANGED vars
  BY <1>40 DEF vars
<1> QED
  BY <1>1, <1>2, <1>3, <1>4, <1>5, <1>6, <1>7, <1>8, <1>9, <1>90, <1>10, <1>11, <1>12, <1>13, <1>14,
     <1>15, <1>16, <1>17, <1>18, <1>19, <1>20, <1>21, <1>22, <1>23, <1>24, <1>25, <1>26, <1>27, <1>28,
     <1>29, <1>30, <1>31, <1>32, <1>33, <1>34, <1>35, <1>36, <1>37, <1>38, <1>39, <1>40
     DEF Next, ControllerThread, DriverStarts, Satellite, PowerManager

(* Every step keeps every variable in its type. *)
LEMMA TypePreserved == TypeOK /\ FlagsOK' /\ [Next]_vars => TypeOK'
<1> SUFFICES ASSUME TypeOK /\ FlagsOK', [Next]_vars PROVE TypeOK'
  OBVIOUS
<1> USE DEF TypeOK, envVars, ctlVars, ctlData, plumbing, block, drvVars, nubVars, ControllerPC,
            DriverPC, ClientPC, PowerPC
<1>1. CASE StartController
  BY <1>1 DEF ControllerStep, StartController
<1>2. CASE PowerUp
  BY <1>2 DEF ControllerStep, PowerUp
<1>3. CASE NoACPIDevice
  BY <1>3 DEF ControllerStep, NoACPIDevice
<1>4. CASE MapOnStart
  BY <1>4 DEF ControllerStep, MapOnStart
<1>5. CASE CannotMapOnStart
  BY <1>5 DEF ControllerStep, CannotMapOnStart
<1>6. CASE PublishNub
  BY <1>6 DEF ControllerStep, PublishNub
<1>7. CASE CannotPublishNub
  BY <1>7 DEF ControllerStep, CannotPublishNub
<1>8. CASE StopController
  BY <1>8 DEF ControllerStep, StopController
<1>9. CASE ReleaseController
  BY <1>9 DEF ControllerStep, ReleaseController
<1>90. CASE ControllerLeavesPowerTree
  BY <1>90 DEF ControllerStep, ControllerLeavesPowerTree
<1>10. CASE Probe
  BY <1>10 DEF DriverStep, Probe
<1>11. CASE ProbeRefused
  BY <1>11 DEF DriverStep, ProbeRefused
<1>12. CASE AllocateLock
  BY <1>12 DEF DriverStep, AllocateLock
<1>13. CASE OpenGate
  BY <1>13 DEF DriverStep, OpenGate
<1>14. CASE JoinPowerTree
  BY <1>14 DEF DriverStep, JoinPowerTree
<1>15. CASE ConfigureBus
  BY <1>15 DEF DriverStep, ConfigureBus
<1>16. CASE InitialiseOnStart
  BY <1>16 DEF DriverStep, Reachable, InitialiseOnStart
<1>17. CASE CannotInitialise
  BY <1>17 DEF DriverStep, CannotInitialise
<1>18. CASE RegisterInterrupt
  BY <1>18 DEF DriverStep, RegisterInterrupt
<1>19. CASE FailStart
  BY <1>19 DEF DriverStep, Released, FailStart
<1>20. CASE Started
  BY <1>20 DEF DriverStep, Started
<1>21. CASE StopDriver
  BY <1>21 DEF DriverStep, StopDriver
<1>22. CASE DisableBus
  BY <1>22 DEF DriverStep, DisableBus
<1>23. CASE ReleaseDriver
  BY <1>23 DEF DriverStep, Released, ReleaseDriver
<1>24. CASE LeavePowerTree
  BY <1>24 DEF DriverStep, LeavePowerTree
<1>25. CASE BeginSleep
  BY <1>25 DEF BeginSleep
<1>26. CASE DriverOff
  BY <1>26 DEF DriverOff
<1>27. CASE StopInterrupt
  BY <1>27 DEF StopInterrupt
<1>28. CASE ControllerOff
  BY <1>28 DEF ControllerOff
<1>29. CASE ControllerOn
  BY <1>29 DEF Remap, Outcome, ControllerOn
<1>30. CASE DriverOn
  BY <1>30 DEF WakeBus, Outcome, Reachable, DriverOn
<1>31. ASSUME NEW d \in Devices, PublishDevice(d) PROVE TypeOK'
  BY <1>31 DEF DriverStep, PublishDevice
<1>32. ASSUME NEW d \in Devices, CannotPublishDevice(d) PROVE TypeOK'
  BY <1>32 DEF DriverStep, CannotPublishDevice
<1>33. ASSUME NEW d \in Devices, StopDeviceNub(d) PROVE TypeOK'
  BY <1>33 DEF DriverStep, StopDeviceNub
<1>34. ASSUME NEW d \in Devices, Request(d) PROVE TypeOK'
  BY <1>34 DEF ClientStep, Request
<1>35. ASSUME NEW d \in Devices, TakeLock(d) PROVE TypeOK'
  BY <1>35 DEF ClientStep, TakeLock
<1>36. ASSUME NEW d \in Devices, RefuseBusy(d) PROVE TypeOK'
  BY <1>36 DEF ClientStep, RefuseBusy
<1>37. ASSUME NEW d \in Devices, BeginTransfer(d) PROVE TypeOK'
  BY <1>37 DEF ClientStep, Reachable, BeginTransfer
<1>38. ASSUME NEW d \in Devices, EndTransfer(d) PROVE TypeOK'
  BY <1>38 DEF ClientStep, EndTransfer
<1>39. ASSUME NEW d \in Devices, GiveLockBack(d) PROVE TypeOK'
  BY <1>39 DEF ClientStep, GiveLockBack
<1>40. CASE UNCHANGED vars
  BY <1>40 DEF vars
<1> QED
  BY <1>1, <1>2, <1>3, <1>4, <1>5, <1>6, <1>7, <1>8, <1>9, <1>90, <1>10, <1>11, <1>12, <1>13, <1>14,
     <1>15, <1>16, <1>17, <1>18, <1>19, <1>20, <1>21, <1>22, <1>23, <1>24, <1>25, <1>26, <1>27, <1>28,
     <1>29, <1>30, <1>31, <1>32, <1>33, <1>34, <1>35, <1>36, <1>37, <1>38, <1>39, <1>40
     DEF Next, ControllerThread, DriverStarts, Satellite, PowerManager

(* start and stop go through their stages in order. *)
LEMMA StagesPreserved == TypeOK /\ Stages /\ [Next]_vars => Stages'
<1> SUFFICES ASSUME TypeOK /\ Stages, [Next]_vars PROVE Stages'
  OBVIOUS
<1> USE DEF TypeOK, Stages, envVars, ctlVars, ctlData, plumbing, block, drvVars, nubVars
<1>1. CASE StartController
  BY <1>1 DEF ControllerStep, StartController
<1>2. CASE PowerUp
  BY <1>2 DEF ControllerStep, PowerUp
<1>3. CASE NoACPIDevice
  BY <1>3 DEF ControllerStep, NoACPIDevice
<1>4. CASE MapOnStart
  BY <1>4 DEF ControllerStep, MapOnStart
<1>5. CASE CannotMapOnStart
  BY <1>5 DEF ControllerStep, CannotMapOnStart
<1>6. CASE PublishNub
  BY <1>6 DEF ControllerStep, PublishNub
<1>7. CASE CannotPublishNub
  BY <1>7 DEF ControllerStep, CannotPublishNub
<1>8. CASE StopController
  BY <1>8 DEF ControllerStep, StopController
<1>9. CASE ReleaseController
  BY <1>9 DEF ControllerStep, ReleaseController
<1>90. CASE ControllerLeavesPowerTree
  BY <1>90 DEF ControllerStep, ControllerLeavesPowerTree
<1>10. CASE Probe
  BY <1>10 DEF DriverStep, Probe
<1>11. CASE ProbeRefused
  BY <1>11 DEF DriverStep, ProbeRefused
<1>12. CASE AllocateLock
  BY <1>12 DEF DriverStep, AllocateLock
<1>13. CASE OpenGate
  BY <1>13 DEF DriverStep, OpenGate
<1>14. CASE JoinPowerTree
  BY <1>14 DEF DriverStep, JoinPowerTree
<1>15. CASE ConfigureBus
  BY <1>15 DEF DriverStep, ConfigureBus
<1>16. CASE InitialiseOnStart
  BY <1>16 DEF DriverStep, Reachable, InitialiseOnStart
<1>17. CASE CannotInitialise
  BY <1>17 DEF DriverStep, CannotInitialise
<1>18. CASE RegisterInterrupt
  BY <1>18 DEF DriverStep, RegisterInterrupt
<1>19. CASE FailStart
  BY <1>19 DEF DriverStep, Released, FailStart
<1>20. CASE Started
  BY <1>20 DEF DriverStep, Started
<1>21. CASE StopDriver
  BY <1>21 DEF DriverStep, StopDriver
<1>22. CASE DisableBus
  BY <1>22 DEF DriverStep, DisableBus
<1>23. CASE ReleaseDriver
  BY <1>23 DEF DriverStep, Released, ReleaseDriver
<1>24. CASE LeavePowerTree
  BY <1>24 DEF DriverStep, LeavePowerTree
<1>25. CASE BeginSleep
  BY <1>25 DEF BeginSleep
<1>26. CASE DriverOff
  BY <1>26 DEF DriverOff
<1>27. CASE StopInterrupt
  BY <1>27 DEF StopInterrupt
<1>28. CASE ControllerOff
  BY <1>28 DEF ControllerOff
<1>29. CASE ControllerOn
  BY <1>29 DEF Remap, Outcome, ControllerOn
<1>30. CASE DriverOn
  BY <1>30 DEF WakeBus, Outcome, Reachable, DriverOn
<1>31. ASSUME NEW d \in Devices, PublishDevice(d) PROVE Stages'
  BY <1>31 DEF DriverStep, PublishDevice
<1>32. ASSUME NEW d \in Devices, CannotPublishDevice(d) PROVE Stages'
  BY <1>32 DEF DriverStep, CannotPublishDevice
<1>33. ASSUME NEW d \in Devices, StopDeviceNub(d) PROVE Stages'
  BY <1>33 DEF DriverStep, StopDeviceNub
<1>34. ASSUME NEW d \in Devices, Request(d) PROVE Stages'
  BY <1>34 DEF ClientStep, Request
<1>35. ASSUME NEW d \in Devices, TakeLock(d) PROVE Stages'
  BY <1>35 DEF ClientStep, TakeLock
<1>36. ASSUME NEW d \in Devices, RefuseBusy(d) PROVE Stages'
  BY <1>36 DEF ClientStep, RefuseBusy
<1>37. ASSUME NEW d \in Devices, BeginTransfer(d) PROVE Stages'
  BY <1>37 DEF ClientStep, Reachable, BeginTransfer
<1>38. ASSUME NEW d \in Devices, EndTransfer(d) PROVE Stages'
  BY <1>38 DEF ClientStep, EndTransfer
<1>39. ASSUME NEW d \in Devices, GiveLockBack(d) PROVE Stages'
  BY <1>39 DEF ClientStep, GiveLockBack
<1>40. CASE UNCHANGED vars
  BY <1>40 DEF vars
<1> QED
  BY <1>1, <1>2, <1>3, <1>4, <1>5, <1>6, <1>7, <1>8, <1>9, <1>90, <1>10, <1>11, <1>12, <1>13, <1>14,
     <1>15, <1>16, <1>17, <1>18, <1>19, <1>20, <1>21, <1>22, <1>23, <1>24, <1>25, <1>26, <1>27, <1>28,
     <1>29, <1>30, <1>31, <1>32, <1>33, <1>34, <1>35, <1>36, <1>37, <1>38, <1>39, <1>40
     DEF Next, ControllerThread, DriverStarts, Satellite, PowerManager

(* The lock changes hands only by TakeLock, GiveLockBack and setPowerState. *)
LEMMA LockPreserved == TypeOK /\ LockOwned /\ [Next]_vars => LockOwned'
<1> SUFFICES ASSUME TypeOK /\ LockOwned, [Next]_vars PROVE LockOwned'
  OBVIOUS
<1> USE DEF TypeOK, LockOwned, envVars, ctlVars, ctlData, plumbing, block, drvVars, nubVars
<1>1. CASE StartController
  BY <1>1, NamesAssumption DEF ControllerStep, StartController
<1>2. CASE PowerUp
  BY <1>2, NamesAssumption DEF ControllerStep, PowerUp
<1>3. CASE NoACPIDevice
  BY <1>3, NamesAssumption DEF ControllerStep, NoACPIDevice
<1>4. CASE MapOnStart
  BY <1>4, NamesAssumption DEF ControllerStep, MapOnStart
<1>5. CASE CannotMapOnStart
  BY <1>5, NamesAssumption DEF ControllerStep, CannotMapOnStart
<1>6. CASE PublishNub
  BY <1>6, NamesAssumption DEF ControllerStep, PublishNub
<1>7. CASE CannotPublishNub
  BY <1>7, NamesAssumption DEF ControllerStep, CannotPublishNub
<1>8. CASE StopController
  BY <1>8, NamesAssumption DEF ControllerStep, StopController
<1>9. CASE ReleaseController
  BY <1>9, NamesAssumption DEF ControllerStep, ReleaseController
<1>90. CASE ControllerLeavesPowerTree
  BY <1>90, NamesAssumption DEF ControllerStep, ControllerLeavesPowerTree
<1>10. CASE Probe
  BY <1>10, NamesAssumption DEF DriverStep, Probe
<1>11. CASE ProbeRefused
  BY <1>11, NamesAssumption DEF DriverStep, ProbeRefused
<1>12. CASE AllocateLock
  BY <1>12, NamesAssumption DEF DriverStep, AllocateLock
<1>13. CASE OpenGate
  BY <1>13, NamesAssumption DEF DriverStep, OpenGate
<1>14. CASE JoinPowerTree
  BY <1>14, NamesAssumption DEF DriverStep, JoinPowerTree
<1>15. CASE ConfigureBus
  BY <1>15, NamesAssumption DEF DriverStep, ConfigureBus
<1>16. CASE InitialiseOnStart
  BY <1>16, NamesAssumption DEF DriverStep, Reachable, InitialiseOnStart
<1>17. CASE CannotInitialise
  BY <1>17, NamesAssumption DEF DriverStep, CannotInitialise
<1>18. CASE RegisterInterrupt
  BY <1>18, NamesAssumption DEF DriverStep, RegisterInterrupt
<1>19. CASE FailStart
  BY <1>19, NamesAssumption DEF DriverStep, Released, FailStart
<1>20. CASE Started
  BY <1>20, NamesAssumption DEF DriverStep, Started
<1>21. CASE StopDriver
  BY <1>21, NamesAssumption DEF DriverStep, StopDriver
<1>22. CASE DisableBus
  BY <1>22, NamesAssumption DEF DriverStep, DisableBus
<1>23. CASE ReleaseDriver
  BY <1>23, NamesAssumption DEF DriverStep, Released, ReleaseDriver
<1>24. CASE LeavePowerTree
  BY <1>24, NamesAssumption DEF DriverStep, LeavePowerTree
<1>25. CASE BeginSleep
  BY <1>25, NamesAssumption DEF BeginSleep
<1>26. CASE DriverOff
  BY <1>26, NamesAssumption DEF DriverOff
<1>27. CASE StopInterrupt
  BY <1>27, NamesAssumption DEF StopInterrupt
<1>28. CASE ControllerOff
  BY <1>28, NamesAssumption DEF ControllerOff
<1>29. CASE ControllerOn
  BY <1>29, NamesAssumption DEF Remap, Outcome, ControllerOn
<1>30. CASE DriverOn
  BY <1>30, NamesAssumption DEF WakeBus, Outcome, Reachable, DriverOn
<1>31. ASSUME NEW d \in Devices, PublishDevice(d) PROVE LockOwned'
  BY <1>31, NamesAssumption DEF DriverStep, PublishDevice
<1>32. ASSUME NEW d \in Devices, CannotPublishDevice(d) PROVE LockOwned'
  BY <1>32, NamesAssumption DEF DriverStep, CannotPublishDevice
<1>33. ASSUME NEW d \in Devices, StopDeviceNub(d) PROVE LockOwned'
  BY <1>33, NamesAssumption DEF DriverStep, StopDeviceNub
<1>34. ASSUME NEW d \in Devices, Request(d) PROVE LockOwned'
  BY <1>34, NamesAssumption DEF ClientStep, Request
<1>35. ASSUME NEW d \in Devices, TakeLock(d) PROVE LockOwned'
  BY <1>35, NamesAssumption DEF ClientStep, TakeLock
<1>36. ASSUME NEW d \in Devices, RefuseBusy(d) PROVE LockOwned'
  BY <1>36, NamesAssumption DEF ClientStep, RefuseBusy
<1>37. ASSUME NEW d \in Devices, BeginTransfer(d) PROVE LockOwned'
  BY <1>37, NamesAssumption DEF ClientStep, Reachable, BeginTransfer
<1>38. ASSUME NEW d \in Devices, EndTransfer(d) PROVE LockOwned'
  BY <1>38, NamesAssumption DEF ClientStep, EndTransfer
<1>39. ASSUME NEW d \in Devices, GiveLockBack(d) PROVE LockOwned'
  BY <1>39, NamesAssumption DEF ClientStep, GiveLockBack
<1>40. CASE UNCHANGED vars
  BY <1>40 DEF vars
<1> QED
  BY <1>1, <1>2, <1>3, <1>4, <1>5, <1>6, <1>7, <1>8, <1>9, <1>90, <1>10, <1>11, <1>12, <1>13, <1>14,
     <1>15, <1>16, <1>17, <1>18, <1>19, <1>20, <1>21, <1>22, <1>23, <1>24, <1>25, <1>26, <1>27, <1>28,
     <1>29, <1>30, <1>31, <1>32, <1>33, <1>34, <1>35, <1>36, <1>37, <1>38, <1>39, <1>40
     DEF Next, ControllerThread, DriverStarts, Satellite, PowerManager

(* A transfer ends before the driver goes to sleep. *)
LEMMA EnabledPreserved == TypeOK /\ LockOwned /\ EnabledForTransfer /\ [Next]_vars => EnabledForTransfer'
<1> SUFFICES ASSUME TypeOK /\ LockOwned /\ EnabledForTransfer, [Next]_vars PROVE EnabledForTransfer'
  OBVIOUS
<1> USE DEF TypeOK, LockOwned, EnabledForTransfer, envVars, ctlVars, ctlData, plumbing, block,
            drvVars, nubVars
<1>1. CASE StartController
  BY <1>1, NamesAssumption DEF ControllerStep, StartController
<1>2. CASE PowerUp
  BY <1>2, NamesAssumption DEF ControllerStep, PowerUp
<1>3. CASE NoACPIDevice
  BY <1>3, NamesAssumption DEF ControllerStep, NoACPIDevice
<1>4. CASE MapOnStart
  BY <1>4, NamesAssumption DEF ControllerStep, MapOnStart
<1>5. CASE CannotMapOnStart
  BY <1>5, NamesAssumption DEF ControllerStep, CannotMapOnStart
<1>6. CASE PublishNub
  BY <1>6, NamesAssumption DEF ControllerStep, PublishNub
<1>7. CASE CannotPublishNub
  BY <1>7, NamesAssumption DEF ControllerStep, CannotPublishNub
<1>8. CASE StopController
  BY <1>8, NamesAssumption DEF ControllerStep, StopController
<1>9. CASE ReleaseController
  BY <1>9, NamesAssumption DEF ControllerStep, ReleaseController
<1>90. CASE ControllerLeavesPowerTree
  BY <1>90, NamesAssumption DEF ControllerStep, ControllerLeavesPowerTree
<1>10. CASE Probe
  BY <1>10, NamesAssumption DEF DriverStep, Probe
<1>11. CASE ProbeRefused
  BY <1>11, NamesAssumption DEF DriverStep, ProbeRefused
<1>12. CASE AllocateLock
  BY <1>12, NamesAssumption DEF DriverStep, AllocateLock
<1>13. CASE OpenGate
  BY <1>13, NamesAssumption DEF DriverStep, OpenGate
<1>14. CASE JoinPowerTree
  BY <1>14, NamesAssumption DEF DriverStep, JoinPowerTree
<1>15. CASE ConfigureBus
  BY <1>15, NamesAssumption DEF DriverStep, ConfigureBus
<1>16. CASE InitialiseOnStart
  BY <1>16, NamesAssumption DEF DriverStep, Reachable, InitialiseOnStart
<1>17. CASE CannotInitialise
  BY <1>17, NamesAssumption DEF DriverStep, CannotInitialise
<1>18. CASE RegisterInterrupt
  BY <1>18, NamesAssumption DEF DriverStep, RegisterInterrupt
<1>19. CASE FailStart
  BY <1>19, NamesAssumption DEF DriverStep, Released, FailStart
<1>20. CASE Started
  BY <1>20, NamesAssumption DEF DriverStep, Started
<1>21. CASE StopDriver
  BY <1>21, NamesAssumption DEF DriverStep, StopDriver
<1>22. CASE DisableBus
  BY <1>22, NamesAssumption DEF DriverStep, DisableBus
<1>23. CASE ReleaseDriver
  BY <1>23, NamesAssumption DEF DriverStep, Released, ReleaseDriver
<1>24. CASE LeavePowerTree
  BY <1>24, NamesAssumption DEF DriverStep, LeavePowerTree
<1>25. CASE BeginSleep
  BY <1>25, NamesAssumption DEF BeginSleep
<1>26. CASE DriverOff
  BY <1>26, NamesAssumption DEF DriverOff
<1>27. CASE StopInterrupt
  BY <1>27, NamesAssumption DEF StopInterrupt
<1>28. CASE ControllerOff
  BY <1>28, NamesAssumption DEF ControllerOff
<1>29. CASE ControllerOn
  BY <1>29, NamesAssumption DEF Remap, Outcome, ControllerOn
<1>30. CASE DriverOn
  BY <1>30, NamesAssumption DEF WakeBus, Outcome, Reachable, DriverOn
<1>31. ASSUME NEW d \in Devices, PublishDevice(d) PROVE EnabledForTransfer'
  BY <1>31, NamesAssumption DEF DriverStep, PublishDevice
<1>32. ASSUME NEW d \in Devices, CannotPublishDevice(d) PROVE EnabledForTransfer'
  BY <1>32, NamesAssumption DEF DriverStep, CannotPublishDevice
<1>33. ASSUME NEW d \in Devices, StopDeviceNub(d) PROVE EnabledForTransfer'
  BY <1>33, NamesAssumption DEF DriverStep, StopDeviceNub
<1>34. ASSUME NEW d \in Devices, Request(d) PROVE EnabledForTransfer'
  BY <1>34, NamesAssumption DEF ClientStep, Request
<1>35. ASSUME NEW d \in Devices, TakeLock(d) PROVE EnabledForTransfer'
  BY <1>35, NamesAssumption DEF ClientStep, TakeLock
<1>36. ASSUME NEW d \in Devices, RefuseBusy(d) PROVE EnabledForTransfer'
  BY <1>36, NamesAssumption DEF ClientStep, RefuseBusy
<1>37. ASSUME NEW d \in Devices, BeginTransfer(d) PROVE EnabledForTransfer'
  BY <1>37, NamesAssumption DEF ClientStep, Reachable, BeginTransfer
<1>38. ASSUME NEW d \in Devices, EndTransfer(d) PROVE EnabledForTransfer'
  BY <1>38, NamesAssumption DEF ClientStep, EndTransfer
<1>39. ASSUME NEW d \in Devices, GiveLockBack(d) PROVE EnabledForTransfer'
  BY <1>39, NamesAssumption DEF ClientStep, GiveLockBack
<1>40. CASE UNCHANGED vars
  BY <1>40 DEF vars
<1> QED
  BY <1>1, <1>2, <1>3, <1>4, <1>5, <1>6, <1>7, <1>8, <1>9, <1>90, <1>10, <1>11, <1>12, <1>13, <1>14,
     <1>15, <1>16, <1>17, <1>18, <1>19, <1>20, <1>21, <1>22, <1>23, <1>24, <1>25, <1>26, <1>27, <1>28,
     <1>29, <1>30, <1>31, <1>32, <1>33, <1>34, <1>35, <1>36, <1>37, <1>38, <1>39, <1>40
     DEF Next, ControllerThread, DriverStarts, Satellite, PowerManager

(* Driver and controller join and leave the power tree in order. *)
LEMMA TreePreserved == TypeOK /\ PowerTree /\ [Next]_vars => PowerTree'
<1> SUFFICES ASSUME TypeOK /\ PowerTree, [Next]_vars PROVE PowerTree'
  OBVIOUS
<1> USE DEF TypeOK, PowerTree, envVars, ctlVars, ctlData, plumbing, block, drvVars, nubVars
<1>1. CASE StartController
  BY <1>1 DEF ControllerStep, StartController
<1>2. CASE PowerUp
  BY <1>2 DEF ControllerStep, PowerUp
<1>3. CASE NoACPIDevice
  BY <1>3 DEF ControllerStep, NoACPIDevice
<1>4. CASE MapOnStart
  BY <1>4 DEF ControllerStep, MapOnStart
<1>5. CASE CannotMapOnStart
  BY <1>5 DEF ControllerStep, CannotMapOnStart
<1>6. CASE PublishNub
  BY <1>6 DEF ControllerStep, PublishNub
<1>7. CASE CannotPublishNub
  BY <1>7 DEF ControllerStep, CannotPublishNub
<1>8. CASE StopController
  BY <1>8 DEF ControllerStep, StopController
<1>9. CASE ReleaseController
  BY <1>9 DEF ControllerStep, ReleaseController
<1>90. CASE ControllerLeavesPowerTree
  BY <1>90 DEF ControllerStep, ControllerLeavesPowerTree
<1>10. CASE Probe
  BY <1>10 DEF DriverStep, Probe
<1>11. CASE ProbeRefused
  BY <1>11 DEF DriverStep, ProbeRefused
<1>12. CASE AllocateLock
  BY <1>12 DEF DriverStep, AllocateLock
<1>13. CASE OpenGate
  BY <1>13 DEF DriverStep, OpenGate
<1>14. CASE JoinPowerTree
  BY <1>14 DEF DriverStep, JoinPowerTree
<1>15. CASE ConfigureBus
  BY <1>15 DEF DriverStep, ConfigureBus
<1>16. CASE InitialiseOnStart
  BY <1>16 DEF DriverStep, Reachable, InitialiseOnStart
<1>17. CASE CannotInitialise
  BY <1>17 DEF DriverStep, CannotInitialise
<1>18. CASE RegisterInterrupt
  BY <1>18 DEF DriverStep, RegisterInterrupt
<1>19. CASE FailStart
  BY <1>19 DEF DriverStep, Released, FailStart
<1>20. CASE Started
  BY <1>20 DEF DriverStep, Started
<1>21. CASE StopDriver
  BY <1>21 DEF DriverStep, StopDriver
<1>22. CASE DisableBus
  BY <1>22 DEF DriverStep, DisableBus
<1>23. CASE ReleaseDriver
  BY <1>23 DEF DriverStep, Released, ReleaseDriver
<1>24. CASE LeavePowerTree
  BY <1>24 DEF DriverStep, LeavePowerTree
<1>25. CASE BeginSleep
  BY <1>25 DEF BeginSleep
<1>26. CASE DriverOff
  BY <1>26 DEF DriverOff
<1>27. CASE StopInterrupt
  BY <1>27 DEF StopInterrupt
<1>28. CASE ControllerOff
  BY <1>28 DEF ControllerOff
<1>29. CASE ControllerOn
  BY <1>29 DEF Remap, Outcome, ControllerOn
<1>30. CASE DriverOn
  BY <1>30 DEF WakeBus, Outcome, Reachable, DriverOn
<1>31. ASSUME NEW d \in Devices, PublishDevice(d) PROVE PowerTree'
  BY <1>31 DEF DriverStep, PublishDevice
<1>32. ASSUME NEW d \in Devices, CannotPublishDevice(d) PROVE PowerTree'
  BY <1>32 DEF DriverStep, CannotPublishDevice
<1>33. ASSUME NEW d \in Devices, StopDeviceNub(d) PROVE PowerTree'
  BY <1>33 DEF DriverStep, StopDeviceNub
<1>34. ASSUME NEW d \in Devices, Request(d) PROVE PowerTree'
  BY <1>34 DEF ClientStep, Request
<1>35. ASSUME NEW d \in Devices, TakeLock(d) PROVE PowerTree'
  BY <1>35 DEF ClientStep, TakeLock
<1>36. ASSUME NEW d \in Devices, RefuseBusy(d) PROVE PowerTree'
  BY <1>36 DEF ClientStep, RefuseBusy
<1>37. ASSUME NEW d \in Devices, BeginTransfer(d) PROVE PowerTree'
  BY <1>37 DEF ClientStep, Reachable, BeginTransfer
<1>38. ASSUME NEW d \in Devices, EndTransfer(d) PROVE PowerTree'
  BY <1>38 DEF ClientStep, EndTransfer
<1>39. ASSUME NEW d \in Devices, GiveLockBack(d) PROVE PowerTree'
  BY <1>39 DEF ClientStep, GiveLockBack
<1>40. CASE UNCHANGED vars
  BY <1>40 DEF vars
<1> QED
  BY <1>1, <1>2, <1>3, <1>4, <1>5, <1>6, <1>7, <1>8, <1>9, <1>90, <1>10, <1>11, <1>12, <1>13, <1>14,
     <1>15, <1>16, <1>17, <1>18, <1>19, <1>20, <1>21, <1>22, <1>23, <1>24, <1>25, <1>26, <1>27, <1>28,
     <1>29, <1>30, <1>31, <1>32, <1>33, <1>34, <1>35, <1>36, <1>37, <1>38, <1>39, <1>40
     DEF Next, ControllerThread, DriverStarts, Satellite, PowerManager

(* Without races power changes and starts exclude each other. *)
LEMMA NoRacePreserved == TypeOK /\ PowerTree /\ NoRaceInv /\ [Next]_vars => NoRaceInv'
<1> SUFFICES ASSUME TypeOK /\ PowerTree /\ NoRaceInv, [Next]_vars PROVE NoRaceInv'
  OBVIOUS
<1> USE DEF TypeOK, PowerTree, NoRaceInv, MayChangePower, MayStart, MayStop, Settled, envVars,
            ctlVars, ctlData, plumbing, block, drvVars, nubVars
<1>1. CASE StartController
  BY <1>1 DEF ControllerStep, StartController
<1>2. CASE PowerUp
  BY <1>2 DEF ControllerStep, PowerUp
<1>3. CASE NoACPIDevice
  BY <1>3 DEF ControllerStep, NoACPIDevice
<1>4. CASE MapOnStart
  BY <1>4 DEF ControllerStep, MapOnStart
<1>5. CASE CannotMapOnStart
  BY <1>5 DEF ControllerStep, CannotMapOnStart
<1>6. CASE PublishNub
  BY <1>6 DEF ControllerStep, PublishNub
<1>7. CASE CannotPublishNub
  BY <1>7 DEF ControllerStep, CannotPublishNub
<1>8. CASE StopController
  BY <1>8 DEF ControllerStep, StopController
<1>9. CASE ReleaseController
  BY <1>9 DEF ControllerStep, ReleaseController
<1>90. CASE ControllerLeavesPowerTree
  BY <1>90 DEF ControllerStep, ControllerLeavesPowerTree
<1>10. CASE Probe
  BY <1>10 DEF DriverStep, Probe
<1>11. CASE ProbeRefused
  BY <1>11 DEF DriverStep, ProbeRefused
<1>12. CASE AllocateLock
  BY <1>12 DEF DriverStep, AllocateLock
<1>13. CASE OpenGate
  BY <1>13 DEF DriverStep, OpenGate
<1>14. CASE JoinPowerTree
  BY <1>14 DEF DriverStep, JoinPowerTree
<1>15. CASE ConfigureBus
  BY <1>15 DEF DriverStep, ConfigureBus
<1>16. CASE InitialiseOnStart
  BY <1>16 DEF DriverStep, Reachable, InitialiseOnStart
<1>17. CASE CannotInitialise
  BY <1>17 DEF DriverStep, CannotInitialise
<1>18. CASE RegisterInterrupt
  BY <1>18 DEF DriverStep, RegisterInterrupt
<1>19. CASE FailStart
  BY <1>19 DEF DriverStep, Released, FailStart
<1>20. CASE Started
  BY <1>20 DEF DriverStep, Started
<1>21. CASE StopDriver
  BY <1>21 DEF DriverStep, StopDriver
<1>22. CASE DisableBus
  BY <1>22 DEF DriverStep, DisableBus
<1>23. CASE ReleaseDriver
  BY <1>23 DEF DriverStep, Released, ReleaseDriver
<1>24. CASE LeavePowerTree
  BY <1>24 DEF DriverStep, LeavePowerTree
<1>25. CASE BeginSleep
  BY <1>25 DEF BeginSleep
<1>26. CASE DriverOff
  BY <1>26 DEF DriverOff
<1>27. CASE StopInterrupt
  BY <1>27 DEF StopInterrupt
<1>28. CASE ControllerOff
  BY <1>28 DEF ControllerOff
<1>29. CASE ControllerOn
  BY <1>29 DEF Remap, Outcome, ControllerOn
<1>30. CASE DriverOn
  BY <1>30 DEF WakeBus, Outcome, Reachable, DriverOn
<1>31. ASSUME NEW d \in Devices, PublishDevice(d) PROVE NoRaceInv'
  BY <1>31 DEF DriverStep, PublishDevice
<1>32. ASSUME NEW d \in Devices, CannotPublishDevice(d) PROVE NoRaceInv'
  BY <1>32 DEF DriverStep, CannotPublishDevice
<1>33. ASSUME NEW d \in Devices, StopDeviceNub(d) PROVE NoRaceInv'
  BY <1>33 DEF DriverStep, StopDeviceNub
<1>34. ASSUME NEW d \in Devices, Request(d) PROVE NoRaceInv'
  BY <1>34 DEF ClientStep, Request
<1>35. ASSUME NEW d \in Devices, TakeLock(d) PROVE NoRaceInv'
  BY <1>35 DEF ClientStep, TakeLock
<1>36. ASSUME NEW d \in Devices, RefuseBusy(d) PROVE NoRaceInv'
  BY <1>36 DEF ClientStep, RefuseBusy
<1>37. ASSUME NEW d \in Devices, BeginTransfer(d) PROVE NoRaceInv'
  BY <1>37 DEF ClientStep, Reachable, BeginTransfer
<1>38. ASSUME NEW d \in Devices, EndTransfer(d) PROVE NoRaceInv'
  BY <1>38 DEF ClientStep, EndTransfer
<1>39. ASSUME NEW d \in Devices, GiveLockBack(d) PROVE NoRaceInv'
  BY <1>39 DEF ClientStep, GiveLockBack
<1>40. CASE UNCHANGED vars
  BY <1>40 DEF vars
<1> QED
  BY <1>1, <1>2, <1>3, <1>4, <1>5, <1>6, <1>7, <1>8, <1>9, <1>90, <1>10, <1>11, <1>12, <1>13, <1>14,
     <1>15, <1>16, <1>17, <1>18, <1>19, <1>20, <1>21, <1>22, <1>23, <1>24, <1>25, <1>26, <1>27, <1>28,
     <1>29, <1>30, <1>31, <1>32, <1>33, <1>34, <1>35, <1>36, <1>37, <1>38, <1>39, <1>40
     DEF Next, ControllerThread, DriverStarts, Satellite, PowerManager

(* start leaves nothing out, and a wakeup restores what a sleep took away. *)
LEMMA ReadyPreserved == TypeOK /\ PowerTree /\ NoRaceInv /\ ReadyInv /\ [Next]_vars => ReadyInv'
<1> SUFFICES ASSUME TypeOK, PowerTree, NoRaceInv, ReadyInv, [Next]_vars, ~race', ~faults'
             PROVE  ReadyInv'
  BY DEF ReadyInv
<1> USE DEF envVars, ctlVars, ctlData, plumbing, block, drvVars, nubVars
<1>0. ~race /\ ~faults
  BY DEF Next, ControllerThread, DriverStarts, Satellite, PowerManager, ControllerStep, DriverStep,
     ClientStep, StartController, PowerUp, NoACPIDevice, MapOnStart, CannotMapOnStart, PublishNub,
     CannotPublishNub, StopController, ReleaseController, ControllerLeavesPowerTree,
     Probe, ProbeRefused, AllocateLock, OpenGate, JoinPowerTree, ConfigureBus,
     InitialiseOnStart, CannotInitialise, RegisterInterrupt, FailStart,
     PublishDevice, CannotPublishDevice, Started, StopDriver, StopDeviceNub, DisableBus,
     ReleaseDriver, LeavePowerTree, Request, TakeLock, RefuseBusy, BeginTransfer, EndTransfer,
     GiveLockBack, BeginSleep, DriverOff, StopInterrupt, ControllerOff, ControllerOn, DriverOn, vars
(* The memory is mapped when the driver needs it. *)
<1>1. dpc \in {"bus", "publish", "up"} /\ pm \in {"on", "drvon"} => Reachable
  BY <1>0 DEF TypeOK, DriverPC, PowerPC, PowerTree, NoRaceInv, ReadyInv, Reachable
<1>2. CASE \/ StartController \/ PowerUp \/ NoACPIDevice \/ MapOnStart \/ CannotMapOnStart
           \/ PublishNub \/ CannotPublishNub \/ StopController \/ ReleaseController
           \/ ControllerLeavesPowerTree
  BY <1>0, <1>2 DEF TypeOK, PowerTree, ReadyInv, ControllerStep, StartController, PowerUp, NoACPIDevice,
     MapOnStart, CannotMapOnStart, PublishNub, CannotPublishNub, StopController, ReleaseController,
     ControllerLeavesPowerTree
<1>3. CASE \/ Probe \/ ProbeRefused \/ AllocateLock \/ OpenGate \/ JoinPowerTree \/ ConfigureBus
           \/ CannotInitialise \/ FailStart \/ StopDriver \/ DisableBus \/ ReleaseDriver
           \/ LeavePowerTree \/ Started
           \/ \E d \in Devices : PublishDevice(d) \/ CannotPublishDevice(d) \/ StopDeviceNub(d)
  BY <1>0, <1>3 DEF ReadyInv, DriverStep, Probe, ProbeRefused, AllocateLock, OpenGate, JoinPowerTree,
     ConfigureBus, CannotInitialise, FailStart, StopDriver, DisableBus, ReleaseDriver, LeavePowerTree,
     Started, PublishDevice, CannotPublishDevice, StopDeviceNub
<1>4. CASE InitialiseOnStart
  <2>1. dpc = "bus" /\ pm = "on"
    BY <1>0, <1>4 DEF InitialiseOnStart, DriverStep, NoRaceInv
  <2> QED
    BY <1>0, <1>1, <1>4, <2>1 DEF ReadyInv, InitialiseOnStart, DriverStep
<1>5. CASE RegisterInterrupt
  BY <1>0, <1>5 DEF ReadyInv, RegisterInterrupt, DriverStep
<1>6. CASE \/ BeginSleep \/ DriverOff
           \/ \E d \in Devices : Request(d) \/ Satellite(d)
  BY <1>0, <1>6 DEF ReadyInv, ClientStep, BeginSleep, DriverOff, Request, Satellite, TakeLock, RefuseBusy,
     BeginTransfer, EndTransfer, GiveLockBack
<1>7. CASE StopInterrupt
  BY <1>0, <1>7 DEF ReadyInv, NoRaceInv, StopInterrupt
<1>8. CASE ControllerOff
  <2>1. dpc \in {"publish", "up", "stopnubs"} => ~dawake
    BY <1>0, <1>8 DEF NoRaceInv, ControllerOff
  <2> QED
    BY <1>0, <1>8, <2>1 DEF ReadyInv, NoRaceInv, ControllerOff
<1>9. CASE ControllerOn
  <2>1. cpc \in {"publish", "up"} => held
    BY DEF PowerTree
  <2>2. Outcome = {TRUE}
    BY <1>0, Zenon DEF Outcome
  <2>3. ASSUME Remap, held PROVE mapped'
    <3>1. PICK ok \in Outcome : mapped' = (held /\ ok)
      BY <2>3, Zenon DEF Remap
    <3>2. ok = TRUE
      BY <2>2, <3>1
    <3> QED
      BY <2>3, <3>1, <3>2, Zenon
  <2>4. cpc' = cpc /\ (cpc \in {"publish", "up"} /\ cawake' => mapped')
    BY <1>0, <1>9, <2>1, <2>3 DEF ReadyInv, ControllerOn
  <2> QED
    BY <1>0, <1>9, <2>4 DEF ReadyInv, ControllerOn
<1>10. CASE DriverOn
  <2>1. CASE dawake
    BY <1>0, <1>10, <2>1 DEF ReadyInv, DriverOn
  <2>2. CASE ~dawake
    <3>1. pm = "drvon" /\ WakeBus /\ UNCHANGED <<cpc, dpc, cawake, mapped>>
      BY <1>10, <2>2 DEF DriverOn
    <3>2. (configured' <=> Reachable) /\ irq'
      <4>1. Outcome = {TRUE}
        BY <1>0 DEF Outcome
      <4>2. PICK ok \in {TRUE} : configured' = (Reachable /\ ok)
        BY <3>1, <4>1 DEF WakeBus
      <4>3. irq' \in {TRUE}
        BY <3>1, <4>1 DEF WakeBus
      <4>4. configured' <=> Reachable
        BY <4>2, Zenon
      <4> QED
        BY <4>3, <4>4
    <3>3. dpc \notin {"irq", "publish", "stopnubs"}
      BY <1>0, <3>1 DEF NoRaceInv
    <3>4. dpc = "up" => Reachable
      BY <1>1, <3>1
    <3> QED
      BY <1>0, <3>1, <3>2, <3>3, <3>4 DEF ReadyInv
  <2> QED
    BY <2>1, <2>2
<1>11. CASE UNCHANGED vars
  BY <1>0, <1>11 DEF ReadyInv, vars
<1> QED
  BY <1>2, <1>3, <1>4, <1>5, <1>6, <1>7, <1>8, <1>9, <1>10, <1>11
     DEF Next, ControllerThread, DriverStarts, PowerManager

(* Nothing is taken again after it has been released, not even by a power change. *)
LEMMA EndPreserved == TypeOK /\ Stages /\ PowerTree /\ EndInv /\ [Next]_vars => EndInv'
<1> SUFFICES ASSUME TypeOK, Stages, PowerTree, EndInv, [Next]_vars PROVE EndInv'
  OBVIOUS
<1> USE DEF EndInv, envVars, ctlVars, ctlData, plumbing, block, drvVars, nubVars
<1>1. CASE \/ StartController \/ PowerUp \/ NoACPIDevice \/ MapOnStart \/ CannotMapOnStart
           \/ PublishNub \/ CannotPublishNub \/ StopController \/ ReleaseController
           \/ ControllerLeavesPowerTree
  BY <1>1 DEF ControllerStep, StartController, PowerUp, NoACPIDevice, MapOnStart, CannotMapOnStart,
     PublishNub, CannotPublishNub, StopController, ReleaseController,
     ControllerLeavesPowerTree
<1>2. CASE \/ Probe \/ ProbeRefused \/ AllocateLock \/ OpenGate \/ JoinPowerTree \/ ConfigureBus
           \/ InitialiseOnStart \/ CannotInitialise \/ RegisterInterrupt \/ FailStart \/ StopDriver
           \/ DisableBus \/ Started
           \/ \E d \in Devices : PublishDevice(d) \/ CannotPublishDevice(d) \/ StopDeviceNub(d)
  BY <1>2 DEF DriverStep, Probe, ProbeRefused, AllocateLock, OpenGate, JoinPowerTree, ConfigureBus,
     InitialiseOnStart, CannotInitialise, RegisterInterrupt, FailStart, StopDriver, DisableBus, Started,
     PublishDevice, CannotPublishDevice, StopDeviceNub
<1>3. CASE ReleaseDriver \/ LeavePowerTree
  BY <1>3 DEF Stages, DriverStep, ReleaseDriver, Released, LeavePowerTree
<1>4. CASE \/ BeginSleep \/ DriverOff \/ StopInterrupt \/ DriverOn
           \/ \E d \in Devices : Request(d) \/ Satellite(d)
  BY <1>4 DEF ClientStep, BeginSleep, DriverOff, StopInterrupt, DriverOn, Request, Satellite, TakeLock,
     RefuseBusy, BeginTransfer, EndTransfer, GiveLockBack
<1>5. CASE ControllerOff
  BY <1>5 DEF PowerTree, ControllerOff
<1>7. CASE ControllerOn
  <2>1. Remap => (~held => ~mapped')
    BY Zenon DEF Remap
  <2> QED
    BY <1>7, <2>1 DEF ControllerOn
<1>6. CASE UNCHANGED vars
  BY <1>6 DEF vars
<1> QED
  BY <1>1, <1>2, <1>3, <1>4, <1>5, <1>6, <1>7 DEF Next, ControllerThread, DriverStarts, PowerManager

-----------------------------------------------------------------------------
LEMMA Initially == Init => IInv
BY NamesAssumption, EnvironmentAssumption
DEF Init, IInv, TypeOK, FlagsOK, Stages, LockOwned, EnabledForTransfer, PowerTree, NoRaceInv,
    ReadyInv, EndInv, ControllerPC, DriverPC, ClientPC, PowerPC

LEMMA Preserved == IInv /\ [Next]_vars => IInv'
BY FlagsPreserved, TypePreserved, StagesPreserved, LockPreserved, EnabledPreserved, TreePreserved,
   NoRacePreserved, ReadyPreserved, EndPreserved
DEF IInv, TypeOK

(* The eight parts together hold always. *)
THEOREM Inductive == Spec => []IInv
BY Initially, Preserved, PTL DEF Spec

(* Every variable keeps its type (all of Lifecycle). *)
THEOREM LifecycleTyped == Spec => []TypeOK
<1>1. IInv => TypeOK
  BY DEF IInv
<1> QED
  BY <1>1, Inductive, PTL

(* stop never frees the lock or the gate under a request, for any number of slaves and however
   power changes race with it (stop 666-684). *)
THEOREM RequestsKeepLockAndGate == Spec => []GateAndLockThere
<1>1. IInv => GateAndLockThere
  BY DEF IInv, Stages, GateAndLockThere
<1> QED
  BY <1>1, Inductive, PTL

(* Without races, while the controller is off the driver's interrupt is gone, its block disabled
   and no transfer under way (setPowerState of driver and controller). *)
THEOREM OffIsQuiet == Spec => []QuietWhenOff
<1>1. IInv => QuietWhenOff
  <2> SUFFICES ASSUME IInv, ~race, dpc # "failed", ~cawake
               PROVE  ~enabled /\ ~irq /\ \A d \in Devices : cl[d] # "running"
    BY DEF QuietWhenOff
  <2>1. pm = "off" \/ ~cpm
    BY DEF IInv, NoRaceInv
  <2>2. ~irq
    BY <2>1 DEF IInv, TypeOK, NoRaceInv, PowerTree, DriverPC
  <2>3. ASSUME NEW d \in Devices, cl[d] = "running" PROVE FALSE
    <3>1. d \in nubs /\ dawake
      BY <2>3 DEF IInv, Stages, EnabledForTransfer
    <3>2. dpc \in {"publish", "up", "stopnubs"}
      BY <3>1 DEF IInv, Stages
    <3> QED
      BY <2>1, <3>1, <3>2 DEF IInv, NoRaceInv, PowerTree
  <2> QED
    BY <2>2, <2>3 DEF IInv, EnabledForTransfer
<1> QED
  BY <1>1, Inductive, PTL

(* Without races and faults a driver that is awake can serve a request, whatever sleeps and
   wakeups it has been through (start 595-660, setPowerState 581-590). *)
THEOREM AwakeDriverIsReady == Spec => []AwakeMeansReady
<1>1. IInv => AwakeMeansReady
  BY DEF IInv, NoRaceInv, PowerTree, ReadyInv, AwakeMeansReady
<1> QED
  BY <1>1, Inductive, PTL

(* A transfer the lock let in keeps registers, configuration and interrupt until it gives the
   lock back, for any number of slaves and in the middle of power changes. *)
THEOREM TransfersAreServed == Spec => []RunningIsServed
<1>1. IInv => RunningIsServed
  <2> SUFFICES ASSUME IInv, NEW d \in Devices, ~race, ~faults, cl[d] \in {"inside", "running"}, dawake
               PROVE  mapped /\ configured /\ irq
    BY DEF RunningIsServed
  <2>1. dpc \in {"publish", "up", "stopnubs"}
    BY DEF IInv, Stages
  <2>2. cpc = "up" /\ cawake
    BY <2>1 DEF IInv, NoRaceInv, PowerTree
  <2> QED
    BY <2>1, <2>2 DEF IInv, ReadyInv
<1> QED
  BY <1>1, Inductive, PTL

(* After both stops nothing that either start took is kept. *)
THEOREM StopsReleaseAll == Spec => []StoppedHoldsNothing
<1>1. IInv => StoppedHoldsNothing
  <2> SUFFICES ASSUME IInv, ~race, dpc = "stopped", cpc = "gone"
               PROVE  /\ ~mapped /\ ~held /\ ~cpm /\ ~nub
                      /\ ~dpm /\ ~irq /\ ~gate /\ lockmem = "freed" /\ nubs = {} /\ lock = Free
    BY DEF StoppedHoldsNothing
  <2>1. ~mapped /\ ~held /\ ~nub /\ ~gate /\ lockmem = "freed"
    BY DEF IInv, EndInv
  <2>2. ~cpm /\ ~dpm /\ ~irq /\ nubs = {} /\ pm # "stopirq"
    BY DEF IInv, PowerTree, NoRaceInv, Stages
  <2>3. \A d \in Devices : cl[d] = "idle"
    BY <2>2 DEF IInv, Stages
  <2>4. lock = Free
    BY <2>2, <2>3 DEF IInv, TypeOK, LockOwned
  <2> QED
    BY <2>1, <2>2, <2>4
<1> QED
  BY <1>1, Inductive, PTL
=============================================================================
