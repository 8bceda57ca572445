SPECIFICATION FairSpec
CONSTANTS
  Devices = {d1, d2}
  PM = PM
  Free = Free
  Races <- Both
  Faults <- Both
INVARIANTS TypeOK GateAndLockThere QuietWhenOff AwakeMeansReady RunningIsServed StoppedHoldsNothing
PROPERTIES StopEnds SleepEnds RequestReturns
