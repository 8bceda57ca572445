SPECIFICATION Spec
CONSTANTS
  Devices = {d1}
  PM = PM
  Free = Free
  Races <- Never
  Faults <- Never
INVARIANT PowerFindsLock
