SPECIFICATION Spec
CONSTANTS
  Word = 1073741824
  RxShift = 65536
  Platforms <- AllPlatforms
INVARIANTS CountsUsable TimingKept
