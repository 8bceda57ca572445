SPECIFICATION FairSpec
CONSTANTS
  Threads = {t1, t2}
  NoThread = NoThread
  Rival = rival
  NoPin <- MCNoPin
  Declarations <- MCDeclarations
INVARIANTS TypeOK ResourcesTogether InterruptNotMissed OneCallPerDevice RequestsAsDeclared
PROPERTIES CallReturns StopEnds
