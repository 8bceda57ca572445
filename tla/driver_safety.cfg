CONSTANTS
  TxDepth = 2
  RxDepth = 2
  Clients = {c1, c2}
  PM = PM
  Free = Free
  Requests <- MCRequests
  Envs <- MCEnvs
SPECIFICATION Spec
INVARIANTS TypeOK NoFifoOverrun ByteIsNext ReadsPlaced SuccessMeansDone NoStaleHandler NeverStalls TargetsSlave AsleepIsQuiet
PROPERTY ImplementsService
