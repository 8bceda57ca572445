CONSTANTS
  TxDepth = 1
  RxDepth = 1
  Clients = {c1, c2}
  PM = PM
  Free = Free
  Requests <- ShortRequests
  Envs <- LivenessEnvs
SPECIFICATION FairSpec
PROPERTIES CallerReturns TransferEnds
