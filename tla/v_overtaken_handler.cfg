CONSTANTS
  TxDepth = 2
  RxDepth = 2
  Clients = {c1, c2}
  PM = PM
  Free = Free
  Requests <- MCRequests
  Envs <- LateEnv
SPECIFICATION Spec
INVARIANT SuccessMeansDone
