\* One job, two auto-release daemons, one crash or key rotation, two deadlines.
SPECIFICATION Spec
CONSTANTS
  Jobs = {j1}
  Issuers = {i1}
  Agents = {a1, a2}
  DaemonKey = key
  Accounts <- Everyone
  Contract = escrow
  NoOne = zero
  Amounts = {1, 2}
  Endowment <- Purses
  MaxTime = 3
  Desks = {k1}
  KeyPurse = 0
  Daemons = {d1, d2}
  TxIds = {t1, t2}
  MaxCrashes = 1
  None = None
SYMMETRY Symmetric
INVARIANTS
  TypeOK
  Solvency
  EveryoneWhole
  PaysApprovedAgent
  LedgerReleaseIsReal
  FundedJobIsBacked
