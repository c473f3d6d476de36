\* Two daemons that race to release one job; one crash or key rotation.
SPECIFICATION FairSpec
CONSTANTS
  Jobs = {j1}
  Issuers = {i1}
  Agents = {a1}
  DaemonKey = key
  Accounts <- Everyone
  Contract = escrow
  NoOne = zero
  Amounts = {1, 2}
  Endowment <- Purses
  MaxTime = 2
  Desks = {}
  KeyPurse = 0
  Daemons = {d1, d2}
  TxIds = {t1, t2}
  MaxCrashes = 1
  None = None
PROPERTY ApprovedWorkIsReleased
