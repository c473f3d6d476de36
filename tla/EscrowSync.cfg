\* One daemon whose report can be lost.
SPECIFICATION FairSpec
CONSTANTS
  Jobs = {j1}
  Issuers = {i1}
  Agents = {a1}
  DaemonKey = key
  Accounts <- Everyone
  Contract = escrow
  NoOne = zero
  Amounts = {1}
  Endowment <- Purses
  MaxTime = 1
  Desks = {}
  KeyPurse = 0
  Daemons = {d1}
  TxIds = {t1}
  MaxCrashes = 0
  None = None
PROPERTY LedgerCatchesUp
