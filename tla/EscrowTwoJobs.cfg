\* Two jobs of two issuers that share the contract's balance, one daemon.
SPECIFICATION Spec
CONSTANTS
  Jobs = {j1, j2}
  Issuers = {i1, i2}
  Agents = {a1, a2}
  DaemonKey = key
  Accounts <- Everyone
  Contract = escrow
  NoOne = zero
  Amounts = {1}
  Endowment <- Purses
  MaxTime = 2
  Desks = {}
  KeyPurse = 1
  Daemons = {d1}
  TxIds = {t1, t2}
  MaxCrashes = 0
  None = None
SYMMETRY Symmetric
INVARIANTS
  Solvency
  EveryoneWhole
