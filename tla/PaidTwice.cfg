\* Two remote runners, one batch: README.md says repeat scans cannot pay twice.
SPECIFICATION SettlementSpec
CONSTANTS
  p1 = p1
  p2 = p2
  a1 = a1
  a2 = a2
  c1 = c1
  h1 = h1
  h2 = h2
  Proofs = {p1, p2}
  Parents = {c1}
  ParentOf <- parentOf
  Agents = {a1, a2}
  AgentOf <- agentOf
  Hosts = {h1, h2}
  HostOf <- hostOf
  None = None
  Batches = {b1}
  LocalRunners = {}
  RemoteRunners = {r1, r2}
  EscrowRail = {}
  MaxTransfers = 3
  MaxCrashes = 0
INVARIANT PaidOnce
CHECK_DEADLOCK FALSE
