\* Two requests in flight, cut short anywhere but inside the sweep.
SPECIFICATION FairSpec
CONSTANTS
  Jobs = {j1}
  Agents = {a1, a2}
  Payloads = {good}
  GoodPayloads = {good}
  SubjectiveJobs = {}
  Eligible <- AllEligible
  MaxActiveLeases = 1
  ClaimIds = {c1, c2}
  ProofIds = {p1}
  Requests = {r1, r2}
  UniqueIndex = TRUE
  CrashPoints <- OutsideReopen
  None = None
PROPERTIES
  LapsedLeaseReopens
  EveryLeaseEnds
