\* One handler at a time, cut short anywhere.
SPECIFICATION FairSpec
CONSTANTS
  Jobs = {j1}
  Agents = {a1}
  Payloads = {good}
  GoodPayloads = {good}
  SubjectiveJobs = {}
  Eligible <- AllEligible
  MaxActiveLeases = 1
  ClaimIds = {c1, c2}
  ProofIds = {p1}
  Requests = {r1}
  UniqueIndex = TRUE
  CrashPoints <- Anywhere
  None = None
PROPERTY LapsedLeaseReopens
