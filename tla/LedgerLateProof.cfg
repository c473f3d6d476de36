\* A proof in flight beside a sweep.
SPECIFICATION Spec
CONSTANTS
  Jobs = {j1}
  Agents = {a1}
  Payloads = {good}
  GoodPayloads = {good}
  SubjectiveJobs = {}
  Eligible <- AllEligible
  MaxActiveLeases = 1
  ClaimIds = {c1, c2}
  ProofIds = {p1, p2}
  Requests = {r1, r2}
  UniqueIndex = TRUE
  CrashPoints <- Anywhere
  None = None
PROPERTY LateProofRefused
