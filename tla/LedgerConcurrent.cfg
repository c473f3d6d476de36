\* Two requests in flight against Postgres, cut short anywhere.
SPECIFICATION Spec
CONSTANTS
  Jobs = {j1, j2}
  Agents = {a1, a2}
  Payloads = {good}
  GoodPayloads = {good}
  SubjectiveJobs = {}
  Eligible <- AllEligible
  MaxActiveLeases = 1
  ClaimIds = {c1, c2, c3}
  ProofIds = {p1, p2}
  Requests = {r1, r2}
  UniqueIndex = TRUE
  CrashPoints <- Anywhere
  None = None
SYMMETRY Symmetric
INVARIANTS
  TypeOK
  ProofClosesJob
  ProofRestsOnItsClaim
  HolderHasClaim
