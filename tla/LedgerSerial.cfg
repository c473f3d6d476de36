\* One handler at a time on SQLite, which has no unique index on active claims.
SPECIFICATION Spec
CONSTANTS
  Jobs = {j1, j2}
  Agents = {a1, a2}
  Payloads = {good, bad}
  GoodPayloads = {good}
  SubjectiveJobs = {j2}
  Eligible <- AllEligible
  MaxActiveLeases = 1
  ClaimIds = {c1, c2, c3}
  ProofIds = {p1, p2}
  Requests = {r1}
  UniqueIndex = FALSE
  CrashPoints <- Anywhere
  None = None
SYMMETRY Symmetric
INVARIANTS
  ActiveClaimHoldsJob
  JobAgreesWithItsProof
  ReusedPayloadRejected
  LeaseLimit
PROPERTIES
  LateProofRefused
  ImplementsJobBoard
