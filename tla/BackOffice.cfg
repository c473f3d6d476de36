\* One of seven services runs in each behaviour.
\* Two local runners, one remote, two batches, two transfers, one crash; two
\* subjective proofs, two requests to the API at a time, one restart;
\* an issuer and an agent with one nonce and one wallet; one restore and one backup
\* with two processes that migrate; four loads or replays of the page; two issuers
\* at one page with an upload of two rows; two escrow slots of the first contract, with
\* two operator processes.
SPECIFICATION Spec
CONSTANTS
  p1 = p1
  p2 = p2
  a1 = a1
  a2 = a2
  c1 = c1
  h1 = h1
  h2 = h2
  Proofs = {p1, p2}
  Parents = {c1}
  ParentOf <- parentOf
  Agents = {a1, a2}
  AgentOf <- agentOf
  Hosts = {h1, h2}
  HostOf <- hostOf
  None = None
  Batches = {b1, b2}
  LocalRunners = {r1, r2}
  RemoteRunners = {r3}
  EscrowRail = {p2}
  MaxTransfers = 2
  MaxCrashes = 1
  Pending = {b1, b2}
  Workers = {a1}
  WorkerOf <- workerOf
  Requests = {r1, r2}
  MaxRestarts = 1
  Names = {"n1", "n2"}
  IsAgent <- isAgent
  Doors = {d1, d2}
  MaxNonces = 2
  MaxWallets = 1
  MaxKeys = 2
  Restores = {"r1"}
  Backups = {"b1"}
  Openers = {o1, o2}
  LastVersion = 2
  OldestVersion = 1
  MaxVersion = 4
  ReplayJobs = 2
  MaxQueued = 4
  MaxCycles = 2
  Issuers = {i1, i2}
  NoIssuer = NoIssuer
  Uploads = {u1}
  Rows = 2
  s1 = s1
  s2 = s2
  JobIds = {"j1", "j2", "j3"}
  Slots = {s1, s2}
  SlotOf <- slotOf
  Purses = {"o", "i"}
  Vault = "vault"
  Units = {1, 2}
  Savings <- savings
  ToolKey = "o"
  Tools = {t1, t2}
  MaxEvents = 3
  MaxGifts = 1
SYMMETRY Symmetry
INVARIANTS
  TypeOK
  LocalRunnersPayOnce
  PaidProofHasTransfer
  BatchSettlesWhole
  ParentVerdict
  VerdictHasDecision
  OneVerdict
  VerdictCountsOnce
  KeysAreEarned
  DataSurvives
  ShownIsCurrent
  UploadsBecomeJobsOnce
  EventsAccountForDeposits
PROPERTIES
  ProofKeepsItsBatch
  VerdictIsFinal
\* Every runner may have stopped, and every proof be decided; the bounds of the others run out.
CHECK_DEADLOCK FALSE
