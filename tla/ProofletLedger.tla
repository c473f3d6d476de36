--------------------------- MODULE ProofletLedger ---------------------------
(***************************************************************************)
(* The job, claim and proof ledger behind the Prooflet API, as the hosted  *)
(* deployment runs it: every statement of a handler is a round trip to     *)
(* Postgres, so handlers of different requests interleave between          *)
(* statements, and only what runs inside appStore.transaction commits as   *)
(* one step.                                                               *)
(*                                                                         *)
(* Every request that matters here starts by sweeping expired leases       *)
(* (expireLeases, three statements with no transaction around them), then  *)
(* reads what it needs, then commits a claim or a proof.  A request is a   *)
(* slot of Requests with a program counter and the values it has read.     *)
(* With a single slot the module is the local SQLite deployment, where a   *)
(* handler runs to its end before the next one starts.                     *)
(***************************************************************************)
EXTENDS Naturals, FiniteSets

CONSTANTS
  Jobs,             \* job ids
  Agents,           \* agent ids
  Payloads,         \* proof fingerprints (verifiers.mjs proofFingerprint)
  GoodPayloads,     \* those the deterministic verifier approves
  SubjectiveJobs,   \* jobs with verification_mode = 'subjective'
  Eligible,         \* <<agent, job>>: capability, reward limit, access level fit
  MaxActiveLeases,  \* ACCESS_POLICY[level].maxActiveLeases
  ClaimIds,         \* bound: rows of job_claims
  ProofIds,         \* client-chosen proof ids
  Requests,         \* requests in flight at once
  UniqueIndex,      \* Postgres: idx_claims_one_active_per_job exists
  CrashPoints,      \* where a handler may be cut short
  None              \* SQL NULL

\* The points between two statements at which a request can be found.
PCs == {"idle", "expiring", "reopening", "ready", "claiming",
        "read_claim", "read_fingerprint", "submitting", "recording"}

ASSUME LedgerAssumption ==
  /\ GoodPayloads \subseteq Payloads
  /\ SubjectiveJobs \subseteq Jobs
  /\ Eligible \subseteq Agents \X Jobs
  /\ MaxActiveLeases \in Nat \ {0}
  /\ UniqueIndex \in BOOLEAN
  /\ CrashPoints \subseteq PCs \ {"idle"}
  /\ None \notin Jobs \cup Agents \cup Payloads \cup ClaimIds \cup ProofIds

VARIABLES
  jobs,        \* the jobs table, by job id
  claims,      \* the job_claims table, by claim id
  proofs,      \* the proofs table, by proof id
  paidAccess,  \* <<agent, job>> with a paid job_access_payments row
  flagged,     \* agents whose reputation summary has duplicateProofs > 0
  req          \* the requests in flight

rows == <<jobs, claims, proofs>>
vars == <<jobs, claims, proofs, paidAccess, flagged, req>>

-----------------------------------------------------------------------------
(* Rows and request slots.                                                 *)

ClosedStatus == {"completed", "rejected", "pending_adjudication"}
JobStatus    == {"absent", "draft", "open", "claimed"} \cup ClosedStatus
FundingStatus ==
  {"absent", "awaiting_wallet_funding", "reserved", "payable", "rejected",
   "pending_adjudication"}
ClaimStatus  == {"absent", "active", "expired", "submitted"}
\* proofs.verification_status, which determines outcome and funding_status
Verdicts     == {"verified", "rejected", "duplicate", "pending"}

JobRow   == [status : JobStatus, funding : FundingStatus,
             claimedBy : Agents \cup {None}]
ClaimRow == [status : ClaimStatus, job : Jobs \cup {None},
             agent : Agents \cup {None}, lapsed : BOOLEAN]
ProofRow == [job : Jobs \cup {None}, agent : Agents \cup {None},
             payload : Payloads \cup {None}, claim : ClaimIds \cup {None},
             verdict : Verdicts \cup {None}]
Slot     == [pc : PCs, stale : SUBSET Jobs, agent : Agents \cup {None},
             job : Jobs \cup {None}, payload : Payloads \cup {None},
             proof : ProofIds \cup {None}, claim : ClaimIds \cup {None},
             verdict : Verdicts \cup {None}]

NoJob   == [status |-> "absent", funding |-> "absent", claimedBy |-> None]
NoClaim == [status |-> "absent", job |-> None, agent |-> None, lapsed |-> FALSE]
NoProof == [job |-> None, agent |-> None, payload |-> None, claim |-> None,
            verdict |-> None]
Idle    == [pc |-> "idle", stale |-> {}, agent |-> None, job |-> None,
            payload |-> None, proof |-> None, claim |-> None, verdict |-> None]

Recorded     == {p \in ProofIds : proofs[p] # NoProof}
Active(c)    == claims[c].status = "active"
ActiveOn(j)  == {c \in ClaimIds : Active(c) /\ claims[c].job = j}
HeldBy(a)    == {c \in ClaimIds : Active(c) /\ claims[c].agent = a}

Init ==
  /\ jobs = [j \in Jobs |-> NoJob]
  /\ claims = [c \in ClaimIds |-> NoClaim]
  /\ proofs = [p \in ProofIds |-> NoProof]
  /\ paidAccess = {}
  /\ flagged = {}
  /\ req = [r \in Requests |-> Idle]

-----------------------------------------------------------------------------
(* Slips: variants of single definitions below, each the way a bug would   *)
(* change it.  No specification uses them; each one breaks a property.     *)

SweepAnyClaim(c, stale)      == claims[c].job \in stale
SweepAnyJob(j, stale)        == j \in stale
ReopenByActiveClaim(j, stale) == /\ jobs[j].status = "claimed" /\ j \in stale
                                 /\ ActiveOn(j) # {}
StaleOfClaimedJobs           == {j \in Jobs : /\ jobs[j].status = "claimed"
                                               /\ \E c \in ActiveOn(j) : claims[c].lapsed}
AtMostLimit(a, j)            == /\ <<a, j>> \in Eligible /\ a \notin flagged
                                /\ Cardinality(HeldBy(a)) <= MaxActiveLeases
AnyClaimOf(a, j)             == {c \in ClaimIds : claims[c].job = j /\ claims[c].agent = a}
SeenOnRejectedProof(w)       == \E p \in Recorded : /\ proofs[p].payload = w
                                                    /\ proofs[p].verdict = "rejected"
StatusIsVerdict(v)           == v
RejectedKeepsLease(v)        == IF v = "verified" THEN "completed" ELSE "claimed"
ClaimNotMarked(c)            == claims
DuplicatesPaid(v)            == CASE v \in {"verified", "duplicate"} -> "payable"
                                  [] v = "pending" -> "pending_adjudication"
                                  [] OTHER -> "rejected"

-----------------------------------------------------------------------------
(* Issuers, payers and time.                                               *)

\* POST /jobs: a reserved job, or one that waits for its escrow deposit.
CreateJob(j) ==
  /\ jobs[j] = NoJob
  /\ \E f \in {"reserved", "awaiting_wallet_funding"}, s \in {"open", "draft"} :
       jobs' = [jobs EXCEPT ![j] = [NoJob EXCEPT !.status = s, !.funding = f]]
  /\ UNCHANGED <<claims, proofs, paidAccess, flagged, req>>

\* The conditional UPDATE with which fund-escrow and fund-from-circle-wallet
\* open a job whose deposit was verified on chain.
FundJob(j) ==
  /\ jobs[j].funding = "awaiting_wallet_funding"
  /\ jobs' = [jobs EXCEPT ![j].funding = "reserved", ![j].status = "open"]
  /\ UNCHANGED <<claims, proofs, paidAccess, flagged, req>>

\* recordAccessPayment, after the gateway settled the access fee.
PayAccess(a, j) ==
  /\ jobs[j] # NoJob
  /\ <<a, j>> \notin paidAccess
  /\ paidAccess' = paidAccess \cup {<<a, j>>}
  /\ UNCHANGED <<jobs, claims, proofs, flagged, req>>

\* lease_expires_at passes; nothing in the database changes by itself.
LeaseLapses(c) ==
  /\ Active(c) /\ ~claims[c].lapsed
  /\ claims' = [claims EXCEPT ![c].lapsed = TRUE]
  /\ UNCHANGED <<jobs, proofs, paidAccess, flagged, req>>

-----------------------------------------------------------------------------
(* The lease sweep: expireLeases, one action per statement.                *)

Goto(r, pc)  == req' = [req EXCEPT ![r].pc = pc]
Return(r)    == req' = [req EXCEPT ![r] = Idle]

StaleJobs == {claims[c].job : c \in {d \in ClaimIds : Active(d) /\ claims[d].lapsed}}

\* SELECT job_id FROM job_claims WHERE status = 'active' AND lease_expires_at <= now
SelectExpired(r) ==
  /\ req[r].pc = "idle"
  /\ req' = [req EXCEPT ![r].stale = StaleJobs,
                        ![r].pc = IF StaleJobs = {} THEN "ready" ELSE "expiring"]
  /\ UNCHANGED <<jobs, claims, proofs, paidAccess, flagged>>

\* WHERE status = 'active' AND job_id IN (...): by job, whatever claim is on it now
SweepHitsClaim(c, stale) == Active(c) /\ claims[c].job \in stale

ExpireClaims(r) ==
  /\ req[r].pc = "expiring"
  /\ claims' = [c \in ClaimIds |->
                  IF SweepHitsClaim(c, req[r].stale)
                  THEN [claims[c] EXCEPT !.status = "expired"] ELSE claims[c]]
  /\ Goto(r, "reopening")
  /\ UNCHANGED <<jobs, proofs, paidAccess, flagged>>

\* WHERE status = 'claimed' AND job_id IN (...)
SweepHitsJob(j, stale) == jobs[j].status = "claimed" /\ j \in stale

ReopenJobs(r) ==
  /\ req[r].pc = "reopening"
  /\ jobs' = [j \in Jobs |->
                IF SweepHitsJob(j, req[r].stale)
                THEN [jobs[j] EXCEPT !.status = "open", !.claimedBy = None]
                ELSE jobs[j]]
  /\ req' = [req EXCEPT ![r].pc = "ready", ![r].stale = {}]
  /\ UNCHANGED <<claims, proofs, paidAccess, flagged>>

\* GET /jobs and /dashboard end here, and so does a request refused by a check.
Finish(r) ==
  /\ req[r].pc = "ready"
  /\ Return(r)
  /\ UNCHANGED <<jobs, claims, proofs, paidAccess, flagged>>

-----------------------------------------------------------------------------
(* POST /agents/:agentId/claim-job.                                        *)

\* evaluateJobAccess: policy, duplicate risk and the limit on active leases
MayClaim(a, j) ==
  /\ <<a, j>> \in Eligible
  /\ a \notin flagged
  /\ Cardinality(HeldBy(a)) < MaxActiveLeases

Claimable(j) == jobs[j].status = "open" /\ jobs[j].funding = "reserved"

HasPaidAccess(a, j) == <<a, j>> \in paidAccess

\* The reads before the claim: reputation summary, lease count, job, payment.
ReadForClaim(r) ==
  /\ req[r].pc = "ready"
  /\ \E a \in Agents, j \in Jobs :
       /\ Claimable(j) /\ MayClaim(a, j) /\ HasPaidAccess(a, j)
       /\ req' = [req EXCEPT ![r] =
                    [Idle EXCEPT !.pc = "claiming", !.agent = a, !.job = j]]
  /\ UNCHANGED <<jobs, claims, proofs, paidAccess, flagged>>

\* UPDATE jobs ... WHERE job_id = $4 AND status = 'open' must change one row,
\* and on Postgres the partial unique index must accept the new active claim.
ClaimCommits(j) ==
  jobs[j].status = "open" /\ (UniqueIndex => ActiveOn(j) = {})

CommitClaim(r) ==
  LET a == req[r].agent  j == req[r].job IN
  /\ req[r].pc = "claiming"
  /\ ClaimCommits(j)
  /\ \E c \in ClaimIds :
       /\ claims[c] = NoClaim
       /\ claims' = [claims EXCEPT ![c] = [status |-> "active", job |-> j,
                                           agent |-> a, lapsed |-> FALSE]]
  /\ jobs' = [jobs EXCEPT ![j].status = "claimed", ![j].claimedBy = a]
  /\ Return(r)
  /\ UNCHANGED <<proofs, paidAccess, flagged>>

\* JOB_NOT_CLAIMABLE or a unique violation: the transaction rolls back.
RefuseClaim(r) ==
  /\ req[r].pc = "claiming"
  /\ ~ClaimCommits(req[r].job)
  /\ Return(r)
  /\ UNCHANGED <<jobs, claims, proofs, paidAccess, flagged>>

-----------------------------------------------------------------------------
(* POST /jobs/:jobId/proof.                                                *)

\* SELECT * FROM jobs: it must be claimed by the agent that submits.
ReadJobForProof(r) ==
  /\ req[r].pc = "ready"
  /\ \E a \in Agents, j \in Jobs, w \in Payloads, p \in ProofIds :
       /\ jobs[j].status = "claimed" /\ jobs[j].claimedBy = a
       /\ req' = [req EXCEPT ![r] =
                    [Idle EXCEPT !.pc = "read_claim", !.agent = a, !.job = j,
                                 !.payload = w, !.proof = p]]
  /\ UNCHANGED <<jobs, claims, proofs, paidAccess, flagged>>

\* The agent's active claim on the job, with a lease that has not run out.
LiveClaims(a, j) ==
  {c \in ClaimIds : Active(c) /\ claims[c].job = j /\ claims[c].agent = a
                    /\ ~claims[c].lapsed}

ReadClaim(r) ==
  LET live == LiveClaims(req[r].agent, req[r].job) IN
  /\ req[r].pc = "read_claim"
  /\ \/ \E c \in live :
          req' = [req EXCEPT ![r].claim = c, ![r].pc = "read_fingerprint"]
     \/ live = {} /\ Return(r)
  /\ UNCHANGED <<jobs, claims, proofs, paidAccess, flagged>>

\* findByFingerprint, then verifyProof or verifySubjectivePreflight
SeenBefore(w) == \E p \in Recorded : proofs[p].payload = w

Verdict(j, w) ==
  IF SeenBefore(w) THEN "duplicate"
  ELSE IF w \notin GoodPayloads THEN "rejected"
  ELSE IF j \in SubjectiveJobs THEN "pending"
  ELSE "verified"

ReadFingerprint(r) ==
  /\ req[r].pc = "read_fingerprint"
  /\ req' = [req EXCEPT ![r].verdict = Verdict(req[r].job, req[r].payload),
                        ![r].pc = "submitting"]
  /\ UNCHANGED <<jobs, claims, proofs, paidAccess, flagged>>

\* What a verdict does to the job's status and funding_status.
JobStatusAfter(v) ==
  CASE v = "verified" -> "completed"
    [] v = "pending"  -> "pending_adjudication"
    [] OTHER          -> "rejected"

FundingAfter(v) ==
  CASE v = "verified" -> "payable"
    [] v = "pending"  -> "pending_adjudication"
    [] OTHER          -> "rejected"

\* markClaimSubmitted: UPDATE job_claims ... WHERE claim_id = $1
SubmittedClaims(c) == [claims EXCEPT ![c].status = "submitted"]

\* The transaction: createProof, markClaimSubmitted, completeJobAfterProof.
\* Neither UPDATE looks at the status it overwrites.
CommitProof(r) ==
  LET q == req[r] IN
  /\ q.pc = "submitting"
  /\ q.proof \notin Recorded
  /\ proofs' = [proofs EXCEPT ![q.proof] =
                  [job |-> q.job, agent |-> q.agent, payload |-> q.payload,
                   claim |-> q.claim, verdict |-> q.verdict]]
  /\ claims' = SubmittedClaims(q.claim)
  /\ jobs' = [jobs EXCEPT ![q.job].status = JobStatusAfter(q.verdict),
                          ![q.job].funding = FundingAfter(q.verdict)]
  /\ Goto(r, "recording")
  /\ UNCHANGED <<paidAccess, flagged>>

\* 409: a proof with this id is already there.
RefuseProof(r) ==
  /\ req[r].pc = "submitting"
  /\ req[r].proof \in Recorded
  /\ Return(r)
  /\ UNCHANGED <<jobs, claims, proofs, paidAccess, flagged>>

\* appendReputationEvent after the commit; only duplicates weigh on later claims.
RecordReputation(r) ==
  /\ req[r].pc = "recording"
  /\ flagged' = IF req[r].verdict = "duplicate" THEN flagged \cup {req[r].agent}
                ELSE flagged
  /\ Return(r)
  /\ UNCHANGED <<jobs, claims, proofs, paidAccess>>

\* The process dies, the connection drops or a statement throws: what was
\* committed stays, the rest of the handler never runs.
Fail(r) ==
  /\ req[r].pc \in CrashPoints
  /\ Return(r)
  /\ UNCHANGED <<jobs, claims, proofs, paidAccess, flagged>>

-----------------------------------------------------------------------------

Sweep(r) == SelectExpired(r) \/ ExpireClaims(r) \/ ReopenJobs(r)

Handle(r) ==
  \/ ReadForClaim(r) \/ CommitClaim(r) \/ RefuseClaim(r)
  \/ ReadJobForProof(r) \/ ReadClaim(r) \/ ReadFingerprint(r)
  \/ CommitProof(r) \/ RefuseProof(r) \/ RecordReputation(r)

Next ==
  \/ \E j \in Jobs : CreateJob(j) \/ FundJob(j)
  \/ \E a \in Agents, j \in Jobs : PayAccess(a, j)
  \/ \E c \in ClaimIds : LeaseLapses(c)
  \/ \E r \in Requests : Sweep(r) \/ Finish(r) \/ Handle(r) \/ Fail(r)

Spec == Init /\ [][Next]_vars

\* Requests keep arriving (agents poll GET /jobs), a handler that has started is
\* scheduled until it returns or fails, and not every sweep fails: each of its
\* statements is reached and run again and again.  Time passes, so a lease that
\* is neither used nor swept runs out.
Fairness ==
  /\ \A r \in Requests : /\ WF_vars(SelectExpired(r))
                          /\ SF_vars(ExpireClaims(r))
                          /\ SF_vars(ReopenJobs(r))
                          /\ WF_vars(Finish(r) \/ Handle(r))
  /\ \A c \in ClaimIds : WF_vars(LeaseLapses(c))

FairSpec == Spec /\ Fairness

-----------------------------------------------------------------------------
(* Properties that hold however requests interleave.                       *)

\* Every table and every request slot holds values of the domain of its
\* column or variable.
TypeOK ==
  /\ jobs \in [Jobs -> JobRow]
  /\ claims \in [ClaimIds -> ClaimRow]
  /\ proofs \in [ProofIds -> ProofRow]
  /\ paidAccess \subseteq Agents \X Jobs
  /\ flagged \subseteq Agents
  /\ req \in [Requests -> Slot]

\* A job with a recorded proof is closed for good: no sweep, claim or deposit
\* that runs late offers it to an agent again.
ProofClosesJob == \A p \in Recorded : jobs[proofs[p].job].status \in ClosedStatus

\* Every proof rests on a claim of its own agent on its own job, and that claim
\* stays 'submitted' whatever sweeps run beside or after the submission.
ProofRestsOnItsClaim ==
  \A p \in Recorded : LET c == claims[proofs[p].claim] IN
    c.status = "submitted" /\ c.job = proofs[p].job /\ c.agent = proofs[p].agent

\* A job that reads 'claimed' was claimed by the agent it names, and that claim
\* is still active or was expired by a sweep that has not reopened the job.
HolderHasClaim ==
  \A j \in Jobs : jobs[j].status = "claimed" =>
    \E c \in ClaimIds : /\ claims[c].job = j /\ claims[c].agent = jobs[j].claimedBy
                        /\ claims[c].status \in {"active", "expired"}

-----------------------------------------------------------------------------
(* Properties of one request at a time.                                    *)

\* An active claim is backed by its job: the job is 'claimed' by that agent.
\* Between the statements of a sweep too.
ActiveClaimHoldsJob ==
  \A c \in ClaimIds : Active(c) =>
    /\ jobs[claims[c].job].status = "claimed"
    /\ jobs[claims[c].job].claimedBy = claims[c].agent

\* A job gets one proof at most, and its reward is payable exactly when that
\* proof was approved: neither a duplicate nor a rejection ever earns it.
JobAgreesWithItsProof ==
  \A j \in Jobs : LET on == {p \in Recorded : proofs[p].job = j} IN
    /\ \A p, q \in on : p = q
    /\ jobs[j].funding = "payable" <=> \E p \in on : proofs[p].verdict = "verified"

\* SECURITY.md: "Fingerprint-based duplicate detection remains active across
\* jobs and rejects reused proof work."  Of the proofs with one payload, on
\* whatever jobs, one at most is judged on its merits or by an adjudicator.
ReusedPayloadRejected ==
  \A p, q \in Recorded :
    /\ proofs[p].payload = proofs[q].payload
    /\ proofs[p].verdict # "duplicate" /\ proofs[q].verdict # "duplicate"
    => p = q

\* An agent never holds more active leases than its access level allows.
LeaseLimit == \A a \in Agents : Cardinality(HeldBy(a)) <= MaxActiveLeases

\* SECURITY.md: "Expired leases reopen work and reject late proof submission."
\* A proof is recorded only on a claim that is still 'active' in the table, which
\* no sweep has expired and no proof has used.  A lease that runs out after
\* ReadClaim looked at it, and is not swept yet, still takes its proof.
LateProofRefused ==
  [][\A p \in ProofIds :
       p \notin Recorded /\ proofs'[p] # NoProof => Active(proofs'[p].claim)]_vars

\* The same sentence read forwards: a claimed job without a lease that is still
\* running does not stay so for ever.  A handler may be cut short anywhere but
\* between the two UPDATEs of the sweep.
WithoutLease(j) == jobs[j].status = "claimed" /\ \A c \in ActiveOn(j) : claims[c].lapsed

LapsedLeaseReopens == \A j \in Jobs : WithoutLease(j) ~> ~WithoutLease(j)

\* Every lease ends, its claim submitted or expired by a sweep.  The second
\* UPDATE of a late sweep can reopen a job that was claimed again meanwhile, and
\* then the new claim is active on a job nobody holds: the index refuses every
\* other claim of the job and the lease counts against its agent's limit until
\* a sweep, which selects by claim and not by job, finds it.
EveryLeaseEnds == \A c \in ClaimIds : Active(c) ~> ~Active(c)

=============================================================================
