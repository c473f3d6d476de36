------------------------ MODULE ProofletLedgerProofs ------------------------
(***************************************************************************)
(* What ProofletLedger guarantees for any number of jobs and agents.       *)
(*                                                                         *)
(* First for any number of requests in flight: the type invariant and the  *)
(* safety invariants that survive every interleaving.  IInv adds to them   *)
(* what makes them inductive: rows and request slots refer to rows that    *)
(* exist, a request that read a claim still knows whose claim it is, and a *)
(* closed job is not one that waits for its deposit.                       *)
(*                                                                         *)
(* Then for one handler at a time: the invariants that interleaving        *)
(* breaks, and that the ledger implements the job board.  SerialInv adds   *)
(* that what a handler has read is still so when it acts on it.            *)
(***************************************************************************)
EXTENDS LedgerBoard, FiniteSetTheorems, TLAPS

\* A claim or proof row names existing rows: the foreign keys of the schema.
RowsLinked ==
  /\ \A c \in ClaimIds : claims[c].status # "absent" =>
       claims[c].job \in Jobs /\ claims[c].agent \in Agents
  /\ \A p \in Recorded : proofs[p].job \in Jobs /\ proofs[p].claim \in ClaimIds

\* What a handler has read by the time it reaches a point.
Filled(q) ==
  /\ q.pc \in {"claiming", "read_claim", "read_fingerprint", "submitting", "recording"} =>
       q.agent \in Agents /\ q.job \in Jobs
  /\ q.pc \in {"read_claim", "read_fingerprint", "submitting"} =>
       q.payload \in Payloads /\ q.proof \in ProofIds
  /\ q.pc \in {"read_fingerprint", "submitting"} =>
       /\ q.claim \in ClaimIds
       /\ claims[q.claim].status # "absent"
       /\ claims[q.claim].job = q.job
       /\ claims[q.claim].agent = q.agent
  /\ q.pc = "submitting" => q.verdict \in Verdicts

SlotsFilled == \A r \in Requests : Filled(req[r])

\* A closed job is past its deposit, so FundJob cannot open it again.
ClosedIsFunded ==
  \A j \in Jobs : jobs[j].status \in ClosedStatus =>
                    jobs[j].funding # "awaiting_wallet_funding"

Links == RowsLinked /\ SlotsFilled

IInv ==
  /\ TypeOK /\ Links
  /\ ClosedIsFunded /\ ProofClosesJob /\ ProofRestsOnItsClaim /\ HolderHasClaim

-----------------------------------------------------------------------------
(* The verdict of a proof decides the statuses, and no verdict opens a job.*)

\* What verifyProof returns is one of the four verdicts, whatever it looks at.
LEMMA VerdictValues ==
  \A j, w : Verdict(j, w) \in Verdicts
  BY DEF Verdict, Verdicts

\* Every verdict closes the job, and none sets it back before its funding.
LEMMA StatusValues ==
  \A v : /\ JobStatusAfter(v) \in ClosedStatus
         /\ FundingAfter(v) \in FundingStatus \ {"absent", "awaiting_wallet_funding"}
  BY DEF JobStatusAfter, FundingAfter, ClosedStatus, FundingStatus

\* The sweep collects job ids of existing jobs.
LEMMA StaleAreJobs ==
  ASSUME TypeOK, RowsLinked
  PROVE  StaleJobs \in SUBSET Jobs
  BY DEF StaleJobs, Active, RowsLinked

\* No id is NULL.
LEMMA NoneIsNoRow ==
  None \notin Jobs /\ None \notin Agents /\ None \notin ClaimIds /\ None \notin ProofIds
  BY LedgerAssumption

-----------------------------------------------------------------------------
(* The type invariant.                                                     *)

\* An idle request is a well-formed slot.
LEMMA IdleIsSlot == Idle \in Slot
  BY DEF Idle, Slot, PCs

\* The empty tables have the types of their columns.
LEMMA TypeInit == Init => TypeOK
<1> SUFFICES ASSUME Init PROVE TypeOK
  OBVIOUS
<1>1. NoJob \in JobRow
  BY DEF NoJob, JobRow, JobStatus, FundingStatus
<1>2. NoClaim \in ClaimRow
  BY DEF NoClaim, ClaimRow, ClaimStatus
<1>3. NoProof \in ProofRow
  BY DEF NoProof, ProofRow
<1> QED BY <1>1, <1>2, <1>3, IdleIsSlot DEF Init, TypeOK

\* What each step writes fits its column.
LEMMA TypeStep ==
  ASSUME TypeOK, Links, [Next]_vars
  PROVE  TypeOK'
<1> USE DEF TypeOK
<1>1. ASSUME NEW j \in Jobs, CreateJob(j) PROVE TypeOK'
  <2>1. PICK f \in {"reserved", "awaiting_wallet_funding"}, s \in {"open", "draft"} :
          jobs' = [jobs EXCEPT ![j] = [NoJob EXCEPT !.status = s, !.funding = f]]
    BY <1>1 DEF CreateJob
  <2>2. [NoJob EXCEPT !.status = s, !.funding = f] \in JobRow
    BY DEF NoJob, JobRow, JobStatus, FundingStatus
  <2> QED BY <1>1, <2>1, <2>2 DEF CreateJob
<1>2. ASSUME NEW j \in Jobs, FundJob(j) PROVE TypeOK'
  <2>1. [jobs[j] EXCEPT !.funding = "reserved", !.status = "open"] \in JobRow
    BY DEF JobRow, JobStatus, FundingStatus
  <2>2. jobs' = [jobs EXCEPT ![j] = [jobs[j] EXCEPT !.funding = "reserved", !.status = "open"]]
    BY <1>2 DEF FundJob
  <2> QED BY <1>2, <2>1, <2>2 DEF FundJob
<1>3. ASSUME NEW a \in Agents, NEW j \in Jobs, PayAccess(a, j) PROVE TypeOK'
  BY <1>3 DEF PayAccess
<1>4. ASSUME NEW c \in ClaimIds, LeaseLapses(c) PROVE TypeOK'
  <2>1. [claims[c] EXCEPT !.lapsed = TRUE] \in ClaimRow
    BY DEF ClaimRow
  <2> QED BY <1>4, <2>1 DEF LeaseLapses
<1>5. ASSUME NEW r \in Requests, SelectExpired(r) PROVE TypeOK'
  <2>1. StaleJobs \in SUBSET Jobs
    BY StaleAreJobs DEF Links
  <2>2. ASSUME NEW pc \in PCs PROVE [req[r] EXCEPT !.stale = StaleJobs, !.pc = pc] \in Slot
    BY <2>1 DEF Slot
  <2>3. PICK pc \in {"ready", "expiring"} :
          req' = [req EXCEPT ![r] = [req[r] EXCEPT !.stale = StaleJobs, !.pc = pc]]
    BY <1>5 DEF SelectExpired
  <2> QED BY <1>5, <2>2, <2>3 DEF SelectExpired, PCs
<1>6. ASSUME NEW r \in Requests, ExpireClaims(r) PROVE TypeOK'
  <2>1. \A c \in ClaimIds : [claims[c] EXCEPT !.status = "expired"] \in ClaimRow
    BY DEF ClaimRow, ClaimStatus
  <2>2. [req[r] EXCEPT !.pc = "reopening"] \in Slot
    BY DEF Slot, PCs
  <2> QED BY <1>6, <2>1, <2>2 DEF ExpireClaims, Goto
<1>7. ASSUME NEW r \in Requests, ReopenJobs(r) PROVE TypeOK'
  <2>1. \A j \in Jobs : [jobs[j] EXCEPT !.status = "open", !.claimedBy = None] \in JobRow
    BY DEF JobRow, JobStatus
  <2>2. [req[r] EXCEPT !.pc = "ready", !.stale = {}] \in Slot
    BY DEF Slot, PCs
  <2>3. req' = [req EXCEPT ![r] = [req[r] EXCEPT !.pc = "ready", !.stale = {}]]
    BY <1>7 DEF ReopenJobs
  <2> QED BY <1>7, <2>1, <2>2, <2>3 DEF ReopenJobs
<1>8. ASSUME NEW r \in Requests, Finish(r) \/ RefuseClaim(r) \/ RefuseProof(r) \/ Fail(r)
      PROVE TypeOK'
  BY <1>8, IdleIsSlot DEF Finish, RefuseClaim, RefuseProof, Fail, Return
<1>9. ASSUME NEW r \in Requests, ReadForClaim(r) PROVE TypeOK'
  <2>1. PICK a \in Agents, j \in Jobs :
          req' = [req EXCEPT ![r] = [Idle EXCEPT !.pc = "claiming", !.agent = a, !.job = j]]
    BY <1>9 DEF ReadForClaim
  <2>2. [Idle EXCEPT !.pc = "claiming", !.agent = a, !.job = j] \in Slot
    BY DEF Idle, Slot, PCs
  <2> QED BY <1>9, <2>1, <2>2 DEF ReadForClaim
<1>10. ASSUME NEW r \in Requests, CommitClaim(r) PROVE TypeOK'
  <2>1. req[r].agent \in Agents /\ req[r].job \in Jobs
    BY <1>10 DEF CommitClaim, Links, SlotsFilled, Filled
  <2>2. [status |-> "active", job |-> req[r].job, agent |-> req[r].agent,
         lapsed |-> FALSE] \in ClaimRow
    BY <2>1 DEF ClaimRow, ClaimStatus
  <2>3. claims' \in [ClaimIds -> ClaimRow]
    BY <1>10, <2>2 DEF CommitClaim
  <2>4. [jobs[req[r].job] EXCEPT !.status = "claimed", !.claimedBy = req[r].agent] \in JobRow
    BY <2>1 DEF JobRow, JobStatus
  <2>5. jobs' = [jobs EXCEPT ![req[r].job] =
                   [jobs[req[r].job] EXCEPT !.status = "claimed", !.claimedBy = req[r].agent]]
    BY <1>10 DEF CommitClaim
  <2> QED BY <1>10, <2>1, <2>3, <2>4, <2>5, IdleIsSlot DEF CommitClaim, Return
<1>11. ASSUME NEW r \in Requests, ReadJobForProof(r) PROVE TypeOK'
  <2>1. PICK a \in Agents, j \in Jobs, w \in Payloads, p \in ProofIds :
          /\ jobs[j].status = "claimed" /\ jobs[j].claimedBy = a
          /\ req' = [req EXCEPT ![r] =
                       [Idle EXCEPT !.pc = "read_claim", !.agent = a, !.job = j,
                                    !.payload = w, !.proof = p]]
    BY <1>11 DEF ReadJobForProof
  <2>2. [Idle EXCEPT !.pc = "read_claim", !.agent = a, !.job = j,
                     !.payload = w, !.proof = p] \in Slot
    BY DEF Idle, Slot, PCs
  <2> QED BY <1>11, <2>1, <2>2 DEF ReadJobForProof
<1>12. ASSUME NEW r \in Requests, ReadClaim(r) PROVE TypeOK'
  <2>1. CASE req' = [req EXCEPT ![r] = Idle]
    BY <1>12, <2>1, IdleIsSlot DEF ReadClaim
  <2>2. ASSUME NEW c \in ClaimIds,
               req' = [req EXCEPT ![r].claim = c, ![r].pc = "read_fingerprint"]
        PROVE  TypeOK'
    <3>1. [req[r] EXCEPT !.claim = c, !.pc = "read_fingerprint"] \in Slot
      BY DEF Slot, PCs
    <3>2. req' = [req EXCEPT ![r] = [req[r] EXCEPT !.claim = c, !.pc = "read_fingerprint"]]
      BY <2>2
    <3> QED BY <1>12, <3>1, <3>2 DEF ReadClaim
  <2> QED BY <1>12, <2>1, <2>2 DEF ReadClaim, LiveClaims, Return
<1>13. ASSUME NEW r \in Requests, ReadFingerprint(r) PROVE TypeOK'
  <2>1. ASSUME NEW v \in Verdicts PROVE [req[r] EXCEPT !.verdict = v, !.pc = "submitting"] \in Slot
    BY DEF Slot, PCs
  <2>2. req' = [req EXCEPT ![r] = [req[r] EXCEPT !.verdict = Verdict(req[r].job, req[r].payload),
                                                 !.pc = "submitting"]]
    BY <1>13 DEF ReadFingerprint
  <2>3. Verdict(req[r].job, req[r].payload) \in Verdicts
    BY VerdictValues
  <2> QED BY <1>13, <2>1, <2>2, <2>3 DEF ReadFingerprint
<1>14. ASSUME NEW r \in Requests, CommitProof(r) PROVE TypeOK'
  <2> DEFINE q == req[r]
  <2>1. /\ q.job \in Jobs /\ q.agent \in Agents /\ q.payload \in Payloads
        /\ q.claim \in ClaimIds /\ q.verdict \in Verdicts
    BY <1>14 DEF CommitProof, Links, SlotsFilled, Filled
  <2>2. [jobs[q.job] EXCEPT !.status = JobStatusAfter(q.verdict),
                            !.funding = FundingAfter(q.verdict)] \in JobRow
    BY <2>1, StatusValues DEF JobRow, JobStatus
  <2>3. jobs' = [jobs EXCEPT ![q.job] =
                   [jobs[q.job] EXCEPT !.status = JobStatusAfter(q.verdict),
                                       !.funding = FundingAfter(q.verdict)]]
    BY <1>14 DEF CommitProof
  <2>4. [claims[q.claim] EXCEPT !.status = "submitted"] \in ClaimRow
    BY <2>1 DEF ClaimRow, ClaimStatus
  <2>5. claims' \in [ClaimIds -> ClaimRow]
    BY <1>14, <2>4 DEF CommitProof, SubmittedClaims
  <2>6. [job |-> q.job, agent |-> q.agent, payload |-> q.payload,
         claim |-> q.claim, verdict |-> q.verdict] \in ProofRow
    BY <2>1 DEF ProofRow
  <2>7. [q EXCEPT !.pc = "recording"] \in Slot
    BY DEF Slot, PCs
  <2> QED BY <1>14, <2>2, <2>3, <2>5, <2>6, <2>7 DEF CommitProof, Goto
<1>15. ASSUME NEW r \in Requests, RecordReputation(r) PROVE TypeOK'
  <2>1. req[r].agent \in Agents
    BY <1>15 DEF RecordReputation, Links, SlotsFilled, Filled
  <2> QED BY <1>15, <2>1, IdleIsSlot DEF RecordReputation, Return
<1>16. ASSUME UNCHANGED vars PROVE TypeOK'
  BY <1>16 DEF vars
<1> QED
  BY <1>1, <1>2, <1>3, <1>4, <1>5, <1>6, <1>7, <1>8, <1>9, <1>10, <1>11, <1>12,
     <1>13, <1>14, <1>15, <1>16 DEF Next, Sweep, Handle

-----------------------------------------------------------------------------
(* Rows are never unlinked, and no handler forgets what it has read.       *)

\* A claim row keeps its job and agent for good.
LEMMA ClaimsPersist ==
  ASSUME TypeOK, [Next]_vars
  PROVE  \A c \in ClaimIds : claims[c].status # "absent" =>
           /\ claims'[c].status # "absent"
           /\ claims'[c].job = claims[c].job /\ claims'[c].agent = claims[c].agent
<1> USE DEF TypeOK
<1> SUFFICES ASSUME NEW c \in ClaimIds, claims[c].status # "absent"
             PROVE  /\ claims'[c].status # "absent"
                    /\ claims'[c].job = claims[c].job /\ claims'[c].agent = claims[c].agent
  OBVIOUS
<1> DEFINE Kept == /\ claims'[c].status # "absent"
                   /\ claims'[c].job = claims[c].job /\ claims'[c].agent = claims[c].agent
<1>2. CASE claims' = claims
  BY <1>2
<1>3. ASSUME NEW d \in ClaimIds, LeaseLapses(d) PROVE Kept
  BY <1>3 DEF LeaseLapses, ClaimRow
<1>4. ASSUME NEW r \in Requests, ExpireClaims(r) PROVE Kept
  BY <1>4 DEF ExpireClaims, ClaimRow
<1>5. ASSUME NEW r \in Requests, CommitClaim(r) PROVE Kept
  BY <1>5 DEF CommitClaim, NoClaim, ClaimRow
<1>6. ASSUME NEW r \in Requests, CommitProof(r) PROVE Kept
  BY <1>6 DEF CommitProof, SubmittedClaims, ClaimRow
<1> QED
  BY <1>2, <1>3, <1>4, <1>5, <1>6
  DEF Next, Sweep, Handle, CreateJob, FundJob, PayAccess, SelectExpired, ReopenJobs,
      Finish, ReadForClaim, RefuseClaim, ReadJobForProof, ReadClaim, ReadFingerprint,
      RefuseProof, RecordReputation, Fail, vars

\* Each action leaves a slot as it was or with all that its new point needs.
LEMMA SlotsAfterStep ==
  ASSUME TypeOK, SlotsFilled, [Next]_vars
  PROVE  \A r \in Requests : Filled(req'[r])
<1> USE DEF TypeOK, SlotsFilled
<1>0. Filled(Idle)
  BY DEF Filled, Idle
<1>1. CASE req' = req
  BY <1>1
<1>2. ASSUME NEW r \in Requests, req' = [req EXCEPT ![r] = Idle]
      PROVE  \A s \in Requests : Filled(req'[s])
  BY <1>0, <1>2
<1>3. ASSUME NEW r \in Requests, req'[r].pc \in {"ready", "expiring", "reopening"},
             \A s \in Requests \ {r} : req'[s] = req[s]
      PROVE  \A s \in Requests : Filled(req'[s])
  <2>1. Filled(req'[r])
    BY <1>3 DEF Filled
  <2> QED BY <1>3, <2>1
<1>4. ASSUME NEW r \in Requests, Sweep(r) PROVE \A s \in Requests : Filled(req'[s])
  <2>1. req'[r].pc \in {"ready", "expiring", "reopening"}
    BY <1>4 DEF Sweep, SelectExpired, ExpireClaims, ReopenJobs, Goto, Slot
  <2>2. \A s \in Requests \ {r} : req'[s] = req[s]
    BY <1>4 DEF Sweep, SelectExpired, ExpireClaims, ReopenJobs, Goto
  <2> QED BY <1>3, <2>1, <2>2
<1>5. ASSUME NEW r \in Requests, ReadForClaim(r) PROVE \A s \in Requests : Filled(req'[s])
  <2>1. PICK a \in Agents, j \in Jobs :
          req' = [req EXCEPT ![r] = [Idle EXCEPT !.pc = "claiming", !.agent = a, !.job = j]]
    BY <1>5 DEF ReadForClaim
  <2>2. Filled([Idle EXCEPT !.pc = "claiming", !.agent = a, !.job = j])
    BY DEF Filled, Idle
  <2> QED BY <2>1, <2>2
<1>6. ASSUME NEW r \in Requests, ReadJobForProof(r)
      PROVE  \A s \in Requests : Filled(req'[s])
  <2>1. PICK a \in Agents, j \in Jobs, w \in Payloads, p \in ProofIds :
          /\ jobs[j].status = "claimed" /\ jobs[j].claimedBy = a
          /\ req' = [req EXCEPT ![r] =
                       [Idle EXCEPT !.pc = "read_claim", !.agent = a, !.job = j,
                                    !.payload = w, !.proof = p]]
    BY <1>6 DEF ReadJobForProof
  <2>2. Filled([Idle EXCEPT !.pc = "read_claim", !.agent = a, !.job = j,
                            !.payload = w, !.proof = p])
    BY DEF Filled, Idle
  <2> QED BY <2>1, <2>2
<1>7. ASSUME NEW r \in Requests, ReadClaim(r) PROVE \A s \in Requests : Filled(req'[s])
  <2>1. ASSUME NEW c \in LiveClaims(req[r].agent, req[r].job),
               req' = [req EXCEPT ![r].claim = c, ![r].pc = "read_fingerprint"]
        PROVE  \A s \in Requests : Filled(req'[s])
    <3>1. /\ c \in ClaimIds /\ claims[c].status # "absent"
          /\ claims[c].job = req[r].job /\ claims[c].agent = req[r].agent
      BY DEF LiveClaims, Active
    <3>2. req[r].pc = "read_claim" /\ Filled(req[r])
      BY <1>7 DEF ReadClaim
    <3>3. req'[r] = [req[r] EXCEPT !.claim = c, !.pc = "read_fingerprint"]
      BY <2>1
    <3>4. Filled(req'[r])
      BY <3>1, <3>2, <3>3 DEF Filled, Slot
    <3> QED BY <2>1, <3>4
  <2> QED BY <1>2, <1>7, <2>1 DEF ReadClaim, Return
<1>8. ASSUME NEW r \in Requests, ReadFingerprint(r)
      PROVE  \A s \in Requests : Filled(req'[s])
  <2>1. req[r].pc = "read_fingerprint" /\ Filled(req[r])
    BY <1>8 DEF ReadFingerprint
  <2>2. PICK v \in Verdicts : v = Verdict(req[r].job, req[r].payload)
    BY VerdictValues
  <2>3. req'[r] = [req[r] EXCEPT !.verdict = v, !.pc = "submitting"]
    BY <1>8, <2>2 DEF ReadFingerprint
  <2>4. Filled(req'[r])
    BY <2>1, <2>2, <2>3 DEF Filled, Slot
  <2> QED BY <1>8, <2>4 DEF ReadFingerprint
<1>9. ASSUME NEW r \in Requests, CommitProof(r) PROVE \A s \in Requests : Filled(req'[s])
  <2>1. req[r].pc = "submitting" /\ Filled(req[r])
    BY <1>9 DEF CommitProof
  <2>2. req'[r] = [req[r] EXCEPT !.pc = "recording"]
    BY <1>9 DEF CommitProof, Goto
  <2>3. Filled(req'[r])
    BY <2>1, <2>2 DEF Filled, Slot
  <2> QED BY <1>9, <2>3 DEF CommitProof, Goto
<1> QED
  BY <1>1, <1>2, <1>4, <1>5, <1>6, <1>7, <1>8, <1>9
  DEF Next, Handle, CreateJob, FundJob, PayAccess, LeaseLapses, Finish, CommitClaim,
      RefuseClaim, RefuseProof, RecordReputation, Fail, Return, vars

\* No step breaks a reference: rows and requests go on naming rows that exist.
LEMMA LinksStep ==
  ASSUME TypeOK, Links, [Next]_vars
  PROVE  Links'
<1> USE DEF TypeOK, Links
<1>1. SlotsFilled'
  BY ClaimsPersist, SlotsAfterStep DEF SlotsFilled, Filled
<1>2. ASSUME NEW c \in ClaimIds, claims'[c].status # "absent"
      PROVE  claims'[c].job \in Jobs /\ claims'[c].agent \in Agents
  <2>1. CASE claims[c].status # "absent"
    BY <2>1, ClaimsPersist DEF RowsLinked
  <2>2. CASE claims[c].status = "absent"
    <3>1. CASE \E r \in Requests : CommitClaim(r)
      BY <1>2, <2>2, <3>1 DEF CommitClaim, SlotsFilled, Filled, ClaimRow
    <3>2. CASE \E r \in Requests : CommitProof(r)
      BY <1>2, <2>2, <3>2 DEF CommitProof, SubmittedClaims, SlotsFilled, Filled, ClaimRow
    <3>3. CASE \E r \in Requests : ExpireClaims(r)
      BY <1>2, <2>2, <3>3 DEF ExpireClaims, SweepHitsClaim, Active, ClaimRow
    <3>4. CASE \E d \in ClaimIds : LeaseLapses(d)
      BY <1>2, <2>2, <3>4 DEF LeaseLapses, Active, ClaimRow
    <3>5. CASE claims' = claims
      BY <1>2, <2>2, <3>5
    <3> QED
      BY <3>1, <3>2, <3>3, <3>4, <3>5
      DEF Next, Sweep, Handle, CreateJob, FundJob, PayAccess, SelectExpired, ReopenJobs,
          Finish, ReadForClaim, RefuseClaim, ReadJobForProof, ReadClaim,
          ReadFingerprint, RefuseProof, RecordReputation, Fail, vars
  <2> QED BY <2>1, <2>2
<1>3. ASSUME NEW p \in ProofIds, proofs'[p] # NoProof
      PROVE  proofs'[p].job \in Jobs /\ proofs'[p].claim \in ClaimIds
  <2>1. CASE proofs' = proofs
    BY <1>3, <2>1 DEF RowsLinked, Recorded
  <2>2. ASSUME NEW r \in Requests, CommitProof(r)
        PROVE  proofs'[p].job \in Jobs /\ proofs'[p].claim \in ClaimIds
    <3>1. req[r].job \in Jobs /\ req[r].claim \in ClaimIds
      BY <2>2 DEF CommitProof, SlotsFilled, Filled
    <3>2. CASE p = req[r].proof
      BY <2>2, <3>1, <3>2 DEF CommitProof
    <3>3. CASE p # req[r].proof
      BY <1>3, <2>2, <3>3 DEF CommitProof, RowsLinked, Recorded
    <3> QED BY <3>2, <3>3
  <2> QED
    BY <2>1, <2>2
    DEF Next, Sweep, Handle, CreateJob, FundJob, PayAccess, LeaseLapses, SelectExpired,
        ExpireClaims, ReopenJobs, Finish, ReadForClaim, CommitClaim, RefuseClaim,
        ReadJobForProof, ReadClaim, ReadFingerprint, RefuseProof, RecordReputation,
        Fail, vars
<1>4. RowsLinked'
  BY <1>2, <1>3 DEF RowsLinked, Recorded
<1> QED BY <1>1, <1>4

-----------------------------------------------------------------------------
(* What survives every interleaving.                                       *)

\* The only writer of proofs adds one row, about the job and the claim of its
\* request, and closes and marks them in the same commit.
LEMMA ProofCommit ==
  ASSUME TypeOK, Links, NEW r \in Requests, CommitProof(r)
  PROVE  LET q == req[r] IN
    /\ q.job \in Jobs /\ q.claim \in ClaimIds
    /\ claims[q.claim].job = q.job /\ claims[q.claim].agent = q.agent
    /\ proofs'[q.proof].job = q.job /\ proofs'[q.proof].agent = q.agent
    /\ proofs'[q.proof].claim = q.claim
    /\ \A p \in ProofIds : p # q.proof => proofs'[p] = proofs[p]
    /\ claims'[q.claim].status = "submitted"
    /\ \A c \in ClaimIds : c # q.claim => claims'[c] = claims[c]
    /\ jobs'[q.job].status \in ClosedStatus
    /\ jobs'[q.job].funding # "awaiting_wallet_funding"
    /\ \A j \in Jobs : j # q.job => jobs'[j] = jobs[j]
<1> USE DEF TypeOK
<1>1. /\ req[r].job \in Jobs /\ req[r].claim \in ClaimIds /\ req[r].proof \in ProofIds
      /\ claims[req[r].claim].job = req[r].job
      /\ claims[req[r].claim].agent = req[r].agent
  BY DEF CommitProof, Links, SlotsFilled, Filled
<1>2. /\ proofs'[req[r].proof].job = req[r].job /\ proofs'[req[r].proof].agent = req[r].agent
      /\ proofs'[req[r].proof].claim = req[r].claim
      /\ \A p \in ProofIds : p # req[r].proof => proofs'[p] = proofs[p]
  BY <1>1 DEF CommitProof
<1>3. /\ claims'[req[r].claim].status = "submitted"
      /\ \A c \in ClaimIds : c # req[r].claim => claims'[c] = claims[c]
  BY <1>1 DEF CommitProof, SubmittedClaims, ClaimRow
<1>4. jobs'[req[r].job] = [jobs[req[r].job] EXCEPT !.status = JobStatusAfter(req[r].verdict),
                                                   !.funding = FundingAfter(req[r].verdict)]
  BY <1>1 DEF CommitProof
<1>5. /\ jobs'[req[r].job].status \in ClosedStatus
      /\ jobs'[req[r].job].funding # "awaiting_wallet_funding"
  BY <1>1, <1>4, StatusValues DEF JobRow
<1>6. \A j \in Jobs : j # req[r].job => jobs'[j] = jobs[j]
  BY <1>1 DEF CommitProof
<1> QED BY <1>1, <1>2, <1>3, <1>5, <1>6

\* A closed job stays closed, past its deposit.
LEMMA ClosedStep ==
  ASSUME TypeOK, Links, ClosedIsFunded, [Next]_vars,
         NEW j \in Jobs, jobs[j].status \in ClosedStatus
  PROVE  jobs'[j].status \in ClosedStatus /\ jobs'[j].funding # "awaiting_wallet_funding"
<1> USE DEF TypeOK
<1> DEFINE Closed == jobs'[j].status \in ClosedStatus
                     /\ jobs'[j].funding # "awaiting_wallet_funding"
<1>1. CASE jobs' = jobs
  BY <1>1 DEF ClosedIsFunded
<1>2. ASSUME NEW i \in Jobs, CreateJob(i) PROVE Closed
  BY <1>2 DEF CreateJob, NoJob, ClosedStatus, ClosedIsFunded
<1>3. ASSUME NEW i \in Jobs, FundJob(i) PROVE Closed
  BY <1>3 DEF FundJob, ClosedIsFunded
<1>4. ASSUME NEW r \in Requests, ReopenJobs(r) PROVE Closed
  BY <1>4 DEF ReopenJobs, SweepHitsJob, ClosedIsFunded, ClosedStatus
<1>5. ASSUME NEW r \in Requests, CommitClaim(r) PROVE Closed
  BY <1>5 DEF CommitClaim, ClaimCommits, ClosedIsFunded, ClosedStatus, Links, SlotsFilled,
              Filled
<1>6. ASSUME NEW r \in Requests, CommitProof(r) PROVE Closed
  BY <1>6, ProofCommit DEF ClosedIsFunded
<1> QED
  BY <1>1, <1>2, <1>3, <1>4, <1>5, <1>6
  DEF Next, Sweep, Handle, PayAccess, LeaseLapses, SelectExpired, ExpireClaims, Finish,
      ReadForClaim, RefuseClaim, ReadJobForProof, ReadClaim, ReadFingerprint,
      RefuseProof, RecordReputation, Fail, vars

\* No job is closed without a proof commit, and none leaves 'closed' again.
LEMMA ClosedIsFundedStep ==
  ASSUME TypeOK, Links, ClosedIsFunded, [Next]_vars
  PROVE  ClosedIsFunded'
<1> USE DEF TypeOK
<1> SUFFICES ASSUME NEW j \in Jobs, jobs'[j].status \in ClosedStatus
             PROVE  jobs'[j].funding # "awaiting_wallet_funding"
  BY DEF ClosedIsFunded
<1>1. CASE jobs[j].status \in ClosedStatus
  BY <1>1, ClosedStep
<1>2. CASE jobs[j].status \notin ClosedStatus
  <2>1. CASE jobs' = jobs
    BY <1>2, <2>1
  <2>2. ASSUME NEW i \in Jobs, CreateJob(i) PROVE FALSE
    <3>1. PICK f \in {"reserved", "awaiting_wallet_funding"}, s \in {"open", "draft"} :
            jobs' = [jobs EXCEPT ![i] = [NoJob EXCEPT !.status = s, !.funding = f]]
      BY <2>2 DEF CreateJob
    <3> QED BY <1>2, <3>1 DEF NoJob, ClosedStatus
  <2>3. ASSUME NEW i \in Jobs, FundJob(i) PROVE FALSE
    BY <1>2, <2>3 DEF FundJob, ClosedStatus, JobRow
  <2>4. ASSUME NEW r \in Requests, ReopenJobs(r) PROVE FALSE
    BY <1>2, <2>4 DEF ReopenJobs, ClosedStatus, JobRow
  <2>5. ASSUME NEW r \in Requests, CommitClaim(r) PROVE FALSE
    BY <1>2, <2>5 DEF CommitClaim, ClosedStatus, JobRow
  <2>6. ASSUME NEW r \in Requests, CommitProof(r)
        PROVE  jobs'[j].funding # "awaiting_wallet_funding"
    BY <1>2, <2>6, ProofCommit
  <2> QED
    BY <2>1, <2>2, <2>3, <2>4, <2>5, <2>6
    DEF Next, Sweep, Handle, PayAccess, LeaseLapses, SelectExpired, ExpireClaims, Finish,
        ReadForClaim, RefuseClaim, ReadJobForProof, ReadClaim, ReadFingerprint,
        RefuseProof, RecordReputation, Fail, vars
<1> QED BY <1>1, <1>2

\* A recorded proof is either old and untouched or the one just committed.
LEMMA ProofsStep ==
  ASSUME [Next]_vars
  PROVE  proofs' = proofs \/ \E r \in Requests : CommitProof(r)
  BY DEF Next, Sweep, Handle, CreateJob, FundJob, PayAccess, LeaseLapses, SelectExpired,
         ExpireClaims, ReopenJobs, Finish, ReadForClaim, CommitClaim, RefuseClaim,
         ReadJobForProof, ReadClaim, ReadFingerprint, RefuseProof, RecordReputation,
         Fail, vars

\* No step reopens a job that has a proof, whatever sweep is under way.
LEMMA ProofClosesJobStep ==
  ASSUME TypeOK, Links, ClosedIsFunded, ProofClosesJob, [Next]_vars
  PROVE  ProofClosesJob'
<1> SUFFICES ASSUME NEW p \in ProofIds, proofs'[p] # NoProof
             PROVE  jobs'[proofs'[p].job].status \in ClosedStatus
  BY DEF ProofClosesJob, Recorded
<1>1. CASE proofs'[p] = proofs[p]
  BY <1>1, ClosedStep DEF ProofClosesJob, Recorded, Links, RowsLinked
<1>2. CASE proofs'[p] # proofs[p]
  BY <1>2, ProofsStep, ProofCommit
<1> QED BY <1>1, <1>2

\* A claim once 'submitted' stays so: the sweep only touches active ones.
LEMMA SubmittedStep ==
  ASSUME TypeOK, Links, [Next]_vars,
         NEW c \in ClaimIds, claims[c].status = "submitted"
  PROVE  claims'[c].status = "submitted"
<1> USE DEF TypeOK
<1>1. CASE claims' = claims
  BY <1>1
<1>2. ASSUME NEW d \in ClaimIds, LeaseLapses(d) PROVE claims'[c].status = "submitted"
  BY <1>2 DEF LeaseLapses, ClaimRow
<1>3. ASSUME NEW r \in Requests, ExpireClaims(r) PROVE claims'[c].status = "submitted"
  BY <1>3 DEF ExpireClaims, SweepHitsClaim, Active
<1>4. ASSUME NEW r \in Requests, CommitClaim(r) PROVE claims'[c].status = "submitted"
  BY <1>4 DEF CommitClaim, NoClaim
<1>5. ASSUME NEW r \in Requests, CommitProof(r) PROVE claims'[c].status = "submitted"
  BY <1>5, ProofCommit
<1> QED
  BY <1>1, <1>2, <1>3, <1>4, <1>5
  DEF Next, Sweep, Handle, CreateJob, FundJob, PayAccess, SelectExpired, ReopenJobs,
      Finish, ReadForClaim, RefuseClaim, ReadJobForProof, ReadClaim, ReadFingerprint,
      RefuseProof, RecordReputation, Fail, vars

\* No step takes a recorded proof away from the claim it rests on.
LEMMA ProofRestsOnItsClaimStep ==
  ASSUME TypeOK, Links, ProofRestsOnItsClaim, [Next]_vars
  PROVE  ProofRestsOnItsClaim'
<1> SUFFICES ASSUME NEW p \in ProofIds, proofs'[p] # NoProof
             PROVE  /\ claims'[proofs'[p].claim].status = "submitted"
                    /\ claims'[proofs'[p].claim].job = proofs'[p].job
                    /\ claims'[proofs'[p].claim].agent = proofs'[p].agent
  BY DEF ProofRestsOnItsClaim, Recorded
<1>1. CASE proofs'[p] = proofs[p]
  <2>1. /\ proofs[p].claim \in ClaimIds
        /\ claims[proofs[p].claim].status = "submitted"
        /\ claims[proofs[p].claim].job = proofs[p].job
        /\ claims[proofs[p].claim].agent = proofs[p].agent
    BY <1>1 DEF ProofRestsOnItsClaim, Recorded, Links, RowsLinked
  <2> QED BY <1>1, <2>1, SubmittedStep, ClaimsPersist
<1>2. CASE proofs'[p] # proofs[p]
  <2>1. PICK r \in Requests : CommitProof(r)
    BY <1>2, ProofsStep
  <2>2. p = req[r].proof
    BY <1>2, <2>1, ProofCommit
  <2>3. claims[req[r].claim].status # "absent"
    BY <2>1 DEF CommitProof, Links, SlotsFilled, Filled
  <2> QED BY <2>1, <2>2, <2>3, ProofCommit, ClaimsPersist
<1> QED BY <1>1, <1>2

\* A job that becomes 'claimed', or changes hands, does so in CommitClaim.
LEMMA ClaimedStep ==
  ASSUME TypeOK, Links, [Next]_vars,
         NEW j \in Jobs, jobs'[j].status = "claimed"
  PROVE  \/ jobs[j].status = "claimed" /\ jobs'[j].claimedBy = jobs[j].claimedBy
         \/ \E r \in Requests : CommitClaim(r) /\ req[r].job = j
<1> USE DEF TypeOK
<1> DEFINE Same == jobs[j].status = "claimed" /\ jobs'[j].claimedBy = jobs[j].claimedBy
<1>1. CASE jobs' = jobs
  BY <1>1
<1>2. ASSUME NEW i \in Jobs, CreateJob(i) PROVE Same
  <2>1. PICK f \in {"reserved", "awaiting_wallet_funding"}, s \in {"open", "draft"} :
          jobs' = [jobs EXCEPT ![i] = [NoJob EXCEPT !.status = s, !.funding = f]]
    BY <1>2 DEF CreateJob
  <2> QED BY <2>1 DEF NoJob
<1>3. ASSUME NEW i \in Jobs, FundJob(i) PROVE Same
  BY <1>3 DEF FundJob, JobRow
<1>4. ASSUME NEW r \in Requests, ReopenJobs(r) PROVE Same
  BY <1>4 DEF ReopenJobs, JobRow
<1>5. ASSUME NEW r \in Requests, CommitClaim(r), req[r].job # j PROVE Same
  BY <1>5 DEF CommitClaim
<1>6. ASSUME NEW r \in Requests, CommitProof(r) PROVE Same
  BY <1>6, ProofCommit DEF ClosedStatus
<1> QED
  BY <1>1, <1>2, <1>3, <1>4, <1>5, <1>6
  DEF Next, Sweep, Handle, PayAccess, LeaseLapses, SelectExpired, ExpireClaims, Finish,
      ReadForClaim, RefuseClaim, ReadJobForProof, ReadClaim, ReadFingerprint,
      RefuseProof, RecordReputation, Fail, vars

\* A claim that is active or expired stays so until the proof that rests on it.
LEMMA HeldStep ==
  ASSUME TypeOK, Links, [Next]_vars,
         NEW c \in ClaimIds, claims[c].status \in {"active", "expired"}
  PROVE  \/ claims'[c].status \in {"active", "expired"}
         \/ \E r \in Requests : CommitProof(r) /\ req[r].claim = c
<1> USE DEF TypeOK
<1>1. CASE claims' = claims
  BY <1>1
<1>2. ASSUME NEW d \in ClaimIds, LeaseLapses(d)
      PROVE  claims'[c].status \in {"active", "expired"}
  BY <1>2 DEF LeaseLapses, ClaimRow
<1>3. ASSUME NEW r \in Requests, ExpireClaims(r)
      PROVE  claims'[c].status \in {"active", "expired"}
  BY <1>3 DEF ExpireClaims, ClaimRow
<1>4. ASSUME NEW r \in Requests, CommitClaim(r)
      PROVE  claims'[c].status \in {"active", "expired"}
  BY <1>4 DEF CommitClaim, NoClaim
<1>5. ASSUME NEW r \in Requests, CommitProof(r), req[r].claim # c
      PROVE  claims'[c].status \in {"active", "expired"}
  BY <1>5, ProofCommit
<1> QED
  BY <1>1, <1>2, <1>3, <1>4, <1>5
  DEF Next, Sweep, Handle, CreateJob, FundJob, PayAccess, SelectExpired, ReopenJobs,
      Finish, ReadForClaim, RefuseClaim, ReadJobForProof, ReadClaim, ReadFingerprint,
      RefuseProof, RecordReputation, Fail, vars

\* A job that reads 'claimed' after a step has a claim of its holder behind it.
LEMMA HolderHasClaimStep ==
  ASSUME TypeOK, Links, HolderHasClaim, [Next]_vars
  PROVE  HolderHasClaim'
<1> SUFFICES ASSUME NEW j \in Jobs, jobs'[j].status = "claimed"
             PROVE  \E c \in ClaimIds :
                      /\ claims'[c].job = j /\ claims'[c].agent = jobs'[j].claimedBy
                      /\ claims'[c].status \in {"active", "expired"}
  BY DEF HolderHasClaim
<1>1. CASE jobs[j].status = "claimed" /\ jobs'[j].claimedBy = jobs[j].claimedBy
  <2>1. PICK c \in ClaimIds : /\ claims[c].job = j /\ claims[c].agent = jobs[j].claimedBy
                              /\ claims[c].status \in {"active", "expired"}
    BY <1>1 DEF HolderHasClaim
  <2>2. claims'[c].job = j /\ claims'[c].agent = jobs[j].claimedBy
    BY <2>1, ClaimsPersist
  <2>3. claims'[c].status \in {"active", "expired"}
    <3>1. ASSUME NEW r \in Requests, CommitProof(r), req[r].claim = c PROVE FALSE
      BY <2>1, <3>1, ProofCommit DEF ClosedStatus
    <3> QED BY <2>1, <3>1, HeldStep
  <2> QED BY <1>1, <2>2, <2>3
<1>2. ASSUME NEW r \in Requests, CommitClaim(r), req[r].job = j
      PROVE  \E c \in ClaimIds :
               /\ claims'[c].job = j /\ claims'[c].agent = jobs'[j].claimedBy
               /\ claims'[c].status \in {"active", "expired"}
  <2>1. PICK c \in ClaimIds :
          /\ claims[c] = NoClaim
          /\ claims' = [claims EXCEPT ![c] = [status |-> "active", job |-> req[r].job,
                                              agent |-> req[r].agent, lapsed |-> FALSE]]
    BY <1>2 DEF CommitClaim
  <2>2. jobs'[j].claimedBy = req[r].agent
    BY <1>2 DEF CommitClaim, TypeOK, JobRow
  <2>3. /\ claims'[c].job = j /\ claims'[c].agent = req[r].agent
        /\ claims'[c].status = "active"
    BY <1>2, <2>1 DEF TypeOK
  <2> QED BY <2>2, <2>3
<1> QED BY <1>1, <1>2, ClaimedStep

-----------------------------------------------------------------------------
(* The theorems.                                                           *)

\* The inductive invariant holds of the empty ledger.
LEMMA IInvInit == Init => IInv
<1> SUFFICES ASSUME Init PROVE IInv
  OBVIOUS
<1>1. TypeOK
  BY TypeInit
<1>2. Recorded = {}
  BY DEF Init, Recorded
<1>3. Links
  BY <1>2 DEF Init, Links, RowsLinked, SlotsFilled, Filled, NoClaim, Idle
<1>4. ClosedIsFunded /\ HolderHasClaim
  BY DEF Init, ClosedIsFunded, HolderHasClaim, NoJob, ClosedStatus
<1> QED BY <1>1, <1>2, <1>3, <1>4 DEF IInv, ProofClosesJob, ProofRestsOnItsClaim

\* The inductive invariant is preserved by every step.
LEMMA IInvStep == IInv /\ [Next]_vars => IInv'
  BY TypeStep, LinksStep, ClosedIsFundedStep, ProofClosesJobStep,
     ProofRestsOnItsClaimStep, HolderHasClaimStep DEF IInv

\* However the requests interleave and wherever they are cut short, IInv holds.
THEOREM Invariance == Spec => []IInv
  BY IInvInit, IInvStep, PTL DEF Spec

\* Every column and every slot keeps the domain of its values.
THEOREM TypeCorrect == Spec => []TypeOK
<1>1. IInv => TypeOK
  BY DEF IInv
<1> QED BY <1>1, Invariance, PTL

\* A job with a recorded proof is never offered to an agent again.
THEOREM ProofsCloseJobs == Spec => []ProofClosesJob
<1>1. IInv => ProofClosesJob
  BY DEF IInv
<1> QED BY <1>1, Invariance, PTL

\* Every recorded proof rests on a submitted claim of its own agent and job.
THEOREM ProofsRestOnClaims == Spec => []ProofRestsOnItsClaim
<1>1. IInv => ProofRestsOnItsClaim
  BY DEF IInv
<1> QED BY <1>1, Invariance, PTL

\* The agent a claimed job names did claim it, and has not submitted on it yet.
THEOREM HoldersHaveClaims == Spec => []HolderHasClaim
<1>1. IInv => HolderHasClaim
  BY DEF IInv
<1> QED BY <1>1, Invariance, PTL

-----------------------------------------------------------------------------
(* One handler at a time: the local SQLite deployment.  A handler may still *)
(* be cut short, leases lapse and deposits arrive while it runs.            *)

OneAtATime == \A r, s \in Requests : r = s

\* No two active claims share a job, with or without the unique index.
OneActiveClaimPerJob == \A j \in Jobs : \A c, d \in ActiveOn(j) : c = d

\* A job that waits for its deposit is in nobody's hands yet.
AwaitingIsUnclaimed ==
  \A j \in Jobs : jobs[j].funding = "awaiting_wallet_funding" =>
                    jobs[j].status \in {"draft", "open"}

\* What a handler has read is still so when it acts on it.
UpToDate(q) ==
  /\ q.pc = "reopening" => \A j \in q.stale : ActiveOn(j) = {}
  /\ q.pc = "claiming" => /\ Claimable(q.job)
                          /\ Cardinality(HeldBy(q.agent)) < MaxActiveLeases
  /\ q.pc \in {"read_fingerprint", "submitting"} => Active(q.claim)
  /\ q.pc = "submitting" => q.verdict = Verdict(q.job, q.payload)

HandlerUpToDate == \A r \in Requests : UpToDate(req[r])

HeldIsFinite == \A a \in Agents : IsFiniteSet(HeldBy(a))

SerialInv ==
  /\ IInv
  /\ AwaitingIsUnclaimed /\ ActiveClaimHoldsJob /\ OneActiveClaimPerJob
  /\ JobAgreesWithItsProof /\ ReusedPayloadRejected
  /\ HeldIsFinite /\ LeaseLimit
  /\ HandlerUpToDate

-----------------------------------------------------------------------------
(* What each statement does to the active claims.                          *)

\* The active claims are the same ones, of the same agents on the same jobs.
SameLeases == \A c \in ClaimIds : /\ claims'[c].status = claims[c].status
                                  /\ claims'[c].job = claims[c].job
                                  /\ claims'[c].agent = claims[c].agent

\* Only three statements start or end a lease.
LEMMA LeaseMoves ==
  ASSUME TypeOK, [Next]_vars
  PROVE  SameLeases \/ \E r \in Requests : ExpireClaims(r) \/ CommitClaim(r) \/ CommitProof(r)
<1>1. CASE claims' = claims
  BY <1>1 DEF SameLeases
<1>2. ASSUME NEW c \in ClaimIds, LeaseLapses(c) PROVE SameLeases
  BY <1>2 DEF LeaseLapses, SameLeases, TypeOK, ClaimRow
<1> QED
  BY <1>1, <1>2
  DEF Next, Sweep, Handle, CreateJob, FundJob, PayAccess, SelectExpired, ReopenJobs,
      Finish, ReadForClaim, RefuseClaim, ReadJobForProof, ReadClaim, ReadFingerprint,
      RefuseProof, RecordReputation, Fail, vars

\* Sets of active claims depend on nothing else.
LEMMA SameLeasesKeep ==
  ASSUME SameLeases
  PROVE  /\ \A c \in ClaimIds : Active(c)' <=> Active(c)
         /\ \A j : ActiveOn(j)' = ActiveOn(j)
         /\ \A a : HeldBy(a)' = HeldBy(a)
<1>1. ASSUME NEW j PROVE ActiveOn(j)' = ActiveOn(j)
  BY DEF SameLeases, ActiveOn, Active
<1>2. ASSUME NEW a PROVE HeldBy(a)' = HeldBy(a)
  BY DEF SameLeases, HeldBy, Active
<1> QED BY <1>1, <1>2 DEF SameLeases, Active

\* The sweep ends the leases on the jobs it found, and no other.
LEMMA SweepLeases ==
  ASSUME TypeOK, NEW r \in Requests, ExpireClaims(r)
  PROVE  /\ \A c \in ClaimIds : /\ Active(c)' <=> Active(c) /\ claims[c].job \notin req[r].stale
                                /\ claims'[c].job = claims[c].job
                                /\ claims'[c].agent = claims[c].agent
         /\ \A j \in Jobs : ActiveOn(j)' = IF j \in req[r].stale THEN {} ELSE ActiveOn(j)
         /\ \A a : HeldBy(a)' \subseteq HeldBy(a)
<1>1. ASSUME NEW c \in ClaimIds
      PROVE  /\ Active(c)' <=> Active(c) /\ claims[c].job \notin req[r].stale
             /\ claims'[c].job = claims[c].job
             /\ claims'[c].agent = claims[c].agent
  BY DEF ExpireClaims, SweepHitsClaim, Active, TypeOK, ClaimRow
<1>2. ASSUME NEW j \in Jobs
      PROVE  ActiveOn(j)' = IF j \in req[r].stale THEN {} ELSE ActiveOn(j)
  BY <1>1 DEF ActiveOn
<1>3. ASSUME NEW a PROVE HeldBy(a)' \subseteq HeldBy(a)
  BY <1>1 DEF HeldBy
<1> QED BY <1>1, <1>2, <1>3

\* A claim starts one lease, of its agent on its job.
LEMMA ClaimTakes ==
  ASSUME TypeOK, Links, NEW r \in Requests, CommitClaim(r)
  PROVE  /\ req[r].job \in Jobs /\ req[r].agent \in Agents /\ req[r].pc = "claiming"
         /\ jobs[req[r].job].status = "open"
         /\ jobs'[req[r].job].status = "claimed" /\ jobs'[req[r].job].claimedBy = req[r].agent
         /\ jobs'[req[r].job].funding = jobs[req[r].job].funding
         /\ \A j \in Jobs : j # req[r].job => jobs'[j] = jobs[j]
<1>1. req[r].job \in Jobs /\ req[r].agent \in Agents /\ req[r].pc = "claiming"
  BY DEF CommitClaim, Links, SlotsFilled, Filled
<1> QED BY <1>1 DEF CommitClaim, ClaimCommits, TypeOK, JobRow

\* It is a lease of its agent on its job, and the only change.
LEMMA ClaimLeases ==
  ASSUME TypeOK, Links, NEW r \in Requests, CommitClaim(r)
  PROVE  \E c \in ClaimIds :
           /\ claims[c] = NoClaim
           /\ claims'[c].job = req[r].job /\ claims'[c].agent = req[r].agent
           /\ \A d \in ClaimIds : d # c => claims'[d] = claims[d]
           /\ \A j : ActiveOn(j)' = IF j = req[r].job THEN ActiveOn(j) \cup {c} ELSE ActiveOn(j)
           /\ \A a : /\ c \notin HeldBy(a)
                    /\ HeldBy(a)' = IF a = req[r].agent THEN HeldBy(a) \cup {c} ELSE HeldBy(a)
<1>1. PICK c \in ClaimIds :
        /\ claims[c] = NoClaim
        /\ claims' = [claims EXCEPT ![c] = [status |-> "active", job |-> req[r].job,
                                            agent |-> req[r].agent, lapsed |-> FALSE]]
  BY DEF CommitClaim
<1>2. /\ claims'[c].status = "active"
      /\ claims'[c].job = req[r].job /\ claims'[c].agent = req[r].agent
      /\ \A d \in ClaimIds : d # c => claims'[d] = claims[d]
  BY <1>1 DEF TypeOK
<1>3. claims[c].status # "active"
  BY <1>1 DEF NoClaim
<1>4. ASSUME NEW j
      PROVE  ActiveOn(j)' = IF j = req[r].job THEN ActiveOn(j) \cup {c} ELSE ActiveOn(j)
  BY <1>2, <1>3 DEF ActiveOn, Active
<1>5. ASSUME NEW a
      PROVE  /\ c \notin HeldBy(a)
             /\ HeldBy(a)' = IF a = req[r].agent THEN HeldBy(a) \cup {c} ELSE HeldBy(a)
  BY <1>2, <1>3 DEF HeldBy, Active
<1> WITNESS c \in ClaimIds
<1> QED BY <1>1, <1>2, <1>4, <1>5

\* A proof ends the lease of its claim.
LEMMA ProofLeases ==
  ASSUME TypeOK, Links, NEW r \in Requests, CommitProof(r)
  PROVE  /\ \A c \in ClaimIds : Active(c)' <=> Active(c) /\ c # req[r].claim
         /\ \A c \in ClaimIds : claims'[c].job = claims[c].job /\ claims'[c].agent = claims[c].agent
         /\ \A j : ActiveOn(j)' = ActiveOn(j) \ {req[r].claim}
         /\ \A a : HeldBy(a)' \subseteq HeldBy(a)
<1> PICK cl : cl = req[r].claim
  OBVIOUS
<1>1. /\ claims' = [claims EXCEPT ![cl].status = "submitted"]
      /\ cl \in ClaimIds
  BY ProofCommit DEF CommitProof, SubmittedClaims
<1>2. ASSUME NEW c \in ClaimIds
      PROVE  /\ Active(c)' <=> Active(c) /\ c # cl
             /\ claims'[c].job = claims[c].job /\ claims'[c].agent = claims[c].agent
  BY <1>1 DEF Active, TypeOK, ClaimRow
<1>3. ASSUME NEW j PROVE ActiveOn(j)' = ActiveOn(j) \ {cl}
  BY <1>2 DEF ActiveOn
<1>4. ASSUME NEW a PROVE HeldBy(a)' \subseteq HeldBy(a)
  BY <1>2 DEF HeldBy
<1> QED BY <1>2, <1>3, <1>4

-----------------------------------------------------------------------------
(* The parts of the serial invariant, one by one.                          *)

\* A deposit is awaited until FundJob opens the job, and by open jobs only.
LEMMA AwaitingStep ==
  ASSUME TypeOK, Links, AwaitingIsUnclaimed, HandlerUpToDate, [Next]_vars
  PROVE  AwaitingIsUnclaimed'
<1> USE DEF TypeOK, AwaitingIsUnclaimed
<1>1. CASE jobs' = jobs
  BY <1>1
<1>2. ASSUME NEW i \in Jobs, CreateJob(i) PROVE AwaitingIsUnclaimed'
  <2>1. PICK f \in {"reserved", "awaiting_wallet_funding"}, s \in {"open", "draft"} :
          jobs' = [jobs EXCEPT ![i] = [NoJob EXCEPT !.status = s, !.funding = f]]
    BY <1>2 DEF CreateJob
  <2>2. jobs'[i].status \in {"draft", "open"}
    BY <2>1 DEF NoJob
  <2>3. \A j \in Jobs : j # i => jobs'[j] = jobs[j]
    BY <2>1
  <2> QED BY <2>2, <2>3
<1>3. ASSUME NEW i \in Jobs, FundJob(i) PROVE AwaitingIsUnclaimed'
  <2>1. jobs'[i].status = "open" /\ \A j \in Jobs : j # i => jobs'[j] = jobs[j]
    BY <1>3 DEF FundJob, JobRow
  <2> QED BY <2>1
<1>4. ASSUME NEW r \in Requests, ReopenJobs(r) PROVE AwaitingIsUnclaimed'
  <2>1. \A j \in Jobs : \/ jobs'[j] = jobs[j]
                        \/ jobs'[j].status = "open"
    BY <1>4 DEF ReopenJobs, JobRow
  <2> QED BY <2>1
<1>5. ASSUME NEW r \in Requests, CommitClaim(r) PROVE AwaitingIsUnclaimed'
  <2>1. jobs[req[r].job].funding = "reserved"
    BY <1>5, ClaimTakes DEF HandlerUpToDate, UpToDate, Claimable
  <2> QED BY <1>5, <2>1, ClaimTakes
<1>6. ASSUME NEW r \in Requests, CommitProof(r) PROVE AwaitingIsUnclaimed'
  BY <1>6, ProofCommit
<1> QED
  BY <1>1, <1>2, <1>3, <1>4, <1>5, <1>6
  DEF Next, Sweep, Handle, PayAccess, LeaseLapses, SelectExpired, ExpireClaims, Finish,
      ReadForClaim, RefuseClaim, ReadJobForProof, ReadClaim, ReadFingerprint,
      RefuseProof, RecordReputation, Fail, vars

\* A lease starts with its job claimed; the sweep ends it before it reopens the job,
\* and a proof ends the only one there is.
LEMMA LeaseHoldsStep ==
  ASSUME TypeOK, Links, AwaitingIsUnclaimed, HandlerUpToDate, OneActiveClaimPerJob,
         ActiveClaimHoldsJob, [Next]_vars
  PROVE  ActiveClaimHoldsJob'
<1> SUFFICES ASSUME NEW c \in ClaimIds, Active(c)'
             PROVE  /\ jobs'[claims'[c].job].status = "claimed"
                    /\ jobs'[claims'[c].job].claimedBy = claims'[c].agent
  BY DEF ActiveClaimHoldsJob
<1> DEFINE Holds == /\ jobs'[claims'[c].job].status = "claimed"
                    /\ jobs'[claims'[c].job].claimedBy = claims'[c].agent
<1> SUFFICES Holds
  OBVIOUS
<1>0. ASSUME Active(c)
      PROVE  /\ claims[c].job \in Jobs
             /\ jobs[claims[c].job].status = "claimed"
             /\ jobs[claims[c].job].claimedBy = claims[c].agent
  BY <1>0 DEF ActiveClaimHoldsJob, Active, Links, RowsLinked
<1>1. ASSUME SameLeases, jobs' = jobs PROVE Holds
  BY <1>0, <1>1, SameLeasesKeep DEF SameLeases
<1>2. ASSUME NEW i \in Jobs, CreateJob(i) PROVE Holds
  <2>1. claims' = claims /\ jobs[i].status = "absent" /\ \A j \in Jobs : j # i => jobs'[j] = jobs[j]
    BY <1>2 DEF CreateJob, NoJob, TypeOK
  <2> QED BY <1>0, <2>1 DEF Active
<1>3. ASSUME NEW i \in Jobs, FundJob(i) PROVE Holds
  <2>1. /\ claims' = claims /\ jobs[i].status \in {"draft", "open"}
        /\ \A j \in Jobs : j # i => jobs'[j] = jobs[j]
    BY <1>3 DEF FundJob, AwaitingIsUnclaimed, TypeOK
  <2> QED BY <1>0, <2>1 DEF Active
<1>4. ASSUME NEW r \in Requests, ReopenJobs(r) PROVE Holds
  <2>1. claims' = claims /\ Active(c)
    BY <1>4 DEF ReopenJobs, Active
  <2>2. \A j \in req[r].stale : ActiveOn(j) = {}
    BY <1>4 DEF ReopenJobs, HandlerUpToDate, UpToDate
  <2>3. claims[c].job \notin req[r].stale
    BY <2>1, <2>2 DEF ActiveOn
  <2>4. \A j \in Jobs : j \notin req[r].stale => jobs'[j] = jobs[j]
    BY <1>4 DEF ReopenJobs, SweepHitsJob
  <2> QED BY <1>0, <2>1, <2>3, <2>4
<1>5. ASSUME NEW r \in Requests, ExpireClaims(r) PROVE Holds
  <2>1. Active(c) /\ claims'[c].job = claims[c].job /\ claims'[c].agent = claims[c].agent
    BY <1>5, SweepLeases
  <2> QED BY <1>0, <1>5, <2>1 DEF ExpireClaims
<1>6. ASSUME NEW r \in Requests, CommitClaim(r) PROVE Holds
  <2>1. PICK d \in ClaimIds :
          /\ claims'[d].job = req[r].job /\ claims'[d].agent = req[r].agent
          /\ \A e \in ClaimIds : e # d => claims'[e] = claims[e]
    BY <1>6, ClaimLeases
  <2>2. CASE c = d
    BY <1>6, <2>1, <2>2, ClaimTakes
  <2>3. CASE c # d
    <3>1. Active(c) /\ claims'[c] = claims[c]
      BY <2>1, <2>3 DEF Active
    <3>2. claims[c].job # req[r].job
      BY <1>0, <1>6, <3>1, ClaimTakes
    <3> QED BY <1>0, <1>6, <3>1, <3>2, ClaimTakes
  <2> QED BY <2>2, <2>3
<1>7. ASSUME NEW r \in Requests, CommitProof(r) PROVE Holds
  <2>1. Active(c) /\ c # req[r].claim
    BY <1>7, ProofLeases
  <2>2. claims'[c].job = claims[c].job /\ claims'[c].agent = claims[c].agent
    BY <1>7, ProofLeases
  <2>3. Active(req[r].claim)
    BY <1>7 DEF CommitProof, HandlerUpToDate, UpToDate
  <2>4. req[r].claim \in ClaimIds /\ claims[req[r].claim].job = req[r].job
    BY <1>7, ProofCommit
  <2>5. claims[c].job # req[r].job
    BY <1>0, <2>1, <2>3, <2>4 DEF OneActiveClaimPerJob, ActiveOn
  <2>6. \A j \in Jobs : j # req[r].job => jobs'[j] = jobs[j]
    BY <1>7, ProofCommit
  <2> QED BY <1>0, <2>1, <2>2, <2>5, <2>6
<1>8. CASE jobs' = jobs
  <2>1. \/ SameLeases
        \/ \E r \in Requests : ExpireClaims(r) \/ CommitClaim(r) \/ CommitProof(r)
    BY LeaseMoves
  <2> QED BY <1>1, <1>5, <1>6, <1>7, <1>8, <2>1
<1> QED
  BY <1>2, <1>3, <1>4, <1>5, <1>6, <1>7, <1>8
  DEF Next, Sweep, Handle, PayAccess, LeaseLapses, SelectExpired, ExpireClaims, Finish,
      ReadForClaim, RefuseClaim, ReadJobForProof, ReadClaim, ReadFingerprint,
      RefuseProof, RecordReputation, Fail, vars

\* A claim is taken on an open job, which has no lease.
LEMMA OneLeaseStep ==
  ASSUME TypeOK, Links, ActiveClaimHoldsJob, OneActiveClaimPerJob, [Next]_vars
  PROVE  OneActiveClaimPerJob'
<1> SUFFICES ASSUME NEW j \in Jobs PROVE \A c, d \in ActiveOn(j)' : c = d
  BY DEF OneActiveClaimPerJob
<1>0. \A c, d \in ActiveOn(j) : c = d
  BY DEF OneActiveClaimPerJob
<1>1. CASE SameLeases
  BY <1>0, <1>1, SameLeasesKeep
<1>2. ASSUME NEW r \in Requests, ExpireClaims(r) PROVE \A c, d \in ActiveOn(j)' : c = d
  BY <1>0, <1>2, SweepLeases
<1>3. ASSUME NEW r \in Requests, CommitClaim(r) PROVE \A c, d \in ActiveOn(j)' : c = d
  <2>1. ActiveOn(req[r].job) = {}
    BY <1>3, ClaimTakes DEF ActiveOn, ActiveClaimHoldsJob
  <2>2. PICK c : ActiveOn(j)' = IF j = req[r].job THEN ActiveOn(j) \cup {c} ELSE ActiveOn(j)
    BY <1>3, ClaimLeases
  <2> QED BY <1>0, <2>1, <2>2
<1>4. ASSUME NEW r \in Requests, CommitProof(r) PROVE \A c, d \in ActiveOn(j)' : c = d
  BY <1>0, <1>4, ProofLeases
<1> QED BY <1>1, <1>2, <1>3, <1>4, LeaseMoves

\* What a proof leaves of its job: closed, and payable if and only if it was verified.
LEMMA ProofVerdict ==
  ASSUME TypeOK, Links, NEW r \in Requests, CommitProof(r)
  PROVE  /\ req[r].proof \in ProofIds /\ proofs[req[r].proof] = NoProof
         /\ req[r].pc = "submitting"
         /\ proofs'[req[r].proof].verdict = req[r].verdict
         /\ proofs'[req[r].proof].payload = req[r].payload
         /\ proofs'[req[r].proof] # NoProof
         /\ jobs'[req[r].job].funding = "payable" <=> req[r].verdict = "verified"
<1>1. /\ req[r].job \in Jobs /\ req[r].proof \in ProofIds /\ req[r].pc = "submitting"
      /\ proofs[req[r].proof] = NoProof
  BY DEF CommitProof, Recorded, Links, SlotsFilled, Filled
<1>2. proofs'[req[r].proof] = [job |-> req[r].job, agent |-> req[r].agent,
        payload |-> req[r].payload, claim |-> req[r].claim, verdict |-> req[r].verdict]
  BY <1>1 DEF CommitProof, TypeOK
<1>3. proofs'[req[r].proof] # NoProof
  BY <1>1, <1>2, NoneIsNoRow DEF NoProof
<1>4. jobs'[req[r].job].funding = FundingAfter(req[r].verdict)
  BY <1>1 DEF CommitProof, TypeOK, JobRow
<1>5. FundingAfter(req[r].verdict) = "payable" <=> req[r].verdict = "verified"
  BY DEF FundingAfter
<1> QED BY <1>1, <1>2, <1>3, <1>4, <1>5

\* Funding columns change to 'payable' with a verified proof, on a job without one.
LEMMA JobAgreesStep ==
  ASSUME IInv, AwaitingIsUnclaimed, ActiveClaimHoldsJob, HandlerUpToDate,
         JobAgreesWithItsProof, [Next]_vars
  PROVE  JobAgreesWithItsProof'
<1> USE DEF IInv, TypeOK
<1> DEFINE Agrees(j) ==
      /\ \A p, q \in Recorded : proofs[p].job = j /\ proofs[q].job = j => p = q
      /\ jobs[j].funding = "payable" <=>
           \E p \in Recorded : proofs[p].job = j /\ proofs[p].verdict = "verified"
<1>a. JobAgreesWithItsProof <=> \A j \in Jobs : Agrees(j)
  BY DEF JobAgreesWithItsProof
<1>b. JobAgreesWithItsProof' <=> \A j \in Jobs : Agrees(j)'
  BY DEF JobAgreesWithItsProof
<1> SUFFICES ASSUME NEW j \in Jobs PROVE Agrees(j)'
  BY <1>b
<1>0. Agrees(j)
  BY <1>a
<1>1. ASSUME proofs' = proofs, jobs'[j].funding = jobs[j].funding PROVE Agrees(j)'
  BY <1>0, <1>1 DEF Recorded
<1>2. ASSUME proofs' = proofs, jobs[j].status \notin ClosedStatus,
             jobs'[j].funding # "payable"
      PROVE  Agrees(j)'
  <2>1. \A p \in Recorded : proofs[p].job # j
    BY <1>2 DEF ProofClosesJob
  <2> QED BY <1>2, <2>1 DEF Recorded
<1>3. ASSUME NEW i \in Jobs, CreateJob(i) PROVE Agrees(j)'
  <2>1. CASE i # j
    BY <1>1, <1>3, <2>1 DEF CreateJob
  <2>2. CASE i = j
    <3>1. jobs[j].status = "absent" /\ jobs'[j].funding # "payable"
      BY <1>3, <2>2 DEF CreateJob, NoJob
    <3> QED BY <1>2, <1>3, <3>1 DEF CreateJob, ClosedStatus
  <2> QED BY <2>1, <2>2
<1>4. ASSUME NEW i \in Jobs, FundJob(i) PROVE Agrees(j)'
  <2>1. CASE i # j
    BY <1>1, <1>4, <2>1 DEF FundJob
  <2>2. CASE i = j
    <3>1. jobs[j].status \in {"draft", "open"} /\ jobs'[j].funding # "payable"
      BY <1>4, <2>2 DEF FundJob, AwaitingIsUnclaimed, JobRow
    <3> QED BY <1>2, <1>4, <3>1 DEF FundJob, ClosedStatus
  <2> QED BY <2>1, <2>2
<1>5. ASSUME NEW r \in Requests, ReopenJobs(r) PROVE Agrees(j)'
  <2>1. jobs'[j].funding = jobs[j].funding
    BY <1>5 DEF ReopenJobs, JobRow
  <2> QED BY <1>1, <1>5, <2>1 DEF ReopenJobs
<1>6. ASSUME NEW r \in Requests, CommitClaim(r) PROVE Agrees(j)'
  <2>1. jobs'[j].funding = jobs[j].funding
    BY <1>6, ClaimTakes
  <2> QED BY <1>1, <1>6, <2>1 DEF CommitClaim
<1>7. ASSUME NEW r \in Requests, CommitProof(r) PROVE Agrees(j)'
  <2>1. /\ \A p \in ProofIds : p # req[r].proof => proofs'[p] = proofs[p]
        /\ proofs'[req[r].proof].job = req[r].job
        /\ req[r].claim \in ClaimIds /\ claims[req[r].claim].job = req[r].job
    BY <1>7, ProofCommit
  <2>2. /\ req[r].proof \in ProofIds /\ proofs[req[r].proof] = NoProof
        /\ proofs'[req[r].proof] # NoProof
        /\ proofs'[req[r].proof].verdict = req[r].verdict
    BY <1>7, ProofVerdict
  <2>3. CASE j # req[r].job
    <3>1. jobs'[j] = jobs[j]
      BY <1>7, <2>3, ProofCommit
    <3> QED BY <1>0, <2>1, <2>2, <2>3, <3>1 DEF Recorded
  <2>4. CASE j = req[r].job
    <3>1. jobs[j].status = "claimed"
      BY <1>7, <2>1, <2>4, ProofVerdict DEF HandlerUpToDate, UpToDate, ActiveClaimHoldsJob
    <3>2. \A p \in Recorded : proofs[p].job # j
      BY <3>1 DEF ProofClosesJob, ClosedStatus
    <3>3. \A p \in Recorded' : p = req[r].proof \/ proofs'[p].job # j
      BY <2>1, <3>2 DEF Recorded
    <3>4. req[r].proof \in Recorded' /\ proofs'[req[r].proof].job = j
      BY <2>1, <2>2, <2>4 DEF Recorded
    <3>5. jobs'[j].funding = "payable" <=> proofs'[req[r].proof].verdict = "verified"
      BY <1>7, <2>2, <2>4, ProofVerdict
    <3> QED BY <3>3, <3>4, <3>5
  <2> QED BY <2>3, <2>4
<1>8. ASSUME jobs' = jobs, proofs' = proofs PROVE Agrees(j)'
  BY <1>1, <1>8
<1> QED
  BY <1>3, <1>4, <1>5, <1>6, <1>7, <1>8
  DEF Next, Sweep, Handle, PayAccess, LeaseLapses, SelectExpired, ExpireClaims, Finish,
      ReadForClaim, RefuseClaim, ReadJobForProof, ReadClaim, ReadFingerprint,
      RefuseProof, RecordReputation, Fail, vars

\* The look-up of a fingerprint is still right when the proof is recorded.
LEMMA ReusedStep ==
  ASSUME TypeOK, Links, HandlerUpToDate, ReusedPayloadRejected, [Next]_vars
  PROVE  ReusedPayloadRejected'
<1>1. CASE proofs' = proofs
  BY <1>1 DEF ReusedPayloadRejected, Recorded
<1>2. ASSUME NEW r \in Requests, CommitProof(r) PROVE ReusedPayloadRejected'
  <2>1. /\ req[r].proof \in ProofIds /\ proofs[req[r].proof] = NoProof
        /\ proofs'[req[r].proof].payload = req[r].payload
        /\ proofs'[req[r].proof].verdict = req[r].verdict
        /\ req[r].pc = "submitting"
    BY <1>2, ProofVerdict
  <2>2. \A p \in ProofIds : p # req[r].proof => proofs'[p] = proofs[p]
    BY <1>2, ProofCommit
  <2>3. req[r].verdict = Verdict(req[r].job, req[r].payload)
    BY <2>1 DEF HandlerUpToDate, UpToDate
  <2>4. req[r].verdict # "duplicate" => \A p \in Recorded : proofs[p].payload # req[r].payload
    BY <2>3 DEF Verdict, SeenBefore
  <2>5. \A p \in Recorded' : p # req[r].proof => p \in Recorded /\ proofs'[p] = proofs[p]
    BY <2>2 DEF Recorded
  <2> QED BY <2>1, <2>4, <2>5 DEF ReusedPayloadRejected
<1> QED
  BY <1>1, <1>2
  DEF Next, Sweep, Handle, CreateJob, FundJob, PayAccess, LeaseLapses, SelectExpired,
      ExpireClaims, ReopenJobs, Finish, ReadForClaim, CommitClaim, RefuseClaim,
      ReadJobForProof, ReadClaim, ReadFingerprint, RefuseProof, RecordReputation, Fail, vars

\* The count of leases that a claim read has not changed when it commits.
LEMMA LeaseLimitStep ==
  ASSUME TypeOK, Links, HandlerUpToDate, HeldIsFinite, LeaseLimit, [Next]_vars,
         NEW a \in Agents
  PROVE  IsFiniteSet(HeldBy(a)') /\ Cardinality(HeldBy(a)') <= MaxActiveLeases
<1> DEFINE Fine(S) == IsFiniteSet(S) /\ Cardinality(S) <= MaxActiveLeases
<1> SUFFICES Fine(HeldBy(a)')
  OBVIOUS
<1>0. Fine(HeldBy(a)) /\ MaxActiveLeases \in Nat
  BY LedgerAssumption DEF HeldIsFinite, LeaseLimit
<1>1. ASSUME NEW S, S \subseteq HeldBy(a) PROVE Fine(S)
  <2>1. /\ IsFiniteSet(S) /\ Cardinality(S) <= Cardinality(HeldBy(a))
        /\ Cardinality(S) \in Nat /\ Cardinality(HeldBy(a)) \in Nat
    BY <1>0, <1>1, FS_Subset, FS_CardinalityType
  <2> QED BY <1>0, <2>1
<1>2. CASE SameLeases
  BY <1>1, <1>2, SameLeasesKeep
<1>3. ASSUME NEW r \in Requests, ExpireClaims(r) PROVE Fine(HeldBy(a)')
  <2>1. HeldBy(a)' \subseteq HeldBy(a)
    BY <1>3, SweepLeases
  <2> QED BY <1>1, <2>1
<1>4. ASSUME NEW r \in Requests, CommitProof(r) PROVE Fine(HeldBy(a)')
  <2>1. HeldBy(a)' \subseteq HeldBy(a)
    BY <1>4, ProofLeases
  <2> QED BY <1>1, <2>1
<1>5. ASSUME NEW r \in Requests, CommitClaim(r) PROVE Fine(HeldBy(a)')
  <2>1. PICK c \in ClaimIds :
          /\ c \notin HeldBy(a)
          /\ HeldBy(a)' = IF a = req[r].agent THEN HeldBy(a) \cup {c} ELSE HeldBy(a)
    BY <1>5, ClaimLeases
  <2>2. CASE a # req[r].agent
    BY <1>0, <2>1, <2>2
  <2>3. CASE a = req[r].agent
    <3>1. Cardinality(HeldBy(a)) < MaxActiveLeases
      BY <1>5, <2>3, ClaimTakes DEF HandlerUpToDate, UpToDate
    <3>2. /\ IsFiniteSet(HeldBy(a) \cup {c}) /\ Cardinality(HeldBy(a)) \in Nat
          /\ Cardinality(HeldBy(a) \cup {c}) = Cardinality(HeldBy(a)) + 1
      BY <1>0, <2>1, FS_AddElement, FS_CardinalityType
    <3> QED BY <1>0, <2>1, <2>3, <3>1, <3>2
  <2> QED BY <2>2, <2>3
<1> HIDE DEF Fine
<1> QED BY <1>2, <1>3, <1>4, <1>5, LeaseMoves

\* What a handler relies on does not depend on what others may do meanwhile.
LEMMA StaysUpToDate ==
  ASSUME SameLeases, proofs' = proofs, NEW q, Filled(q), UpToDate(q),
         q.pc = "claiming" => Claimable(q.job)'
  PROVE  UpToDate(q)'
<1>1. /\ \A j : ActiveOn(j)' = ActiveOn(j)
      /\ HeldBy(q.agent)' = HeldBy(q.agent)
  BY SameLeasesKeep
<1>2. q.claim \in ClaimIds /\ Active(q.claim) => Active(q.claim)'
  BY DEF SameLeases, Active
<1>3. Verdict(q.job, q.payload)' = Verdict(q.job, q.payload)
  BY DEF Verdict, SeenBefore, Recorded
<1>4. q.pc \in {"read_fingerprint", "submitting"} => q.claim \in ClaimIds
  BY DEF Filled
<1> QED BY <1>1, <1>2, <1>3, <1>4 DEF UpToDate

\* Nobody but the environment acts between two statements of a handler that runs
\* alone, and neither a new job, a deposit nor a lapse is about what it has read.
LEMMA UpToDateStep ==
  ASSUME OneAtATime, TypeOK, Links, HandlerUpToDate, [Next]_vars
  PROVE  HandlerUpToDate'
<1> SUFFICES ASSUME NEW s \in Requests PROVE UpToDate(req[s])'
  BY DEF HandlerUpToDate
<1> USE DEF TypeOK
<1>0. UpToDate(req[s])
  BY DEF HandlerUpToDate
<1>1. ASSUME req' = req, claims' = claims \/ SameLeases, proofs' = proofs,
             req[s].pc = "claiming" => Claimable(req[s].job)'
      PROVE  UpToDate(req[s])'
  <2>1. PICK q : q = req[s]
    OBVIOUS
  <2>2. SameLeases
    BY <1>1 DEF SameLeases
  <2>3. q.pc = "claiming" => Claimable(q.job)'
    BY <1>1, <2>1 DEF Claimable
  <2>4. UpToDate(q)'
    <3>1. Filled(q)
      BY <2>1 DEF Links, SlotsFilled
    <3> QED BY <3>1, <1>0, <1>1, <2>1, <2>2, <2>3, StaysUpToDate
  <2>5. req'[s] = q
    BY <1>1, <2>1
  <2> QED BY <2>4, <2>5 DEF UpToDate
<1>2. ASSUME req'[s].pc \in {"idle", "expiring", "ready", "read_claim", "recording"}
      PROVE  UpToDate(req[s])'
  BY <1>2 DEF UpToDate
<1>3. ASSUME req' = req, jobs' = jobs, proofs' = proofs, SameLeases PROVE UpToDate(req[s])'
  BY <1>0, <1>1, <1>3 DEF Claimable, UpToDate
<1>4. ASSUME NEW i \in Jobs, CreateJob(i) \/ FundJob(i) PROVE UpToDate(req[s])'
  <2>1. req[s].pc = "claiming" => Claimable(req[s].job) /\ req[s].job \in Jobs
    BY <1>0 DEF UpToDate, Links, SlotsFilled, Filled
  <2>2. ~Claimable(i) /\ \A j \in Jobs : j # i => jobs'[j] = jobs[j]
    BY <1>4 DEF CreateJob, FundJob, NoJob, Claimable
  <2>3. req[s].pc = "claiming" => Claimable(req[s].job)'
    BY <2>1, <2>2, <1>4 DEF Claimable, CreateJob, FundJob
  <2> QED BY <1>1, <1>4, <2>3 DEF CreateJob, FundJob
<1>5. ASSUME NEW c \in ClaimIds, LeaseLapses(c) PROVE UpToDate(req[s])'
  <2>1. SameLeases
    BY <1>5 DEF LeaseLapses, SameLeases, ClaimRow
  <2> QED BY <1>3, <1>5, <2>1 DEF LeaseLapses
<1>6. ASSUME NEW r \in Requests,
             Finish(r) \/ CommitClaim(r) \/ RefuseClaim(r) \/ RefuseProof(r)
               \/ RecordReputation(r) \/ Fail(r)
      PROVE  UpToDate(req[s])'
  <2>1. s = r
    BY DEF OneAtATime
  <2>2. req'[s] = Idle
    BY <1>6, <2>1 DEF Finish, CommitClaim, RefuseClaim, RefuseProof, RecordReputation, Fail, Return
  <2> QED BY <1>2, <2>2 DEF Idle
<1>7. ASSUME NEW r \in Requests,
             SelectExpired(r) \/ ReopenJobs(r) \/ ReadJobForProof(r) \/ CommitProof(r)
      PROVE  UpToDate(req[s])'
  <2>1. s = r
    BY DEF OneAtATime
  <2>2. req'[s].pc \in {"expiring", "ready", "read_claim", "recording"}
    <3>1. CASE SelectExpired(r)
      BY <2>1, <3>1 DEF SelectExpired, Slot
    <3>2. CASE ReopenJobs(r)
      BY <2>1, <3>2 DEF ReopenJobs, Slot
    <3>3. CASE ReadJobForProof(r)
      BY <2>1, <3>3 DEF ReadJobForProof, Idle
    <3>4. CASE CommitProof(r)
      BY <2>1, <3>4 DEF CommitProof, Goto, Slot
    <3> QED BY <1>7, <3>1, <3>2, <3>3, <3>4
  <2> QED BY <1>2, <2>2
<1>8. ASSUME NEW r \in Requests, ExpireClaims(r) PROVE UpToDate(req[s])'
  <2>1. s = r
    BY DEF OneAtATime
  <2>2. req'[s].pc = "reopening" /\ req'[s].stale = req[s].stale /\ req[s].stale \subseteq Jobs
    BY <1>8, <2>1 DEF ExpireClaims, Goto, Slot
  <2>3. PICK S : S = req[s].stale
    OBVIOUS
  <2>4. \A j \in S : ActiveOn(j)' = {}
    BY <1>8, <2>1, <2>2, <2>3, SweepLeases
  <2> QED BY <2>2, <2>3, <2>4 DEF UpToDate
<1>9. ASSUME NEW r \in Requests, ReadForClaim(r) PROVE UpToDate(req[s])'
  <2>1. s = r
    BY DEF OneAtATime
  <2>2. PICK a \in Agents, j \in Jobs :
          /\ Claimable(j) /\ MayClaim(a, j)
          /\ req' = [req EXCEPT ![r] = [Idle EXCEPT !.pc = "claiming", !.agent = a, !.job = j]]
    BY <1>9 DEF ReadForClaim
  <2>3. req'[s].pc = "claiming" /\ req'[s].agent = a /\ req'[s].job = j
    BY <2>1, <2>2 DEF Idle
  <2>4. jobs' = jobs /\ claims' = claims
    BY <1>9 DEF ReadForClaim
  <2>5. Claimable(j)' /\ Cardinality(HeldBy(a)') < MaxActiveLeases
    BY <2>2, <2>4 DEF Claimable, MayClaim, HeldBy, Active
  <2> QED BY <2>3, <2>5 DEF UpToDate
<1>10. ASSUME NEW r \in Requests, ReadClaim(r) PROVE UpToDate(req[s])'
  <2>1. s = r
    BY DEF OneAtATime
  <2>2. CASE req' = [req EXCEPT ![r] = Idle]
    BY <1>2, <2>1, <2>2 DEF Idle
  <2>3. ASSUME NEW c \in ClaimIds, Active(c),
               req' = [req EXCEPT ![r].claim = c, ![r].pc = "read_fingerprint"]
        PROVE  UpToDate(req[s])'
    <3>1. req'[s] = [req[s] EXCEPT !.claim = c, !.pc = "read_fingerprint"]
      BY <2>1, <2>3
    <3>2. req'[s].pc = "read_fingerprint" /\ req'[s].claim = c
      BY <3>1 DEF Slot
    <3>3. Active(c)'
      BY <1>10, <2>3 DEF ReadClaim, Active
    <3> QED BY <3>2, <3>3 DEF UpToDate
  <2> QED BY <1>10, <2>2, <2>3 DEF ReadClaim, LiveClaims, Return
<1>11. ASSUME NEW r \in Requests, ReadFingerprint(r) PROVE UpToDate(req[s])'
  <2>1. s = r
    BY DEF OneAtATime
  <2>2. PICK q : q = req[s]
    OBVIOUS
  <2>3. q \in Slot /\ q.pc = "read_fingerprint" /\ Active(q.claim)
    BY <1>0, <1>11, <2>1, <2>2 DEF ReadFingerprint, UpToDate
  <2>4. req'[s] = [q EXCEPT !.verdict = Verdict(q.job, q.payload), !.pc = "submitting"]
    BY <1>11, <2>1, <2>2 DEF ReadFingerprint
  <2>5. /\ req'[s].pc = "submitting" /\ req'[s].verdict = Verdict(q.job, q.payload)
        /\ req'[s].claim = q.claim /\ req'[s].job = q.job /\ req'[s].payload = q.payload
    BY <2>3, <2>4 DEF Slot
  <2>6. Active(q.claim)' /\ Verdict(q.job, q.payload)' = Verdict(q.job, q.payload)
    BY <1>11, <2>3 DEF ReadFingerprint, Active, Verdict, SeenBefore, Recorded
  <2> QED BY <2>5, <2>6 DEF UpToDate
<1>12. ASSUME UNCHANGED <<jobs, claims, proofs, req>> PROVE UpToDate(req[s])'
  BY <1>3, <1>12 DEF SameLeases
<1> QED
  BY <1>4, <1>5, <1>6, <1>7, <1>8, <1>9, <1>10, <1>11, <1>12
  DEF Next, Sweep, Handle, PayAccess, vars

\* The empty ledger has no handler under way.
LEMMA SerialInvInit == Init => SerialInv
<1> SUFFICES ASSUME Init PROVE SerialInv
  OBVIOUS
<1>1. Recorded = {} /\ \A c \in ClaimIds : ~Active(c)
  BY DEF Init, Recorded, Active, NoClaim
<1>2. \A a : HeldBy(a) = {}
  BY <1>1 DEF HeldBy
<1>3. IsFiniteSet({}) /\ Cardinality({}) = 0
  BY FS_EmptySet
<1>4. HeldIsFinite /\ LeaseLimit
  BY <1>2, <1>3, LedgerAssumption DEF HeldIsFinite, LeaseLimit
<1>5. AwaitingIsUnclaimed /\ ActiveClaimHoldsJob /\ OneActiveClaimPerJob
  BY <1>1 DEF Init, AwaitingIsUnclaimed, NoJob, ActiveClaimHoldsJob, OneActiveClaimPerJob, ActiveOn
<1>6. JobAgreesWithItsProof /\ ReusedPayloadRejected
  BY <1>1 DEF Init, JobAgreesWithItsProof, ReusedPayloadRejected, NoJob
<1>7. HandlerUpToDate
  BY DEF Init, HandlerUpToDate, UpToDate, Idle
<1> QED BY <1>4, <1>5, <1>6, <1>7, IInvInit DEF SerialInv

\* Every step of the only handler preserves it, a cut-short one included.
LEMMA SerialInvStep == ASSUME OneAtATime PROVE SerialInv /\ [Next]_vars => SerialInv'
<1> SUFFICES ASSUME SerialInv, [Next]_vars PROVE SerialInv'
  OBVIOUS
<1>1. IInv /\ IInv' /\ TypeOK /\ Links
  BY IInvStep DEF SerialInv, IInv
<1>2. HandlerUpToDate'
  BY <1>1, UpToDateStep DEF SerialInv
<1>3. AwaitingIsUnclaimed' /\ ActiveClaimHoldsJob' /\ OneActiveClaimPerJob'
  BY <1>1, AwaitingStep, LeaseHoldsStep, OneLeaseStep DEF SerialInv
<1>4. JobAgreesWithItsProof' /\ ReusedPayloadRejected'
  BY <1>1, JobAgreesStep, ReusedStep DEF SerialInv
<1>5. ASSUME NEW a \in Agents
      PROVE  IsFiniteSet(HeldBy(a)') /\ Cardinality(HeldBy(a)') <= MaxActiveLeases
  BY <1>1, LeaseLimitStep DEF SerialInv
<1>6. HeldIsFinite' /\ LeaseLimit'
  BY <1>5 DEF HeldIsFinite, LeaseLimit
<1> QED BY <1>1, <1>2, <1>3, <1>4, <1>6 DEF SerialInv

\* One handler at a time: nothing a handler has read is stale when it acts on it,
\* and the tables agree between any two of its statements.
THEOREM SerialInvariance == ASSUME OneAtATime PROVE Spec => []SerialInv
<1>1. SerialInv /\ [Next]_vars => SerialInv'
  BY SerialInvStep
<1> QED BY <1>1, SerialInvInit, PTL DEF Spec

\* An active claim is backed by its job, between the statements of a sweep too.
THEOREM LeasesHoldJobs == ASSUME OneAtATime PROVE Spec => []ActiveClaimHoldsJob
<1>1. SerialInv => ActiveClaimHoldsJob
  BY DEF SerialInv
<1> QED BY <1>1, SerialInvariance, PTL

\* A job gets one proof at most and is payable exactly when that was verified.
THEOREM JobsAgree == ASSUME OneAtATime PROVE Spec => []JobAgreesWithItsProof
<1>1. SerialInv => JobAgreesWithItsProof
  BY DEF SerialInv
<1> QED BY <1>1, SerialInvariance, PTL

\* Of the proofs with one payload at most one is judged on its merits.
THEOREM ReuseIsRejected == ASSUME OneAtATime PROVE Spec => []ReusedPayloadRejected
<1>1. SerialInv => ReusedPayloadRejected
  BY DEF SerialInv
<1> QED BY <1>1, SerialInvariance, PTL

\* No agent holds more leases than its access level allows.
THEOREM LimitIsKept == ASSUME OneAtATime PROVE Spec => []LeaseLimit
<1>1. SerialInv => LeaseLimit
  BY DEF SerialInv
<1> QED BY <1>1, SerialInvariance, PTL

\* A proof is recorded only on a claim that is still 'active' in the table: the
\* sweep that would expire it, or the proof that would use it, between the
\* handler's read and its commit belongs to a request that is not there.  A lease
\* whose time ends after that read, and that no sweep has reached, still takes
\* its proof.
THEOREM ProofsNeedActiveClaims == ASSUME OneAtATime PROVE Spec => LateProofRefused
<1>1. ASSUME SerialInv, [Next]_vars, NEW p \in ProofIds, p \notin Recorded, proofs'[p] # NoProof
      PROVE  Active(proofs'[p].claim)
  <2>1. proofs[p] = NoProof
    BY <1>1 DEF Recorded
  <2>2. PICK r \in Requests : CommitProof(r)
    BY <1>1, <2>1
    DEF Next, Sweep, Handle, CreateJob, FundJob, PayAccess, LeaseLapses, SelectExpired,
        ExpireClaims, ReopenJobs, Finish, ReadForClaim, RefuseClaim, CommitClaim,
        ReadJobForProof, ReadClaim, ReadFingerprint, RefuseProof, RecordReputation, Fail,
        vars
  <2>3. /\ proofs' = [proofs EXCEPT ![req[r].proof] =
              [job |-> req[r].job, agent |-> req[r].agent, payload |-> req[r].payload,
               claim |-> req[r].claim, verdict |-> req[r].verdict]]
        /\ req[r].pc = "submitting"
    BY <2>2 DEF CommitProof
  <2>4. proofs'[p].claim = req[r].claim
    BY <1>1, <2>1, <2>3 DEF SerialInv, IInv, TypeOK
  <2>5. Active(req[r].claim)
    BY <1>1, <2>3 DEF SerialInv, HandlerUpToDate, UpToDate
  <2> QED BY <2>4, <2>5
<1>2. SerialInv /\ [Next]_vars =>
        [\A p \in ProofIds :
           p \notin Recorded /\ proofs'[p] # NoProof => Active(proofs'[p].claim)]_vars
  BY <1>1
<1> QED BY <1>2, SerialInvariance, PTL DEF Spec, LateProofRefused

-----------------------------------------------------------------------------
(* The job board.                                                          *)

\* A row with one of the closed statuses is a closed job.
LEMMA PhaseClosed ==
  ASSUME NEW row, row.status \in ClosedStatus PROVE Phase(row) = "closed"
<1>1. row.status # "absent"
  BY DEF ClosedStatus
<1> QED BY <1>1 DEF Phase

\* The board counts as the ledger does.
LEMMA SameCount == \A S : Board!Cardinality(S) = Cardinality(S)
  BY DEF Board!Cardinality, Cardinality

\* Nothing the board shows of the leases has changed.
LEMMA SameHolders ==
  ASSUME SameLeases PROVE holderBar' = holderBar
<1>1. ASSUME NEW j \in Jobs PROVE Holder(j)' = Holder(j)
  <2>1. ActiveOn(j)' = ActiveOn(j)
    BY SameLeasesKeep
  <2>2. \A c \in ActiveOn(j) : claims'[c].agent = claims[c].agent
    BY DEF SameLeases, ActiveOn
  <2> QED BY <2>1, <2>2 DEF Holder
<1> QED BY <1>1 DEF holderBar

\* Nor of the proofs.
LEMMA SameVerdicts ==
  ASSUME proofs' = proofs PROVE verdictBar' = verdictBar /\ spentBar' = spentBar
  BY DEF verdictBar, VerdictOn, ProofsOn, Recorded, spentBar

\* The holder is the agent of the active claim.
LEMMA HolderIs ==
  ASSUME OneActiveClaimPerJob, NEW j \in Jobs, NEW c \in ActiveOn(j)
  PROVE  Holder(j) = claims[c].agent
  BY DEF OneActiveClaimPerJob, Holder

\* An agent has as many leases on the board as it has active claims, at most.
LEMMA LeasesAreClaims ==
  ASSUME OneActiveClaimPerJob, ActiveClaimHoldsJob, RowsLinked, HeldIsFinite,
         NEW a \in Agents
  PROVE  /\ Cardinality(Board!Leases(a)) \in Nat
         /\ Cardinality(Board!Leases(a)) <= Cardinality(HeldBy(a))
<1> DEFINE On == {claims[c].job : c \in HeldBy(a)}
           JobOf == [c \in HeldBy(a) |-> claims[c].job]
<1>1. Board!Leases(a) \subseteq On
  <2> SUFFICES ASSUME NEW j \in Jobs, Holder(j) = a PROVE j \in On
    BY DEF Board!Leases, holderBar
  <2>1. ActiveOn(j) # {}
    BY NoneIsNoRow DEF Holder
  <2>2. PICK c \in ActiveOn(j) : Holder(j) = claims[c].agent
    BY <2>1, HolderIs
  <2> QED BY <2>2 DEF ActiveOn, HeldBy
<1>2. IsFiniteSet(HeldBy(a))
  BY DEF HeldIsFinite
<1>3. IsFiniteSet(On) /\ Cardinality(On) <= Cardinality(HeldBy(a))
  <2>1. JobOf \in Surjection(HeldBy(a), On)
    BY DEF Surjection
  <2> HIDE DEF JobOf, On
  <2> QED BY <1>2, <2>1, FS_Surjection
<1> HIDE DEF On
<1>4. /\ Cardinality(Board!Leases(a)) <= Cardinality(On)
      /\ IsFiniteSet(Board!Leases(a))
  BY <1>1, <1>3, FS_Subset
<1>5. /\ Cardinality(Board!Leases(a)) \in Nat /\ Cardinality(On) \in Nat
      /\ Cardinality(HeldBy(a)) \in Nat
  BY <1>2, <1>3, <1>4, FS_CardinalityType
<1> QED BY <1>3, <1>4, <1>5

\* A new job is posted, an awaited deposit funds its job.
LEMMA PostStep ==
  ASSUME TypeOK, NEW i \in Jobs, CreateJob(i) PROVE Board!Post(i)
<1>1. PICK f \in {"reserved", "awaiting_wallet_funding"}, s \in {"open", "draft"} :
        jobs' = [jobs EXCEPT ![i] = [NoJob EXCEPT !.status = s, !.funding = f]]
  BY DEF CreateJob
<1>2. Phase(jobs[i]) = "unposted"
  BY DEF CreateJob, NoJob, Phase, ClosedStatus
<1>3. Phase(jobs'[i]) \in {"unfunded", "open"} /\ \A j \in Jobs : j # i => jobs'[j] = jobs[j]
  BY <1>1 DEF TypeOK, NoJob, Phase, ClosedStatus
<1>4. phaseBar[i] = "unposted" /\ phaseBar' = [phaseBar EXCEPT ![i] = Phase(jobs'[i])]
  BY <1>2, <1>3 DEF phaseBar
<1>5. SameLeases /\ proofs' = proofs
  BY DEF CreateJob, SameLeases
<1> QED BY <1>3, <1>4, <1>5, SameHolders, SameVerdicts DEF Board!Post

\* A deposit opens a job of the board: no agent can have it yet.
LEMMA FundStep ==
  ASSUME TypeOK, AwaitingIsUnclaimed, NEW i \in Jobs, FundJob(i) PROVE Board!Fund(i)
<1>1. jobs[i].funding = "awaiting_wallet_funding" /\ jobs[i].status \in {"draft", "open"}
  BY DEF FundJob, AwaitingIsUnclaimed
<1>2. /\ jobs'[i].funding = "reserved" /\ jobs'[i].status = "open"
      /\ \A j \in Jobs : j # i => jobs'[j] = jobs[j]
  BY DEF FundJob, TypeOK, JobRow
<1>3. Phase(jobs[i]) = "unfunded" /\ Phase(jobs'[i]) = "open"
  BY <1>1, <1>2 DEF Phase, ClosedStatus
<1>4. phaseBar[i] = "unfunded" /\ phaseBar' = [phaseBar EXCEPT ![i] = "open"]
  BY <1>2, <1>3 DEF phaseBar
<1>5. SameLeases /\ proofs' = proofs
  BY DEF FundJob, SameLeases
<1> QED BY <1>4, <1>5, SameHolders, SameVerdicts DEF Board!Fund

\* A claim that commits is a claim of the board: its job is open and free, and its
\* agent below the limit.
LEMMA ClaimStep ==
  ASSUME SerialInv, NEW r \in Requests, CommitClaim(r)
  PROVE  Board!Claim(req[r].agent, req[r].job)
<1> USE DEF SerialInv, IInv
<1>1. PICK i \in Jobs, b \in Agents : i = req[r].job /\ b = req[r].agent
  BY ClaimTakes
<1>2. /\ jobs[i].status = "open" /\ jobs'[i].status = "claimed"
      /\ jobs'[i].funding = jobs[i].funding /\ req[r].pc = "claiming"
      /\ \A j \in Jobs : j # i => jobs'[j] = jobs[j]
  BY <1>1, ClaimTakes
<1>3. jobs[i].funding = "reserved" /\ Cardinality(HeldBy(b)) < MaxActiveLeases
  BY <1>1, <1>2 DEF HandlerUpToDate, UpToDate, Claimable
<1>4. Phase(jobs[i]) = "open" /\ Phase(jobs'[i]) = "open"
  BY <1>2, <1>3 DEF Phase, ClosedStatus
<1>5. phaseBar[i] = "open" /\ phaseBar' = phaseBar
  BY <1>2, <1>4 DEF phaseBar
<1>6. ActiveOn(i) = {}
  BY <1>2 DEF ActiveOn, ActiveClaimHoldsJob
<1>7. holderBar[i] = None
  BY <1>6 DEF holderBar, Holder
<1>8. Board!Cardinality(Board!Leases(b)) < MaxActiveLeases
  <2>1. Cardinality(HeldBy(b)) \in Nat
    BY FS_CardinalityType DEF HeldIsFinite
  <2>2. MaxActiveLeases \in Nat
    BY LedgerAssumption
  <2> QED BY <1>3, <2>1, <2>2, LeasesAreClaims, SameCount DEF Links
<1>9. holderBar' = [holderBar EXCEPT ![i] = b]
  <2>1. PICK c \in ClaimIds :
          /\ claims[c] = NoClaim /\ claims'[c].agent = b
          /\ \A d \in ClaimIds : d # c => claims'[d] = claims[d]
          /\ \A j : ActiveOn(j)' = IF j = i THEN ActiveOn(j) \cup {c} ELSE ActiveOn(j)
    BY <1>1, ClaimLeases
  <2>2. Holder(i)' = b
    BY <1>6, <2>1 DEF Holder
  <2>3. ASSUME NEW j \in Jobs, j # i PROVE Holder(j)' = Holder(j)
    <3>1. ActiveOn(j)' = ActiveOn(j)
      BY <2>1, <2>3
    <3>2. \A d \in ActiveOn(j) : claims'[d] = claims[d]
      BY <2>1 DEF ActiveOn, Active, NoClaim
    <3> QED BY <3>1, <3>2 DEF Holder
  <2> QED BY <2>2, <2>3 DEF holderBar
<1>10. proofs' = proofs
  BY DEF CommitClaim
<1>11. Board!Claim(b, i)
  BY <1>5, <1>7, <1>8, <1>9, <1>10, SameVerdicts DEF Board!Claim
<1> QED BY <1>1, <1>11

\* The first UPDATE of a sweep frees the jobs whose leases it ends.
LEMMA ExpireStep ==
  ASSUME SerialInv, NEW r \in Requests, ExpireClaims(r)
  PROVE  \E S \in SUBSET Jobs : Board!Expire(S)
<1> DEFINE S == {j \in Jobs : j \in req[r].stale /\ holderBar[j] # None}
<1> USE DEF SerialInv, IInv
<1>1. ASSUME NEW j \in Jobs, j \in req[r].stale PROVE Holder(j)' = None
  BY <1>1, SweepLeases DEF Holder
<1>2. ASSUME NEW j \in Jobs, j \notin req[r].stale PROVE Holder(j)' = Holder(j)
  <2>1. ActiveOn(j)' = ActiveOn(j)
    BY <1>2, SweepLeases
  <2>2. \A c \in ActiveOn(j) : claims'[c].agent = claims[c].agent
    BY SweepLeases DEF ActiveOn
  <2> QED BY <2>1, <2>2 DEF Holder
<1>3. holderBar' = [j \in Jobs |-> IF j \in S THEN None ELSE holderBar[j]]
  BY <1>1, <1>2 DEF holderBar
<1>4. \A j \in S : holderBar[j] # None
  OBVIOUS
<1>5. jobs' = jobs /\ proofs' = proofs
  BY DEF ExpireClaims
<1>6. phaseBar' = phaseBar
  BY <1>5 DEF phaseBar
<1>7. S \in SUBSET Jobs
  OBVIOUS
<1> HIDE DEF S
<1>8. Board!Expire(S)
  BY <1>3, <1>4, <1>5, <1>6, SameVerdicts DEF Board!Expire
<1> QED BY <1>7, <1>8

\* The second one shows nothing new.
LEMMA ReopenStep ==
  ASSUME TypeOK, AwaitingIsUnclaimed, NEW r \in Requests, ReopenJobs(r)
  PROVE  UNCHANGED <<phaseBar, holderBar, verdictBar, spentBar>>
<1>1. ASSUME NEW j \in Jobs PROVE Phase(jobs'[j]) = Phase(jobs[j])
  <2>1. CASE jobs'[j] = jobs[j]
    BY <2>1
  <2>2. CASE jobs'[j] # jobs[j]
    <3>1. jobs[j].status = "claimed" /\ jobs'[j].status = "open" /\ jobs'[j].funding = jobs[j].funding
      BY <2>2 DEF ReopenJobs, SweepHitsJob, TypeOK, JobRow
    <3>2. jobs[j].funding # "awaiting_wallet_funding"
      BY <3>1 DEF AwaitingIsUnclaimed
    <3> QED BY <3>1, <3>2 DEF Phase, ClosedStatus
  <2> QED BY <2>1, <2>2
<1>2. phaseBar' = phaseBar
  BY <1>1 DEF phaseBar
<1>3. SameLeases /\ proofs' = proofs
  BY DEF ReopenJobs, SameLeases
<1> QED BY <1>2, <1>3, SameHolders, SameVerdicts

\* A proof that commits is the board's: from the holder, on an open job, and with a
\* payload that has earned nothing if it is to earn a reward.
LEMMA ProveStep ==
  ASSUME SerialInv, NEW r \in Requests, CommitProof(r)
  PROVE  Board!Prove(req[r].job, req[r].payload, req[r].verdict)
<1> USE DEF SerialInv, IInv
<1> PICK w, v : w = req[r].payload /\ v = req[r].verdict
  OBVIOUS
<1>1. PICK i \in Jobs, k \in ClaimIds, p \in ProofIds :
        i = req[r].job /\ k = req[r].claim /\ p = req[r].proof
  BY ProofCommit, ProofVerdict
<1>2. /\ Active(k) /\ claims[k].job = i /\ v = Verdict(i, w)
  <2>1. req[r].pc = "submitting" /\ claims[k].job = i
    BY <1>1, ProofCommit, ProofVerdict
  <2> QED BY <1>1, <2>1 DEF HandlerUpToDate, UpToDate
<1>3. jobs[i].status = "claimed" /\ k \in ActiveOn(i)
  BY <1>1, <1>2 DEF ActiveClaimHoldsJob, ActiveOn
<1>4. phaseBar[i] = "open" /\ phaseBar' = [phaseBar EXCEPT ![i] = "closed"]
  <2>1. Phase(jobs[i]) = "open"
    BY <1>3 DEF Phase, ClosedStatus, AwaitingIsUnclaimed
  <2>2. Phase(jobs'[i]) = "closed" /\ \A j \in Jobs : j # i => jobs'[j] = jobs[j]
    <3>1. jobs'[i].status \in ClosedStatus /\ \A j \in Jobs : j # i => jobs'[j] = jobs[j]
      BY <1>1, ProofCommit
    <3> QED BY <3>1, PhaseClosed
  <2> QED BY <2>1, <2>2 DEF phaseBar
<1>5. holderBar[i] # None
  <2>1. claims[k].agent \in Agents
    BY <1>2 DEF Active, Links, RowsLinked
  <2>2. Holder(i) = claims[k].agent
    BY <1>3, HolderIs
  <2> QED BY <2>1, <2>2, NoneIsNoRow DEF holderBar
<1>6. holderBar' = [holderBar EXCEPT ![i] = None]
  <2>1. /\ \A j : ActiveOn(j)' = ActiveOn(j) \ {k}
        /\ \A c \in ClaimIds : claims'[c].agent = claims[c].agent
    BY <1>1, ProofLeases
  <2>2. ActiveOn(i) = {k}
    BY <1>3 DEF OneActiveClaimPerJob
  <2>3. Holder(i)' = None
    BY <2>1, <2>2 DEF Holder
  <2>4. ASSUME NEW j \in Jobs, j # i PROVE Holder(j)' = Holder(j)
    <3>1. k \notin ActiveOn(j)
      BY <1>2, <2>4 DEF ActiveOn
    <3>2. ActiveOn(j)' = ActiveOn(j)
      BY <2>1, <3>1
    <3> QED BY <2>1, <3>2 DEF Holder, ActiveOn
  <2> QED BY <2>3, <2>4 DEF holderBar
<1>7. /\ proofs[p] = NoProof /\ proofs'[p] # NoProof
      /\ proofs'[p].job = i /\ proofs'[p].payload = w /\ proofs'[p].verdict = v
      /\ \A o \in ProofIds : o # p => proofs'[o] = proofs[o]
  BY <1>1, ProofCommit, ProofVerdict
<1>8. Recorded' = Recorded \cup {p} /\ p \notin Recorded
  BY <1>7 DEF Recorded
<1>9. verdictBar' = [verdictBar EXCEPT ![i] = v]
  <2>1. \A o \in Recorded : proofs[o].job # i
    BY <1>3 DEF ProofClosesJob, ClosedStatus
  <2>2. ProofsOn(i)' = {p}
    <3>1. \A o \in Recorded : proofs'[o] = proofs[o]
      BY <1>7, <1>8 DEF Recorded
    <3>2. \A o : o \in ProofsOn(i)' <=> o \in Recorded' /\ proofs'[o].job = i
      BY DEF ProofsOn
    <3> QED BY <1>7, <1>8, <2>1, <3>1, <3>2
  <2>3. VerdictOn(i)' = v
    BY <1>7, <2>2 DEF VerdictOn
  <2>4. ASSUME NEW j \in Jobs, j # i PROVE VerdictOn(j)' = VerdictOn(j)
    <3>1. ProofsOn(j)' = ProofsOn(j)
      BY <1>7, <1>8, <2>4 DEF ProofsOn, Recorded
    <3>2. \A o \in ProofsOn(j) : proofs'[o] = proofs[o]
      BY <1>7, <1>8 DEF ProofsOn, Recorded
    <3> QED BY <3>1, <3>2 DEF VerdictOn
  <2> QED BY <2>3, <2>4 DEF verdictBar
<1>10. spentBar' = IF v = "verified" THEN spentBar \cup {w} ELSE spentBar
  BY <1>7, <1>8 DEF spentBar, Recorded
<1>11. v = "verified" => w \notin spentBar
  BY <1>2 DEF Verdict, SeenBefore, spentBar
<1>12. Board!Prove(i, w, v)
  BY <1>4, <1>5, <1>6, <1>9, <1>10, <1>11 DEF Board!Prove
<1> QED BY <1>1, <1>12

\* Every step of the serial ledger is a step of the board or shows nothing.
LEMMA BoardStep ==
  ASSUME SerialInv, [Next]_vars
  PROVE  [Board!Next]_(Board!vars)
<1> USE DEF SerialInv, IInv
<1> DEFINE Shown == [Board!Next]_(Board!vars)
<1>1. ASSUME NEW i \in Jobs, CreateJob(i) PROVE Shown
  BY <1>1, PostStep DEF Board!Next
<1>2. ASSUME NEW i \in Jobs, FundJob(i) PROVE Shown
  BY <1>2, FundStep DEF Board!Next
<1>3. ASSUME NEW r \in Requests, CommitClaim(r) PROVE Shown
  <2>1. req[r].agent \in Agents /\ req[r].job \in Jobs
    BY <1>3, ClaimTakes
  <2> QED BY <1>3, <2>1, ClaimStep DEF Board!Next
<1>4. ASSUME NEW r \in Requests, ExpireClaims(r) PROVE Shown
  BY <1>4, ExpireStep DEF Board!Next
<1>5. ASSUME NEW r \in Requests, ReopenJobs(r) PROVE Shown
  BY <1>5, ReopenStep DEF Board!vars
<1>6. ASSUME NEW r \in Requests, CommitProof(r) PROVE Shown
  <2>1. req[r].job \in Jobs /\ req[r].payload \in Payloads /\ req[r].verdict \in Verdicts
    BY <1>6 DEF CommitProof, Links, SlotsFilled, Filled
  <2> QED BY <1>6, <2>1, ProveStep DEF Board!Next
<1>7. ASSUME SameLeases, UNCHANGED <<jobs, proofs>> PROVE Shown
  <2>1. phaseBar' = phaseBar
    BY <1>7 DEF phaseBar
  <2> QED BY <1>7, <2>1, SameHolders, SameVerdicts DEF Board!vars
<1>8. ASSUME UNCHANGED rows PROVE Shown
  BY <1>7, <1>8 DEF SameLeases, rows
<1>9. ASSUME NEW c \in ClaimIds, LeaseLapses(c) PROVE Shown
  <2>1. SameLeases
    BY <1>9 DEF LeaseLapses, SameLeases, TypeOK, ClaimRow
  <2> QED BY <1>7, <1>9, <2>1 DEF LeaseLapses
<1> HIDE DEF Shown
<1>10. Shown
  BY <1>1, <1>2, <1>3, <1>4, <1>5, <1>6, <1>8, <1>9
  DEF Next, Sweep, Handle, PayAccess, SelectExpired, Finish, ReadForClaim, RefuseClaim,
      ReadJobForProof, ReadClaim, ReadFingerprint, RefuseProof, RecordReputation, Fail,
      vars, rows
<1> QED BY <1>10 DEF Shown

\* The empty ledger is the empty board.
LEMMA BoardInit == Init => Board!Init
<1> SUFFICES ASSUME Init PROVE Board!Init
  OBVIOUS
<1>1. Recorded = {} /\ \A j : ActiveOn(j) = {}
  BY DEF Init, Recorded, ActiveOn, Active, NoClaim
<1>2. \A j \in Jobs : Phase(jobs[j]) = "unposted" /\ Holder(j) = None /\ VerdictOn(j) = None
  BY <1>1 DEF Init, NoJob, Phase, ClosedStatus, Holder, VerdictOn, ProofsOn
<1> QED BY <1>1, <1>2 DEF Board!Init, phaseBar, holderBar, verdictBar, spentBar

\* Whoever watches the tables of a serial deployment watches a job board: sweeps,
\* crashes and refusals in between show nothing.
THEOREM LedgerIsJobBoard == ASSUME OneAtATime PROVE Spec => ImplementsJobBoard
<1>1. SerialInv /\ [Next]_vars => [Board!Next]_(Board!vars)
  BY BoardStep
<1> QED BY <1>1, BoardInit, SerialInvariance, PTL DEF Spec, ImplementsJobBoard, Board!Spec

=============================================================================
