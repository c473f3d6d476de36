-------------------------- MODULE SettlementProofs --------------------------
(***************************************************************************)
(* For any number of proofs, batches, machines and runners, and any deaths *)
(* of runners: a batch is settled as a whole, a paid proof has a transfer  *)
(* to its agent, local runners pay no proof twice, and a compound job's    *)
(* verdict is that of its parts.                                           *)
(***************************************************************************)
EXTENDS Settlement, FiniteSetTheorems, SequenceTheorems, TLAPS

-----------------------------------------------------------------------------
(* The inductive invariant, in parts.                                      *)

Members(b) == {p \in Proofs : proof[p].batch = b}

\* What createSettlementBatch locked stays payable until it is paid, and only
\* a paid proof has a hash.
RowsAgree ==
  \A p \in Proofs :
    /\ proof[p].batch # None =>
         proof[p].status \in {"payable", "paid"} /\ batch[proof[p].batch] # "none"
    /\ proof[p].status # "paid" => proof[p].tx = 0

\* A batch file, and a runner at work, has exactly the proofs of its batch.
Plan(b, ps) == b \in Batches /\ batch[b] # "none" /\ ps = Members(b)

\* The same, of the state after the step.
PlanNext(b, ps) == b \in Batches /\ batch'[b] # "none" /\ ps = {p \in Proofs : proof'[p].batch = b}

PlansAreWhole ==
  /\ \A h \in Hosts : batchFile[h] # None => Plan(batchFile[h].batch, batchFile[h].proofs)
  /\ \A r \in Runners : runner[r].pc # "idle" => Plan(runner[r].batch, runner[r].proofs)

\* The hashes a runner holds are those of its own transfers for its own plan.
HashesAreOwn ==
  \A r \in Runners : \A i \in runner[r].txs :
    /\ i \in DOMAIN sent
    /\ sent[i].proofs = {p \in runner[r].proofs : AgentOf[p] = sent[i].agent}

\* Local runners that are past the lock.
Holds(r) == r \in LocalRunners /\ runner[r].pc \in {"pay", "report"}

Locked(b) == batch[b] \in {"executing", "settled"}

\* One local runner at a time holds a batch, nobody holds one that is prepared,
\* and what it has still to pay no local runner has paid.
LocksHold ==
  /\ \A r \in Runners : Holds(r) => Locked(runner[r].batch)
  /\ \A r, q \in Runners : Holds(r) /\ Holds(q) /\ runner[r].batch = runner[q].batch => r = q
  /\ \A i \in DOMAIN sent : sent[i].by \in LocalRunners =>
       \A p \in sent[i].proofs : proof[p].batch # None /\ Locked(proof[p].batch)
  /\ \A r \in Runners : Holds(r) =>
       \A p \in runner[r].proofs : AgentOf[p] \in runner[r].due =>
         \A i \in DOMAIN sent : sent[i].by \in LocalRunners => p \notin sent[i].proofs

\* A proof to be checked is in, sub-jobs exist with their parent, and a checked
\* rejection has failed it.
ChecksAgree ==
  /\ \A p \in unchecked : proof[p].status \in {"payable", "rejected", "paid"}
  /\ \A c \in Parents : \A p \in SubsOf(c) :
       (compound[c].status = "absent") <=> (proof[p].status = "absent")
  /\ \A c \in Parents : \A p \in SubsOf(c) :
       crashes = 0 /\ p \notin unchecked /\ proof[p].status = "rejected"
         => compound[c].status # "pending"

SettlementInv ==
  /\ SettlementTypeOK /\ RowsAgree /\ BatchSettlesWhole /\ PlansAreWhole
  /\ HashesAreOwn /\ PaidProofHasTransfer /\ LocksHold /\ LocalRunnersPayOnce
  /\ ChecksAgree /\ ParentVerdict

-----------------------------------------------------------------------------
(* What a step does with the rows.                                         *)

\* createSettlementBatch's second branch.
NewBatch(b, ps) ==
  /\ b \in Batches /\ batch[b] = "none" /\ ps # {} /\ ps \subseteq Unbatched
  /\ batch' = [batch EXCEPT ![b] = "prepared"]
  /\ proof' = [p \in Proofs |-> IF p \in ps THEN [proof[p] EXCEPT !.batch = b] ELSE proof[p]]

\* recordSettledBatch, when it does not roll back: it is of a whole batch, with
\* the hashes of transfers for it.
Settles(b, txs) ==
  /\ b \in Batches
  /\ \A i \in txs : i \in DOMAIN sent /\ sent[i].proofs = {p \in Members(b) : AgentOf[p] = sent[i].agent}
  /\ Recordable(b, Members(b), txs) /\ MarkPaid(b, Members(b), txs)

\* POST /jobs/compound or POST /jobs/:jobId/proof.
WorkStep ==
  /\ UNCHANGED batch
  /\ (\E c \in Parents : createCompoundJob(c)) \/ \E p \in Proofs : CommitProof(p)

RowStep ==
  \/ UNCHANGED <<proof, batch>>
  \/ WorkStep
  \/ \E b \in Batches : \E ps \in SUBSET Proofs : NewBatch(b, ps)
  \/ \E b \in Batches : TakeLock(b) /\ UNCHANGED proof
  \/ \E b \in Batches : \E txs \in SUBSET Nat : Settles(b, txs)

\* The proofs of a prepared batch are all there to be handed out again.
LEMMA PreparedIsWhole ==
  ASSUME SettlementTypeOK, RowsAgree, BatchSettlesWhole, NEW b \in Batches, batch[b] = "prepared"
  PROVE  BatchProofs(b) = Members(b)
<1>1. \A p \in Members(b) : proof[p].status = "payable" /\ proof[p].tx = 0
  BY CompoundAssumption DEF Members, RowsAgree, BatchSettlesWhole
<1> QED
  BY <1>1 DEF Members, BatchProofs

\* What createSettlementBatch returns is a whole batch, afterwards.
LEMMA CreatedIsWhole ==
  ASSUME SettlementTypeOK, RowsAgree, BatchSettlesWhole,
         NEW b \in Batches, NEW ps \in SUBSET Proofs, createSettlementBatch(b, ps)
  PROVE  /\ UNCHANGED <<proof, batch>> \/ NewBatch(b, ps)
         /\ PlanNext(b, ps)
<1>1. CASE batch[b] = "prepared" /\ ps = BatchProofs(b) /\ UNCHANGED <<batch, proof>>
  BY <1>1, PreparedIsWhole DEF PlanNext, Members
<1>2. CASE NewBatch(b, ps)
  <2>1. batch'[b] = "prepared"
    BY <1>2 DEF NewBatch, SettlementTypeOK
  <2>2. \A p \in Proofs \ ps : proof[p].batch # b
    BY <1>2, CompoundAssumption DEF NewBatch, RowsAgree
  <2>3. \A p \in Proofs : proof'[p].batch = IF p \in ps THEN b ELSE proof[p].batch
    BY <1>2 DEF NewBatch, SettlementTypeOK, ProofRow
  <2>4. {p \in Proofs : proof'[p].batch = b} = ps
    BY <2>2, <2>3
  <2> QED
    BY <1>2, <2>1, <2>4 DEF PlanNext
<1> QED
  BY <1>1, <1>2 DEF createSettlementBatch, NewBatch

\* Every step is one of the row steps.
LEMMA StepsOnRows ==
  ASSUME SettlementInv, [SettlementNext]_settlementVars
  PROVE  RowStep
<1> USE DEF SettlementInv
<1>1. CASE UNCHANGED settlementVars
  BY <1>1 DEF settlementVars, RowStep
<1>2. CASE CompoundNext /\ UNCHANGED <<batch, sent, runner, batchFile, stateFile, escrowPaid>>
  BY <1>2 DEF CompoundNext, CheckParent, LoseCheck, RowStep, WorkStep
<1>3. ASSUME NEW h \in Hosts, NEW b \in Batches, NEW ps \in SUBSET Proofs, ExportToFile(h, b, ps)
      PROVE  RowStep
  BY <1>3, CreatedIsWhole DEF ExportToFile, RowStep
<1>4. ASSUME NEW r \in Runners, RunnerStep(r)
      PROVE  RowStep
  <2>1. CASE StartLocal(r) \/ LockRefused(r) \/ WriteState(r) \/ RunnerDies(r)
    BY <2>1 DEF StartLocal, LockRefused, WriteState, RunnerDies, jobsAndProofs, RowStep
  <2>2. CASE \E a \in Agents : SendTransfer(r, a)
    BY <2>2 DEF SendTransfer, jobsAndProofs, RowStep
  <2>3. CASE Lock(r)
    <3>1. runner[r].batch \in Batches
      BY <2>3 DEF Lock, PlansAreWhole, Plan
    <3> QED
      BY <2>3, <3>1 DEF Lock, jobsAndProofs, RowStep
  <2>4. CASE \E b \in Batches, ps \in SUBSET Proofs : StartRemote(r, b, ps)
    BY <2>4, CreatedIsWhole DEF StartRemote, RowStep
  <2>5. CASE RecordLocally(r)
    <3>1. Plan(runner[r].batch, runner[r].proofs)
      BY <2>5 DEF RecordLocally, PlansAreWhole
    <3>2. /\ runner[r].txs \in SUBSET Nat
          /\ \A i \in runner[r].txs : i \in DOMAIN sent /\ sent[i].proofs =
               {p \in Members(runner[r].batch) : AgentOf[p] = sent[i].agent}
      BY <3>1 DEF SettlementTypeOK, Run, HashesAreOwn, Plan
    <3>3. UNCHANGED <<batch, proof>> \/ Settles(runner[r].batch, runner[r].txs)
      BY <2>5, <3>1, <3>2 DEF RecordLocally, recordSettledBatch, Settles, Plan
    <3> QED
      BY <3>1, <3>2, <3>3 DEF RowStep, Plan
  <2>6. CASE PostReceipt(r)
    <3>1. Plan(runner[r].batch, runner[r].proofs)
      BY <2>6 DEF PostReceipt, PlansAreWhole
    <3>2. /\ runner[r].txs \in SUBSET Nat
          /\ \A i \in runner[r].txs : i \in DOMAIN sent /\ sent[i].proofs =
               {p \in Members(runner[r].batch) : AgentOf[p] = sent[i].agent}
      BY <3>1 DEF SettlementTypeOK, Run, HashesAreOwn, Plan
    <3>3. CASE ReceiptMatches(runner[r].batch, runner[r].txs)
      <4>1. BatchProofs(runner[r].batch) = Members(runner[r].batch)
        BY <3>1, <3>3, PreparedIsWhole DEF ReceiptMatches, Plan
      <4>2. UNCHANGED <<batch, proof>> \/ Settles(runner[r].batch, runner[r].txs)
        BY <2>6, <3>1, <3>2, <3>3, <4>1 DEF PostReceipt, recordSettledBatch, Settles, Plan
      <4> QED
        BY <3>1, <3>2, <4>2 DEF RowStep, Plan
    <3>4. CASE ~ReceiptMatches(runner[r].batch, runner[r].txs)
      BY <2>6, <3>4 DEF PostReceipt, RowStep
    <3> QED
      BY <3>3, <3>4
  <2> QED
    BY <1>4, <2>1, <2>2, <2>3, <2>4, <2>5, <2>6 DEF RunnerStep
<1>5. ASSUME NEW p \in Proofs, EscrowReleases(p)
      PROVE  RowStep
  BY <1>5 DEF EscrowReleases, jobsAndProofs, RowStep
<1> QED
  BY <1>1, <1>2, <1>3, <1>4, <1>5 DEF SettlementNext

-----------------------------------------------------------------------------
(* The type invariant.                                                     *)

LEMMA SubsAreFinite == \A c \in Parents : \A S \in SUBSET SubsOf(c) :
                         IsFiniteSet(S) /\ Cardinality(S) \in Nat
<1>1. \A c \in Parents : SubsOf(c) \subseteq Proofs
  BY DEF SubsOf
<1>2. \A S \in SUBSET Proofs : IsFiniteSet(S)
  BY CompoundAssumption, FS_Subset
<1> QED
  BY <1>1, <1>2, FS_CardinalityType

\* A successful transfer that MarkPaid chooses is one of the hashes it is given.
LEMMA ChosenIsSuccess ==
  ASSUME NEW b \in Batches, NEW txs \in SUBSET Nat, Recordable(b, Members(b), txs),
         NEW p \in Members(b)
  PROVE  LET i == CHOOSE i \in SuccessFor(txs, p) : TRUE
         IN  i \in txs /\ i \in Nat /\ sent[i].agent = AgentOf[p] /\ sent[i].ok
<1>1. SuccessFor(txs, p) # {}
  BY DEF Recordable
<1> QED
  BY <1>1 DEF SuccessFor

LEMMA RowsAreTyped ==
  ASSUME SettlementTypeOK, RowStep
  PROVE  /\ proof' \in [Proofs -> ProofRow]
         /\ batch' \in [Batches -> {"none", "prepared", "executing", "settled"}]
<1> USE DEF SettlementTypeOK
<1>1. CASE UNCHANGED <<proof, batch>>
  BY <1>1
<1>2. CASE WorkStep
  <2>1. ASSUME NEW c \in Parents, createCompoundJob(c)
        PROVE  proof' \in [Proofs -> ProofRow]
    BY <2>1 DEF createCompoundJob, ProofRow
  <2>2. ASSUME NEW p \in Proofs, CommitProof(p)
        PROVE  proof' \in [Proofs -> ProofRow]
    BY <2>2 DEF CommitProof, ProofRow
  <2> QED
    BY <1>2, <2>1, <2>2 DEF WorkStep
<1>3. ASSUME NEW b \in Batches, NEW ps \in SUBSET Proofs, NewBatch(b, ps)
      PROVE  /\ proof' \in [Proofs -> ProofRow]
             /\ batch' \in [Batches -> {"none", "prepared", "executing", "settled"}]
  BY <1>3 DEF NewBatch, ProofRow
<1>4. ASSUME NEW b \in Batches, TakeLock(b), UNCHANGED proof
      PROVE  /\ proof' \in [Proofs -> ProofRow]
             /\ batch' \in [Batches -> {"none", "prepared", "executing", "settled"}]
  BY <1>4 DEF TakeLock
<1>5. ASSUME NEW b \in Batches, NEW txs \in SUBSET Nat, Settles(b, txs)
      PROVE  /\ proof' \in [Proofs -> ProofRow]
             /\ batch' \in [Batches -> {"none", "prepared", "executing", "settled"}]
  <2>1. \A p \in Members(b) : (CHOOSE i \in SuccessFor(txs, p) : TRUE) \in Nat
    BY <1>5, ChosenIsSuccess DEF Settles
  <2> QED
    BY <1>5, <2>1 DEF Settles, MarkPaid, ProofRow
<1> QED
  BY <1>1, <1>2, <1>3, <1>4, <1>5 DEF RowStep

LEMMA CompoundIsTyped ==
  ASSUME SettlementTypeOK, CompoundNext
  PROVE  /\ compound' \in [Parents -> CompoundRow]
         /\ unchecked' \subseteq Proofs /\ crashes' \in 0 .. MaxCrashes
<1> USE DEF SettlementTypeOK
<1>1. ASSUME NEW c \in Parents, createCompoundJob(c)
      PROVE  compound' \in [Parents -> CompoundRow] /\ UNCHANGED <<unchecked, crashes>>
  BY <1>1 DEF createCompoundJob, CompoundRow
<1>2. ASSUME NEW p \in Proofs, CommitProof(p)
      PROVE  unchecked' \subseteq Proofs /\ UNCHANGED <<compound, crashes>>
  BY <1>2 DEF CommitProof
<1>3. ASSUME NEW p \in Proofs, CheckParent(p)
      PROVE  /\ compound' \in [Parents -> CompoundRow] /\ unchecked' \subseteq Proofs
             /\ UNCHANGED crashes
  <2> DEFINE c == ParentOf[p]
  <2>1. c \in Parents \cup {None}
    BY CompoundAssumption
  <2>2. \A d \in Parents : Cardinality({q \in SubsOf(d) : Accepted(q)}) \in Nat
    BY SubsAreFinite
  <2>3. ASSUME c \in Parents, Completion(c)
        PROVE  compound' \in [Parents -> CompoundRow]
    BY <2>2, <2>3 DEF Completion, CompoundRow
  <2>4. ASSUME c \in Parents, Failure(c)
        PROVE  compound' \in [Parents -> CompoundRow]
    BY <2>4 DEF Failure, CompoundRow
  <2> QED
    BY <1>3, <2>1, <2>3, <2>4 DEF CheckParent
<1>4. ASSUME NEW p \in Proofs, LoseCheck(p)
      PROVE  unchecked' \subseteq Proofs /\ crashes' \in 0 .. MaxCrashes /\ UNCHANGED compound
  BY <1>4, CompoundAssumption DEF LoseCheck
<1> QED
  BY <1>1, <1>2, <1>3, <1>4 DEF CompoundNext

\* What Begin writes is a process row.
LEMMA BegunIsTyped ==
  ASSUME SettlementTypeOK, NEW r \in Runners, NEW pc \in {"lock", "pay"}, NEW b \in Batches,
         NEW ps \in SUBSET Proofs, Begin(r, pc, b, ps)
  PROVE  runner' \in [Runners -> Run]
<1>1. {AgentOf[p] : p \in ps} \in SUBSET Agents /\ stateFile[HostOf[r]] \in SUBSET Batches
  BY SettlementAssumption DEF SettlementTypeOK
<1>2. [pc |-> pc, batch |-> b, proofs |-> ps, due |-> {AgentOf[p] : p \in ps},
       txs |-> {}, seen |-> stateFile[HostOf[r]]] \in Run
  BY <1>1 DEF Run
<1> QED
  BY <1>2 DEF Begin, SettlementTypeOK

LEMMA RunnersAreTyped ==
  ASSUME SettlementTypeOK, PlansAreWhole, NEW r \in Runners, RunnerStep(r)
  PROVE  /\ crashes' \in 0 .. MaxCrashes /\ sent' \in Seq(TransferRow)
         /\ runner' \in [Runners -> Run] /\ stateFile' \in [Hosts -> SUBSET Batches]
         /\ UNCHANGED <<compound, unchecked, batchFile, escrowPaid>>
<1> USE DEF SettlementTypeOK
<1>0. Stopped \in Run
  BY DEF Stopped, Run
<1>1. CASE StartLocal(r)
  <2> DEFINE f == batchFile[HostOf[r]]
  <2>1. f \in Payload \cup {None} /\ f # None
    BY <1>1, SettlementAssumption DEF StartLocal
  <2>2. f.batch \in Batches /\ f.proofs \in SUBSET Proofs
    BY <2>1 DEF Payload
  <2>3. Begin(r, "lock", f.batch, f.proofs)
    BY <1>1 DEF StartLocal
  <2> QED
    BY <1>1, <2>2, <2>3, BegunIsTyped DEF StartLocal, jobsAndProofs
<1>2. CASE Lock(r)
  BY <1>2 DEF Lock, jobsAndProofs, Run
<1>3. CASE LockRefused(r)
  BY <1>0, <1>3 DEF LockRefused, jobsAndProofs
<1>4. ASSUME NEW b \in Batches, NEW ps \in SUBSET Proofs, StartRemote(r, b, ps)
      PROVE  runner' \in [Runners -> Run]
  BY <1>4, BegunIsTyped DEF StartRemote
<1>5. ASSUME NEW a \in Agents, SendTransfer(r, a)
      PROVE  sent' \in Seq(TransferRow) /\ runner' \in [Runners -> Run]
  <2>1. PICK ok \in BOOLEAN :
          sent' = Append(sent, [by |-> r, agent |-> a, ok |-> ok,
                                proofs |-> {p \in runner[r].proofs : AgentOf[p] = a}])
    BY <1>5 DEF SendTransfer
  <2>2. [by |-> r, agent |-> a, ok |-> ok,
         proofs |-> {p \in runner[r].proofs : AgentOf[p] = a}] \in TransferRow
    BY DEF TransferRow, Run
  <2>3. sent' \in Seq(TransferRow)
    BY <2>1, <2>2
  <2>4. Len(sent) + 1 \in Nat
    OBVIOUS
  <2>5. runner[r].due \ {a} \in SUBSET Agents /\ runner[r].txs \cup {Len(sent) + 1} \in SUBSET Nat
    BY <2>4 DEF Run
  <2>6. runner' = [runner EXCEPT ![r] = [runner[r] EXCEPT !.due = runner[r].due \ {a},
                                         !.txs = runner[r].txs \cup {Len(sent) + 1}]]
    BY <1>5 DEF SendTransfer
  <2>7. [runner[r] EXCEPT !.due = runner[r].due \ {a},
                          !.txs = runner[r].txs \cup {Len(sent) + 1}] \in Run
    BY <2>5 DEF Run
  <2> QED
    BY <2>3, <2>6, <2>7
<1>6. CASE WriteState(r)
  <2>1. runner[r].batch \in Batches
    BY <1>6 DEF WriteState, PlansAreWhole, Plan
  <2> QED
    BY <1>6, <2>1, SettlementAssumption DEF WriteState, jobsAndProofs, Run
<1>7. CASE RecordLocally(r) \/ PostReceipt(r)
  BY <1>0, <1>7 DEF RecordLocally, PostReceipt
<1>8. CASE RunnerDies(r)
  BY <1>0, <1>8, CompoundAssumption DEF RunnerDies, jobsAndProofs
<1>9. CASE (\E b \in Batches, ps \in SUBSET Proofs : StartRemote(r, b, ps))
           \/ (\E a \in Agents : SendTransfer(r, a))
  BY <1>4, <1>5, <1>9 DEF StartRemote, SendTransfer, jobsAndProofs
<1> QED
  BY <1>1, <1>2, <1>3, <1>6, <1>7, <1>8, <1>9 DEF RunnerStep

LEMMA TypeKept ==
  ASSUME SettlementInv, [SettlementNext]_settlementVars
  PROVE  SettlementTypeOK'
<1> USE DEF SettlementInv
<1>1. /\ proof' \in [Proofs -> ProofRow]
      /\ batch' \in [Batches -> {"none", "prepared", "executing", "settled"}]
  BY StepsOnRows, RowsAreTyped
<1>2. CASE UNCHANGED settlementVars
  BY <1>2 DEF settlementVars, SettlementTypeOK
<1>3. CASE CompoundNext /\ UNCHANGED <<batch, sent, runner, batchFile, stateFile, escrowPaid>>
  BY <1>1, <1>3, CompoundIsTyped DEF SettlementTypeOK
<1>4. ASSUME NEW h \in Hosts, NEW b \in Batches, NEW ps \in SUBSET Proofs, ExportToFile(h, b, ps)
      PROVE  SettlementTypeOK'
  <2>1. [batch |-> b, proofs |-> ps] \in Payload
    BY DEF Payload
  <2> QED
    BY <1>1, <1>4, <2>1 DEF ExportToFile, SettlementTypeOK
<1>5. ASSUME NEW r \in Runners, RunnerStep(r)
      PROVE  SettlementTypeOK'
  BY <1>1, <1>5, RunnersAreTyped DEF SettlementTypeOK
<1>6. ASSUME NEW p \in Proofs, EscrowReleases(p)
      PROVE  SettlementTypeOK'
  BY <1>1, <1>6 DEF EscrowReleases, jobsAndProofs, SettlementTypeOK
<1> QED
  BY <1>2, <1>3, <1>4, <1>5, <1>6 DEF SettlementNext

-----------------------------------------------------------------------------
(* Rows, plans and transfers only grow.                                    *)

\* recordSettledBatch pays the members of its batch and touches no other proof.
LEMMA SettlingRows ==
  ASSUME SettlementTypeOK, NEW b \in Batches, NEW txs \in SUBSET Nat, Settles(b, txs)
  PROVE  /\ \A p \in Members(b) :
              /\ proof'[p].status = "paid" /\ proof'[p].batch = b
              /\ proof'[p].tx \in SuccessFor(txs, p)
         /\ \A p \in Proofs \ Members(b) : proof'[p] = proof[p]
         /\ \A p \in Proofs : proof'[p].batch = proof[p].batch /\ (Accepted(p) => Accepted(p)')
<1>1. \A p \in Members(b) :
        proof'[p] = [proof[p] EXCEPT !.status = "paid", !.batch = b,
                                     !.tx = CHOOSE i \in SuccessFor(txs, p) : TRUE]
  BY DEF Settles, MarkPaid, Members
<1>2. \A p \in Proofs \ Members(b) : proof'[p] = proof[p]
  BY DEF Settles, MarkPaid
<1>3. \A p \in Members(b) :
        /\ proof'[p].status = "paid" /\ proof'[p].batch = b
        /\ proof'[p].tx = CHOOSE i \in SuccessFor(txs, p) : TRUE
  BY <1>1 DEF SettlementTypeOK, ProofRow, Members
<1>5. \A p \in Members(b) : SuccessFor(txs, p) # {}
  BY DEF Settles, Recordable
<1>6. \A p \in Members(b) : proof'[p].tx \in SuccessFor(txs, p)
  BY <1>3, <1>5
<1>4. \A p \in Proofs : proof'[p].batch = proof[p].batch /\ (Accepted(p) => Accepted(p)')
  BY <1>2, <1>3 DEF Members, Accepted
<1> QED
  BY <1>2, <1>3, <1>4, <1>6

\* A proof keeps its batch, a new one goes to a fresh batch, a batch stays in use
\* and locked, and accepted work stays accepted.
LEMMA RowsOnlyGrow ==
  ASSUME SettlementTypeOK, RowsAgree, ChecksAgree, RowStep
  PROVE  /\ \A p \in Proofs : proof[p].batch # None => proof'[p].batch = proof[p].batch
         /\ \A p \in Proofs : proof'[p].batch # proof[p].batch =>
              proof'[p].batch \in Batches /\ batch[proof'[p].batch] = "none"
         /\ \A b \in Batches : batch[b] # "none" => batch'[b] # "none"
         /\ \A b \in Batches : Locked(b) => Locked(b)'
         /\ \A p \in Proofs : Accepted(p) => Accepted(p)'
<1> USE DEF SettlementTypeOK, Locked, Accepted
<1> DEFINE Goal == /\ \A p \in Proofs : proof[p].batch # None => proof'[p].batch = proof[p].batch
                   /\ \A p \in Proofs : proof'[p].batch # proof[p].batch =>
                        proof'[p].batch \in Batches /\ batch[proof'[p].batch] = "none"
                   /\ \A b \in Batches : batch[b] # "none" => batch'[b] # "none"
                   /\ \A b \in Batches : Locked(b) => Locked(b)'
                   /\ \A p \in Proofs : Accepted(p) => Accepted(p)'
<1>1. CASE UNCHANGED <<proof, batch>>
  BY <1>1
<1>2. ASSUME NEW c \in Parents, createCompoundJob(c), UNCHANGED batch
      PROVE  Goal
  <2>1. \A p \in Proofs : proof'[p].batch = proof[p].batch
    BY <1>2 DEF createCompoundJob, ProofRow
  <2>2. \A p \in SubsOf(c) : proof[p].status = "absent"
    BY <1>2 DEF createCompoundJob, ChecksAgree
  <2>3. \A p \in Proofs \ SubsOf(c) : proof'[p] = proof[p]
    BY <1>2 DEF createCompoundJob
  <2> QED
    BY <1>2, <2>1, <2>2, <2>3
<1>3. ASSUME NEW p \in Proofs, CommitProof(p), UNCHANGED batch
      PROVE  Goal
  BY <1>3 DEF CommitProof, ProofRow
<1>4. ASSUME NEW b \in Batches, NEW ps \in SUBSET Proofs, NewBatch(b, ps)
      PROVE  Goal
  BY <1>4 DEF NewBatch, Unbatched, ProofRow
<1>5. ASSUME NEW b \in Batches, TakeLock(b), UNCHANGED proof
      PROVE  Goal
  BY <1>5 DEF TakeLock
<1>6. ASSUME NEW b \in Batches, NEW txs \in SUBSET Nat, Settles(b, txs)
      PROVE  Goal
  <2>1. \A p \in Proofs : proof'[p].batch = proof[p].batch /\ (Accepted(p) => Accepted(p)')
    BY <1>6, SettlingRows
  <2>2. batch' = [batch EXCEPT ![b] = "settled"]
    BY <1>6 DEF Settles, MarkPaid
  <2>3. \A d \in Batches : batch'[d] = IF d = b THEN "settled" ELSE batch[d]
    BY <2>2
  <2>4. \A d \in Batches : batch[d] # "none" => batch'[d] # "none"
    BY <2>3
  <2>5. \A d \in Batches : Locked(d) => Locked(d)'
    BY <2>3
  <2> QED
    BY <2>1, <2>4, <2>5
<1> QED
  BY <1>1, <1>2, <1>3, <1>4, <1>5, <1>6 DEF RowStep, WorkStep

LEMMA PlanKept ==
  ASSUME SettlementTypeOK, RowsAgree, ChecksAgree, RowStep, NEW b, NEW ps, Plan(b, ps)
  PROVE  PlanNext(b, ps)
<1>1. b \in Batches /\ batch'[b] # "none"
  BY RowsOnlyGrow DEF Plan
<1>2. \A p \in Proofs : (proof'[p].batch = b) <=> (proof[p].batch = b)
  BY <1>1, RowsOnlyGrow, CompoundAssumption DEF Plan
<1> QED
  BY <1>1, <1>2 DEF Plan, PlanNext, Members

\* The chain forgets no transfer.
SentKept == \A i \in DOMAIN sent : i \in DOMAIN sent' /\ sent'[i] = sent[i]

LEMMA ChainOnlyGrows ==
  ASSUME SettlementTypeOK, [SettlementNext]_settlementVars
  PROVE  SentKept
<1>1. ASSUME NEW r \in Runners, NEW a \in Agents, SendTransfer(r, a)
      PROVE  SentKept
  BY <1>1 DEF SendTransfer, SentKept, SettlementTypeOK
<1>2. CASE UNCHANGED sent
  BY <1>2 DEF SentKept
<1>3. ASSUME NEW r \in Runners, RunnerStep(r)
      PROVE  SentKept
  BY <1>1, <1>2, <1>3 DEF RunnerStep, StartLocal, Lock, LockRefused, StartRemote, WriteState,
     RecordLocally, PostReceipt, RunnerDies, jobsAndProofs
<1> QED
  BY <1>2, <1>3 DEF SettlementNext, settlementVars, ExportToFile, EscrowReleases, jobsAndProofs

-----------------------------------------------------------------------------
(* Each part of the invariant is kept.                                     *)

LEMMA RowsAgreeKept ==
  ASSUME SettlementTypeOK, RowsAgree, BatchSettlesWhole, ChecksAgree, RowStep
  PROVE  RowsAgree' /\ BatchSettlesWhole'
<1> USE DEF SettlementTypeOK, RowsAgree, BatchSettlesWhole
<1> DEFINE Row(p) == /\ proof[p].batch # None =>
                          proof[p].status \in {"payable", "paid"} /\ batch[proof[p].batch] # "none"
                     /\ proof[p].status # "paid" => proof[p].tx = 0
                     /\ (proof[p].status = "paid") <=>
                          (proof[p].batch # None /\ batch[proof[p].batch] = "settled")
<1>0. ASSUME \A p \in Proofs : Row(p)'
      PROVE  RowsAgree' /\ BatchSettlesWhole'
  BY <1>0
<1>00. \A p \in Proofs : Row(p) /\ proof[p].batch \in Batches \cup {None}
  BY DEF ProofRow
<1> SUFFICES ASSUME NEW p \in Proofs
             PROVE  Row(p)'
  BY <1>0
<1>1. CASE UNCHANGED <<proof, batch>>
  BY <1>1, <1>00
<1>2. ASSUME NEW c \in Parents, createCompoundJob(c), UNCHANGED batch
      PROVE  Row(p)'
  <2>1. \A q \in SubsOf(c) : proof[q].status = "absent"
    BY <1>2 DEF createCompoundJob, ChecksAgree
  <2>2. CASE p \in SubsOf(c)
    <3>1. proof'[p] = [proof[p] EXCEPT !.status = "open"]
      BY <1>2, <2>2 DEF createCompoundJob
    <3> QED
      BY <1>00, <2>1, <2>2, <3>1 DEF ProofRow
  <2>3. CASE p \notin SubsOf(c)
    BY <1>00, <1>2, <2>3 DEF createCompoundJob
  <2> QED
    BY <2>2, <2>3
<1>3. ASSUME NEW q \in Proofs, CommitProof(q), UNCHANGED batch
      PROVE  Row(p)'
  <2>1. CASE p = q
    <3>1. PICK v \in {"payable", "rejected"} : proof' = [proof EXCEPT ![q].status = v]
      BY <1>3 DEF CommitProof
    <3>2. proof'[p] = [proof[p] EXCEPT !.status = v]
      BY <2>1, <3>1
    <3> QED
      BY <1>00, <1>3, <2>1, <3>2 DEF CommitProof, ProofRow
  <2>2. CASE p # q
    BY <1>00, <1>3, <2>2 DEF CommitProof
  <2> QED
    BY <2>1, <2>2
<1>4. ASSUME NEW b \in Batches, NEW ps \in SUBSET Proofs, NewBatch(b, ps)
      PROVE  Row(p)'
  <2>1. batch' = [batch EXCEPT ![b] = "prepared"] /\ batch[b] = "none"
    BY <1>4 DEF NewBatch
  <2>2. CASE p \in ps
    <3>1. proof[p].status = "payable" /\ proof[p].tx = 0
      BY <1>4, <2>2 DEF NewBatch, Unbatched
    <3>2. proof'[p] = [proof[p] EXCEPT !.batch = b]
      BY <1>4, <2>2 DEF NewBatch
    <3> QED
      BY <2>1, <3>1, <3>2, CompoundAssumption DEF ProofRow
  <2>3. CASE p \notin ps
    BY <1>00, <1>4, <2>1, <2>3 DEF NewBatch
  <2> QED
    BY <2>2, <2>3
<1>5. ASSUME NEW b \in Batches, TakeLock(b), UNCHANGED proof
      PROVE  Row(p)'
  BY <1>00, <1>5 DEF TakeLock
<1>6. ASSUME NEW b \in Batches, NEW txs \in SUBSET Nat, Settles(b, txs)
      PROVE  Row(p)'
  <2>1. batch' = [batch EXCEPT ![b] = "settled"]
    BY <1>6 DEF Settles, MarkPaid
  <2>2. CASE p \in Members(b)
    BY <1>6, <2>1, <2>2, SettlingRows, CompoundAssumption
  <2>3. CASE p \notin Members(b)
    <3>1. proof'[p] = proof[p] /\ proof[p].batch # b
      BY <1>6, <2>3, SettlingRows DEF Members
    <3> QED
      BY <1>00, <2>1, <3>1
  <2> QED
    BY <2>2, <2>3
<1> QED
  BY <1>1, <1>2, <1>3, <1>4, <1>5, <1>6 DEF RowStep, WorkStep

\* A runner at work keeps its plan.
LEMMA RunnerKeepsPlan ==
  ASSUME SettlementTypeOK, NEW r \in Runners,
         Lock(r) \/ WriteState(r) \/ \E a \in Agents : SendTransfer(r, a)
  PROVE  runner'[r].batch = runner[r].batch /\ runner'[r].proofs = runner[r].proofs
<1> USE DEF SettlementTypeOK
<1>1. CASE Lock(r)
  BY <1>1 DEF Lock, Run
<1>2. CASE WriteState(r)
  BY <1>2 DEF WriteState, Run
<1>3. ASSUME NEW a \in Agents, SendTransfer(r, a)
      PROVE  runner'[r].batch = runner[r].batch /\ runner'[r].proofs = runner[r].proofs
  <2>1. runner'[r] = [runner[r] EXCEPT !.due = runner[r].due \ {a},
                                       !.txs = runner[r].txs \cup {Len(sent) + 1}]
    BY <1>3 DEF SendTransfer
  <2> QED
    BY <2>1 DEF Run
<1> QED
  BY <1>1, <1>2, <1>3

\* A step leaves a batch file or a runner as it is, or gives it a whole plan.
LEMMA PlansKept ==
  ASSUME SettlementInv, [SettlementNext]_settlementVars
  PROVE  PlansAreWhole'
<1> USE DEF SettlementInv
<1>0. \A b, ps : Plan(b, ps) => PlanNext(b, ps)
  BY StepsOnRows, PlanKept
<1>1. ASSUME UNCHANGED <<runner, batchFile>>
      PROVE  PlansAreWhole'
  BY <1>0, <1>1 DEF PlansAreWhole, Plan, PlanNext, Members
<1>2. ASSUME NEW h \in Hosts, NEW b \in Batches, NEW ps \in SUBSET Proofs, ExportToFile(h, b, ps)
      PROVE  PlansAreWhole'
  <2>1. PlanNext(b, ps)
    BY <1>2, CreatedIsWhole DEF ExportToFile
  <2>2. UNCHANGED runner /\ batchFile' = [batchFile EXCEPT ![h] = [batch |-> b, proofs |-> ps]]
    BY <1>2 DEF ExportToFile
  <2>3. \A k \in Hosts : batchFile'[k] = IF k = h THEN [batch |-> b, proofs |-> ps] ELSE batchFile[k]
    BY <2>2 DEF SettlementTypeOK
  <2>4. \A k \in Hosts : batchFile'[k] # None => PlanNext(batchFile'[k].batch, batchFile'[k].proofs)
    BY <1>0, <2>1, <2>3 DEF PlansAreWhole
  <2>5. \A q \in Runners : runner'[q].pc # "idle" => PlanNext(runner'[q].batch, runner'[q].proofs)
    BY <1>0, <2>2 DEF PlansAreWhole
  <2> QED
    BY <2>4, <2>5 DEF PlansAreWhole, Plan, PlanNext, Members
<1>3. ASSUME NEW r \in Runners, UNCHANGED batchFile,
             \A q \in Runners \ {r} : runner'[q] = runner[q],
             runner'[r].pc # "idle" => PlanNext(runner'[r].batch, runner'[r].proofs)
      PROVE  PlansAreWhole'
  BY <1>0, <1>3 DEF PlansAreWhole, Plan, PlanNext, Members
<1>4. ASSUME NEW r \in Runners, RunnerStep(r)
      PROVE  PlansAreWhole'
  <2> USE DEF SettlementTypeOK
  <2>1. CASE StartLocal(r)
    <3> DEFINE f == batchFile[HostOf[r]]
    <3>1. Plan(f.batch, f.proofs)
      BY <2>1, SettlementAssumption DEF StartLocal, PlansAreWhole
    <3>2. /\ runner'[r].batch = f.batch /\ runner'[r].proofs = f.proofs
          /\ \A q \in Runners \ {r} : runner'[q] = runner[q]
      BY <2>1 DEF StartLocal, Begin
    <3> QED
      BY <1>0, <1>3, <2>1, <3>1, <3>2 DEF StartLocal
  <2>2. CASE Lock(r) \/ WriteState(r) \/ \E a \in Agents : SendTransfer(r, a)
    <3>1. /\ runner[r].pc # "idle" /\ UNCHANGED batchFile
          /\ \A q \in Runners \ {r} : runner'[q] = runner[q]
      BY <2>2 DEF Lock, WriteState, SendTransfer
    <3>2. runner'[r].batch = runner[r].batch /\ runner'[r].proofs = runner[r].proofs
      BY <2>2, RunnerKeepsPlan
    <3>3. Plan(runner[r].batch, runner[r].proofs)
      BY <3>1 DEF PlansAreWhole
    <3> QED
      BY <1>0, <1>3, <3>1, <3>2, <3>3
  <2>3. CASE LockRefused(r) \/ RecordLocally(r) \/ PostReceipt(r) \/ RunnerDies(r)
    <3>1. /\ runner'[r].pc = "idle" /\ UNCHANGED batchFile
          /\ \A q \in Runners \ {r} : runner'[q] = runner[q]
      BY <2>3 DEF LockRefused, RecordLocally, PostReceipt, RunnerDies, Stopped
    <3> QED
      BY <1>3, <3>1
  <2>4. ASSUME NEW b \in Batches, NEW ps \in SUBSET Proofs, StartRemote(r, b, ps)
        PROVE  PlansAreWhole'
    <3>1. PlanNext(b, ps)
      BY <2>4, CreatedIsWhole DEF StartRemote
    <3>2. CASE UNCHANGED runner
      BY <1>1, <2>4, <3>2 DEF StartRemote
    <3>3. CASE Begin(r, "pay", b, ps)
      <4>1. /\ runner'[r].batch = b /\ runner'[r].proofs = ps
            /\ \A q \in Runners \ {r} : runner'[q] = runner[q]
        BY <3>3 DEF Begin
      <4> QED
        BY <1>3, <2>4, <3>1, <4>1 DEF StartRemote
    <3> QED
      BY <2>4, <3>2, <3>3 DEF StartRemote
  <2> QED
    BY <1>4, <2>1, <2>2, <2>3, <2>4 DEF RunnerStep
<1> QED
  BY <1>1, <1>2, <1>4 DEF SettlementNext, settlementVars, EscrowReleases

\* What each step of a runner does to its process row.
LEMMA RunnerSteps ==
  ASSUME SettlementTypeOK, NEW r \in Runners, RunnerStep(r)
  PROVE  /\ \A q \in Runners \ {r} : runner'[q] = runner[q]
         /\ \/ runner'[r].pc \in {"idle", "lock"} /\ runner'[r].txs = {} /\ UNCHANGED sent
            \/ r \in RemoteRunners /\ runner'[r].pc = "pay" /\ runner'[r].txs = {} /\ UNCHANGED sent
            \/ UNCHANGED <<runner, sent>>
            \/ /\ Lock(r) /\ UNCHANGED sent
               /\ runner'[r] = [runner[r] EXCEPT !.pc = "pay"]
            \/ /\ WriteState(r) /\ UNCHANGED sent
               /\ runner'[r] = [runner[r] EXCEPT !.pc = "report"]
            \/ \E a \in Agents : SendTransfer(r, a)
<1> USE DEF SettlementTypeOK
<1>1. CASE StartLocal(r)
  BY <1>1 DEF StartLocal, Begin
<1>2. CASE Lock(r) \/ WriteState(r)
  BY <1>2 DEF Lock, WriteState
<1>3. CASE LockRefused(r) \/ RecordLocally(r) \/ PostReceipt(r) \/ RunnerDies(r)
  BY <1>3 DEF LockRefused, RecordLocally, PostReceipt, RunnerDies, Stopped
<1>4. CASE \E b \in Batches, ps \in SUBSET Proofs : StartRemote(r, b, ps)
  BY <1>4 DEF StartRemote, Begin
<1>5. CASE \E a \in Agents : SendTransfer(r, a)
  BY <1>5 DEF SendTransfer
<1> QED
  BY <1>1, <1>2, <1>3, <1>4, <1>5 DEF RunnerStep

\* The transfer that SendTransfer adds.
LEMMA OneTransfer ==
  ASSUME SettlementTypeOK, NEW r \in Runners, NEW a \in Agents, SendTransfer(r, a)
  PROVE  LET n == Len(sent) + 1
         IN  /\ DOMAIN sent' = DOMAIN sent \cup {n} /\ n \notin DOMAIN sent
             /\ sent'[n].by = r /\ sent'[n].agent = a
             /\ sent'[n].proofs = {p \in runner[r].proofs : AgentOf[p] = a}
             /\ runner'[r] = [runner[r] EXCEPT !.due = runner[r].due \ {a},
                                                !.txs = runner[r].txs \cup {n}]
<1>1. PICK ok \in BOOLEAN :
        sent' = Append(sent, [by |-> r, agent |-> a, ok |-> ok,
                              proofs |-> {p \in runner[r].proofs : AgentOf[p] = a}])
  BY DEF SendTransfer
<1>2. sent \in Seq(TransferRow)
  BY DEF SettlementTypeOK
<1>3. /\ DOMAIN sent' = DOMAIN sent \cup {Len(sent) + 1} /\ Len(sent) + 1 \notin DOMAIN sent
      /\ sent'[Len(sent) + 1] = [by |-> r, agent |-> a, ok |-> ok,
                                 proofs |-> {p \in runner[r].proofs : AgentOf[p] = a}]
  BY <1>1, <1>2
<1>4. runner'[r] = [runner[r] EXCEPT !.due = runner[r].due \ {a},
                                     !.txs = runner[r].txs \cup {Len(sent) + 1}]
  BY DEF SendTransfer, SettlementTypeOK
<1> QED
  BY <1>3, <1>4

LEMMA HashesKept ==
  ASSUME SettlementInv, [SettlementNext]_settlementVars
  PROVE  HashesAreOwn'
<1> USE DEF SettlementInv
<1> DEFINE Own(r) == \A i \in runner[r].txs :
                       /\ i \in DOMAIN sent
                       /\ sent[i].proofs = {p \in runner[r].proofs : AgentOf[p] = sent[i].agent}
<1>0. SentKept /\ \A r \in Runners : Own(r)
  BY ChainOnlyGrows DEF HashesAreOwn
<1>1. ASSUME NEW r \in Runners, runner'[r] = runner[r]
      PROVE  Own(r)'
  BY <1>0, <1>1 DEF SentKept
<1>2. ASSUME NEW r \in Runners, RunnerStep(r)
      PROVE  Own(r)'
  <2>1. CASE runner'[r].txs = {} \/ UNCHANGED runner
    BY <1>1, <2>1
  <2>2. CASE /\ Lock(r) \/ WriteState(r)
             /\ \E pc \in {"pay", "report"} : runner'[r] = [runner[r] EXCEPT !.pc = pc]
    BY <1>0, <2>2 DEF SentKept, SettlementTypeOK, Run
  <2>3. ASSUME NEW a \in Agents, SendTransfer(r, a)
        PROVE  Own(r)'
    <3> DEFINE n == Len(sent) + 1
    <3>1. runner[r] \in Run
      BY DEF SettlementTypeOK
    <3>2. /\ DOMAIN sent' = DOMAIN sent \cup {n} /\ sent'[n].agent = a
          /\ sent'[n].proofs = {p \in runner[r].proofs : AgentOf[p] = a}
          /\ runner'[r] = [runner[r] EXCEPT !.due = runner[r].due \ {a},
                                             !.txs = runner[r].txs \cup {n}]
      BY <2>3, OneTransfer
    <3> HIDE DEF n
    <3>3. runner'[r].txs = runner[r].txs \cup {n} /\ runner'[r].proofs = runner[r].proofs
      BY <3>1, <3>2 DEF Run
    <3>4. ASSUME NEW i \in runner'[r].txs
          PROVE  /\ i \in DOMAIN sent'
                 /\ sent'[i].proofs = {p \in runner'[r].proofs : AgentOf[p] = sent'[i].agent}
      <4>1. CASE i = n
        BY <3>2, <3>3, <4>1
      <4>2. CASE i \in runner[r].txs
        BY <1>0, <3>3, <4>2 DEF SentKept
      <4> QED
        BY <3>3, <3>4, <4>1, <4>2
    <3> QED
      BY <3>4
  <2> QED
    BY <1>2, <2>1, <2>2, <2>3, RunnerSteps
<1>3. ASSUME NEW r \in Runners, RunnerStep(r), NEW q \in Runners
      PROVE  Own(q)'
  BY <1>1, <1>2, <1>3, RunnerSteps
<1>4. \A q \in Runners : Own(q)'
  BY <1>1, <1>3 DEF SettlementNext, settlementVars, ExportToFile, EscrowReleases
<1> QED
  BY <1>4 DEF HashesAreOwn

LEMMA SentIsTyped ==
  ASSUME SettlementTypeOK
  PROVE  \A i \in DOMAIN sent : sent[i] \in TransferRow
<1>1. sent \in Seq(TransferRow)
  BY DEF SettlementTypeOK
<1> QED
  BY <1>1

LEMMA PaidKept ==
  ASSUME SettlementInv, RowStep, SentKept
  PROVE  PaidProofHasTransfer'
<1> USE DEF SettlementInv, SettlementTypeOK
<1> DEFINE Hash(p, i) == /\ i \in DOMAIN sent /\ sent[i].ok /\ p \in sent[i].proofs
                         /\ sent[i].by \in Runners /\ sent[i].agent = AgentOf[p]
<1>2. \A p \in Proofs : proof[p].status = "paid" => Hash(p, proof[p].tx)
  BY DEF PaidProofHasTransfer, TransfersFor
<1>3. ASSUME NEW p \in Proofs, proof'[p].status = "paid"
      PROVE  proof'[p] = proof[p] \/ Hash(p, proof'[p].tx)
  <2>1. ASSUME NEW b \in Batches, NEW txs \in SUBSET Nat, Settles(b, txs), p \in Members(b)
        PROVE  Hash(p, proof'[p].tx)
    <3>0. proof'[p].tx \in SuccessFor(txs, p)
      BY <2>1, SettlingRows
    <3>1. PICK i \in txs : proof'[p].tx = i /\ sent[i].agent = AgentOf[p] /\ sent[i].ok
      BY <3>0 DEF SuccessFor
    <3>2. i \in DOMAIN sent /\ sent[i].proofs = {q \in Members(b) : AgentOf[q] = sent[i].agent}
      BY <2>1 DEF Settles
    <3>3. sent[i] \in TransferRow
      BY <3>2, SentIsTyped
    <3>4. sent[i].by \in Runners
      BY <3>3 DEF TransferRow
    <3>5. p \in sent[i].proofs
      BY <2>1, <3>1, <3>2
    <3> QED
      BY <3>1, <3>2, <3>4, <3>5
  <2>2. ASSUME NEW b \in Batches, NEW txs \in SUBSET Nat, Settles(b, txs), p \notin Members(b)
        PROVE  proof'[p] = proof[p]
    BY <2>2, SettlingRows
  <2>3. ASSUME WorkStep PROVE proof'[p] = proof[p]
    BY <1>3, <2>3 DEF WorkStep, createCompoundJob, CommitProof, ProofRow
  <2>4. ASSUME NEW b \in Batches, NEW ps \in SUBSET Proofs, NewBatch(b, ps)
        PROVE  proof'[p] = proof[p]
    BY <1>3, <2>4 DEF NewBatch, Unbatched, ProofRow
  <2> QED
    BY <2>1, <2>2, <2>3, <2>4 DEF RowStep
<1>4. \A p \in Proofs : proof'[p].status = "paid" => Hash(p, proof'[p].tx)
  BY <1>2, <1>3
<1>5. \A p \in Proofs : \A i : Hash(p, i) =>
        /\ i \in DOMAIN sent' /\ sent'[i].ok /\ p \in sent'[i].proofs
        /\ sent'[i].by \in Runners /\ sent'[i].agent = AgentOf[p]
  BY DEF SentKept
<1> QED
  BY <1>4, <1>5 DEF PaidProofHasTransfer, TransfersFor

-----------------------------------------------------------------------------
(* The lock.                                                               *)

\* A step gives no lock, gives one on a prepared batch, or pays under one.
LEMMA LocksKept ==
  ASSUME SettlementInv, [SettlementNext]_settlementVars
  PROVE  LocksHold' /\ LocalRunnersPayOnce'
<1> USE DEF SettlementInv
<1> DEFINE Paid(p) == \E i \in DOMAIN sent : sent[i].by \in LocalRunners /\ p \in sent[i].proofs
           Lock1 == \A r \in Runners : Holds(r) => Locked(runner[r].batch)
           Lock2 == \A r, q \in Runners :
                      Holds(r) /\ Holds(q) /\ runner[r].batch = runner[q].batch => r = q
           Lock3 == \A i \in DOMAIN sent : sent[i].by \in LocalRunners =>
                      \A p \in sent[i].proofs : proof[p].batch # None /\ Locked(proof[p].batch)
           Lock4 == \A r \in Runners : Holds(r) =>
                      \A p \in runner[r].proofs : AgentOf[p] \in runner[r].due =>
                        \A i \in DOMAIN sent : sent[i].by \in LocalRunners => p \notin sent[i].proofs
<1>0. Lock1 /\ Lock2 /\ Lock3 /\ Lock4
  BY DEF LocksHold
<1>1. ASSUME Lock1', Lock2', Lock3', Lock4'
      PROVE  LocksHold'
  BY <1>1 DEF LocksHold
<1>2. RowStep /\ SentKept /\ SettlementTypeOK'
  BY StepsOnRows, ChainOnlyGrows, TypeKept
<1>3. /\ \A p \in Proofs : proof[p].batch # None => proof'[p].batch = proof[p].batch
      /\ \A b \in Batches : Locked(b) => Locked(b)'
  BY <1>2, RowsOnlyGrow
<1>4. /\ \A p \in Proofs : proof[p].batch \in Batches \cup {None}
      /\ \A i \in DOMAIN sent : sent[i].proofs \subseteq Proofs
      /\ \A r \in Runners : runner[r].pc # "idle" =>
           runner[r].batch \in Batches /\ runner[r].proofs = Members(runner[r].batch)
  BY SentIsTyped DEF SettlementTypeOK, ProofRow, TransferRow, PlansAreWhole, Plan
<1>5. \A i \in DOMAIN sent : sent[i].by \in LocalRunners =>
        \A p \in sent[i].proofs :
          proof'[p].batch # None /\ batch'[proof'[p].batch] \in {"executing", "settled"}
  BY <1>0, <1>3, <1>4 DEF Locked
<1>6. ASSUME UNCHANGED sent PROVE Lock3' /\ LocalRunnersPayOnce'
  BY <1>5, <1>6 DEF Locked, LocalRunnersPayOnce, TransfersFor
<1>7. ASSUME UNCHANGED sent, NEW r \in Runners, ~Holds(r)',
             \A q \in Runners \ {r} : runner'[q] = runner[q]
      PROVE  LocksHold' /\ LocalRunnersPayOnce'
  <2>1. \A q \in Runners : Holds(q)' => Holds(q) /\ runner'[q] = runner[q]
    BY <1>7 DEF Holds
  <2>2. Lock1'
    BY <1>0, <1>3, <1>4, <2>1 DEF Holds, Locked
  <2>3. Lock2'
    BY <1>0, <2>1
  <2>4. Lock4'
    BY <1>0, <1>7, <2>1
  <2> QED
    BY <1>1, <1>6, <1>7, <2>2, <2>3, <2>4
<1>8. ASSUME UNCHANGED <<runner, sent>>
      PROVE  LocksHold' /\ LocalRunnersPayOnce'
  <2>1. Lock1'
    BY <1>0, <1>3, <1>4, <1>8 DEF Holds, Locked
  <2>2. Lock2' /\ Lock4'
    BY <1>0, <1>8 DEF Holds
  <2> QED
    BY <1>1, <1>6, <1>8, <2>1, <2>2
<1>9. ASSUME NEW r \in Runners, Lock(r), UNCHANGED sent,
             runner'[r] = [runner[r] EXCEPT !.pc = "pay"],
             \A q \in Runners \ {r} : runner'[q] = runner[q]
      PROVE  LocksHold' /\ LocalRunnersPayOnce'
  <2> DEFINE b == runner[r].batch
  <2>1. /\ b \in Batches /\ batch[b] = "prepared" /\ batch'[b] = "executing"
        /\ runner[r].proofs = Members(b)
    BY <1>4, <1>9 DEF Lock, TakeLock, SettlementTypeOK
  <2>2. /\ runner'[r].batch = b /\ runner'[r].proofs = runner[r].proofs
        /\ runner'[r].due = runner[r].due
    BY <1>9 DEF SettlementTypeOK, Run
  <2>3. \A q \in Runners \ {r} : Holds(q)' => Holds(q) /\ runner'[q] = runner[q]
    BY <1>9 DEF Holds
  <2>4. \A q \in Runners \ {r} : Holds(q) => runner[q].batch # b
    BY <1>0, <2>1 DEF Locked
  <2>5. Lock1'
    BY <1>0, <1>3, <1>4, <2>1, <2>2, <2>3 DEF Holds, Locked
  <2>6. Lock2'
    <3>1. \A q \in Runners \ {r} : Holds(q)' => runner'[q].batch # b
      BY <2>3, <2>4
    <3>2. \A q, o \in Runners \ {r} :
            Holds(q)' /\ Holds(o)' /\ runner'[q].batch = runner'[o].batch => q = o
      BY <1>0, <2>3
    <3>3. ASSUME NEW q \in Runners, NEW o \in Runners, Holds(q)', Holds(o)',
                 runner'[q].batch = runner'[o].batch
          PROVE  q = o
      BY <2>2, <3>1, <3>2, <3>3
    <3> QED
      BY <3>3
  <2>7. \A p \in Members(b) : ~Paid(p)
    BY <1>0, <2>1 DEF Members, Locked
  <2>8. Lock4'
    <3>1. ASSUME NEW q \in Runners, Holds(q)', NEW p \in runner'[q].proofs,
                 AgentOf[p] \in runner'[q].due,
                 NEW i \in DOMAIN sent, sent[i].by \in LocalRunners
          PROVE  p \notin sent[i].proofs
      <4>1. CASE q = r
        BY <2>1, <2>2, <2>7, <3>1, <4>1
      <4>2. CASE q # r
        BY <1>0, <2>3, <3>1, <4>2
      <4> QED
        BY <4>1, <4>2
    <3> QED
      BY <1>9, <3>1
  <2> QED
    BY <1>1, <1>6, <1>9, <2>5, <2>6, <2>8
<1>10. ASSUME NEW r \in Runners, WriteState(r), UNCHANGED sent,
              runner'[r] = [runner[r] EXCEPT !.pc = "report"],
              \A q \in Runners \ {r} : runner'[q] = runner[q]
       PROVE  LocksHold' /\ LocalRunnersPayOnce'
  <2>1. /\ runner'[r].batch = runner[r].batch /\ runner'[r].proofs = runner[r].proofs
        /\ runner'[r].due = runner[r].due
    BY <1>10 DEF SettlementTypeOK, Run
  <2>2. \A q \in Runners : Holds(q)' =>
          /\ Holds(q) /\ runner'[q].batch = runner[q].batch
          /\ runner'[q].proofs = runner[q].proofs /\ runner'[q].due = runner[q].due
    BY <1>10, <2>1 DEF Holds, WriteState
  <2>3. Lock1'
    BY <1>0, <1>3, <1>4, <2>2 DEF Holds, Locked
  <2>4. Lock2'
    BY <1>0, <2>2
  <2>5. Lock4'
    BY <1>0, <1>10, <2>2
  <2> QED
    BY <1>1, <1>6, <1>10, <2>3, <2>4, <2>5
<1>11. ASSUME NEW r \in Runners, NEW a \in Agents, SendTransfer(r, a),
              \A q \in Runners \ {r} : runner'[q] = runner[q]
       PROVE  LocksHold' /\ LocalRunnersPayOnce'
  <2> DEFINE n == Len(sent) + 1
  <2>1. /\ DOMAIN sent' = DOMAIN sent \cup {n} /\ n \notin DOMAIN sent
        /\ sent'[n].by = r
        /\ sent'[n].proofs = {p \in runner[r].proofs : AgentOf[p] = a}
        /\ runner'[r] = [runner[r] EXCEPT !.due = runner[r].due \ {a},
                                          !.txs = runner[r].txs \cup {n}]
    BY <1>11, OneTransfer
  <2> HIDE DEF n
  <2>2. /\ runner[r].pc = "pay" /\ runner'[r].pc = "pay" /\ a \in runner[r].due
        /\ runner'[r].batch = runner[r].batch /\ runner'[r].proofs = runner[r].proofs
        /\ runner'[r].due = runner[r].due \ {a}
    BY <1>11, <2>1 DEF SendTransfer, SettlementTypeOK, Run
  <2>3. \A q \in Runners : Holds(q)' =>
          /\ Holds(q) /\ runner'[q].batch = runner[q].batch
          /\ runner'[q].proofs = runner[q].proofs /\ runner'[q].due \subseteq runner[q].due
    BY <1>11, <2>2 DEF Holds
  <2>4. Lock1'
    BY <1>0, <1>3, <1>4, <2>3 DEF Holds, Locked
  <2>5. Lock2'
    BY <1>0, <2>3
  <2>6. \A i \in DOMAIN sent : sent'[i] = sent[i]
    BY <1>2 DEF SentKept
  <2>7. ASSUME r \in LocalRunners, NEW p \in sent'[n].proofs
        PROVE  /\ p \in Proofs /\ proof'[p].batch # None
               /\ batch'[proof'[p].batch] \in {"executing", "settled"}
               /\ ~Paid(p)
               /\ \A q \in Runners \ {r} : Holds(q) => p \notin runner[q].proofs
    <3>1. Holds(r) /\ p \in runner[r].proofs /\ AgentOf[p] = a
      BY <2>1, <2>2, <2>7 DEF Holds
    <3>2. p \in Proofs /\ proof[p].batch = runner[r].batch /\ runner[r].batch \in Batches
      BY <1>4, <2>2, <3>1 DEF Members
    <3>3. batch'[runner[r].batch] \in {"executing", "settled"} /\ runner[r].batch # None
      BY <1>0, <1>3, <3>1, <3>2, CompoundAssumption DEF Locked
    <3>4. proof'[p].batch = runner[r].batch
      BY <1>3, <3>2, <3>3
    <3>5. ~Paid(p)
      BY <1>0, <2>2, <3>1
    <3>6. \A q \in Runners \ {r} : Holds(q) => p \notin runner[q].proofs
      BY <1>0, <1>4, <3>1, <3>2 DEF Members, Holds
    <3> QED
      BY <3>2, <3>3, <3>4, <3>5, <3>6
  <2>8. Lock3'
    <3>1. ASSUME NEW i \in DOMAIN sent', sent'[i].by \in LocalRunners, NEW p \in sent'[i].proofs
          PROVE  proof'[p].batch # None /\ batch'[proof'[p].batch] \in {"executing", "settled"}
      BY <1>5, <2>1, <2>6, <2>7, <3>1
    <3> QED
      BY <3>1 DEF Locked
  <2>9. Lock4'
    <3>1. ASSUME NEW q \in Runners, Holds(q)', NEW p \in runner'[q].proofs,
                 AgentOf[p] \in runner'[q].due,
                 NEW i \in DOMAIN sent', sent'[i].by \in LocalRunners
          PROVE  p \notin sent'[i].proofs
      <4>1. CASE i \in DOMAIN sent
        BY <1>0, <2>3, <2>6, <3>1, <4>1
      <4>2. CASE i = n /\ q = r
        BY <2>1, <2>2, <3>1, <4>2
      <4>3. CASE i = n /\ q # r
        BY <2>1, <2>3, <2>7, <3>1, <4>3
      <4> QED
        BY <2>1, <4>1, <4>2, <4>3
    <3> QED
      BY <3>1
  <2>10. LocalRunnersPayOnce'
    <3>1. ASSUME NEW p \in Proofs, NEW i \in DOMAIN sent', NEW j \in DOMAIN sent',
                 sent'[i].by \in LocalRunners, sent'[j].by \in LocalRunners,
                 p \in sent'[i].proofs, p \in sent'[j].proofs, sent'[i].ok, sent'[j].ok
          PROVE  i = j
      <4>1. CASE i \in DOMAIN sent /\ j \in DOMAIN sent
        BY <2>6, <3>1, <4>1 DEF LocalRunnersPayOnce, TransfersFor
      <4>2. CASE i = n /\ j \in DOMAIN sent
        BY <2>1, <2>6, <2>7, <3>1, <4>2
      <4>3. CASE i \in DOMAIN sent /\ j = n
        BY <2>1, <2>6, <2>7, <3>1, <4>3
      <4> QED
        BY <2>1, <4>1, <4>2, <4>3
    <3> QED
      BY <3>1 DEF LocalRunnersPayOnce, TransfersFor
  <2> QED
    BY <1>1, <2>4, <2>5, <2>8, <2>9, <2>10
<1>12. ASSUME NEW r \in Runners, RunnerStep(r)
       PROVE  LocksHold' /\ LocalRunnersPayOnce'
  BY <1>7, <1>8, <1>9, <1>10, <1>11, <1>12, RunnerSteps, SettlementAssumption DEF Holds
<1> QED
  BY <1>8, <1>12 DEF SettlementNext, settlementVars, ExportToFile, EscrowReleases

-----------------------------------------------------------------------------
(* Compound jobs.                                                          *)

\* All parts accepted is what checkCompoundJobCompletion's count says.
LEMMA CountIsAll ==
  ASSUME SettlementTypeOK, NEW c \in Parents
  PROVE  AllAccepted(c) <=> \A p \in SubsOf(c) : Accepted(p)
<1> DEFINE S == {p \in SubsOf(c) : Accepted(p)}
<1>1. S \subseteq SubsOf(c) /\ IsFiniteSet(SubsOf(c))
  BY SubsAreFinite
<1>2. /\ Cardinality(S) <= Cardinality(SubsOf(c))
      /\ Cardinality(S) = Cardinality(SubsOf(c)) => S = SubsOf(c)
  BY <1>1, FS_Subset
<1>3. Cardinality(S) \in Nat /\ Cardinality(SubsOf(c)) \in Nat
  BY SubsAreFinite
<1>4. AllAccepted(c) <=> S = SubsOf(c)
  BY <1>2, <1>3 DEF AllAccepted
<1> QED
  BY <1>4

\* What a step that is not one of CompoundJobs does to the statuses.
SettlementMoves ==
  /\ UNCHANGED <<compound, unchecked>>
  /\ crashes' = crashes \/ crashes' = crashes + 1
  /\ \A p \in Proofs : proof'[p].status # proof[p].status =>
                        proof[p].status = "payable" /\ proof'[p].status = "paid"

LEMMA RunnersMove ==
  ASSUME SettlementInv, [SettlementNext]_settlementVars
  PROVE  SettlementMoves \/ CompoundNext
<1> USE DEF SettlementInv, SettlementTypeOK
<1>1. ASSUME UNCHANGED <<compound, unchecked>>, crashes' = crashes \/ crashes' = crashes + 1,
             ~CompoundNext
      PROVE  SettlementMoves
  <2>1. RowStep
    BY StepsOnRows
  <2>2. ASSUME NEW b \in Batches, NEW ps \in SUBSET Proofs, NewBatch(b, ps)
        PROVE  SettlementMoves
    BY <1>1, <2>2 DEF NewBatch, ProofRow, SettlementMoves
  <2>3. ASSUME NEW b \in Batches, NEW txs \in SUBSET Nat, Settles(b, txs)
        PROVE  SettlementMoves
    <3>1. \A p \in Members(b) : proof[p].status = "payable" /\ proof'[p].status = "paid"
      BY <2>3, SettlingRows DEF Settles, Recordable
    <3>2. \A p \in Proofs \ Members(b) : proof'[p] = proof[p]
      BY <2>3, SettlingRows
    <3> QED
      BY <1>1, <3>1, <3>2 DEF SettlementMoves
  <2>4. CASE UNCHANGED proof
    BY <1>1, <2>4 DEF SettlementMoves
  <2> QED
    BY <1>1, <2>1, <2>2, <2>3, <2>4 DEF RowStep, WorkStep, CompoundNext
<1>2. ASSUME NEW r \in Runners, RunnerStep(r)
      PROVE  UNCHANGED <<compound, unchecked>> /\ (crashes' = crashes \/ crashes' = crashes + 1)
  BY <1>2 DEF RunnerStep, StartLocal, Lock, LockRefused, StartRemote, SendTransfer, WriteState,
     RecordLocally, PostReceipt, RunnerDies, jobsAndProofs
<1> QED
  BY <1>1, <1>2 DEF SettlementNext, settlementVars, ExportToFile, EscrowReleases, jobsAndProofs

LEMMA VerdictsKept ==
  ASSUME SettlementInv, [SettlementNext]_settlementVars
  PROVE  ChecksAgree' /\ ParentVerdict'
<1> USE DEF SettlementInv
<1> DEFINE St(p) == proof[p].status
           A == \A p \in unchecked : St(p) \in {"payable", "rejected", "paid"}
           B(c) == \A p \in SubsOf(c) : (compound[c].status = "absent") <=> (St(p) = "absent")
           C(c) == \A p \in SubsOf(c) : crashes = 0 /\ p \notin unchecked /\ St(p) = "rejected"
                                         => compound[c].status # "pending"
           D(c) == compound[c].status = "completed" => \A p \in SubsOf(c) : Accepted(p)
           E(c) == compound[c].status = "failed" => \E p \in SubsOf(c) : St(p) = "rejected"
           F(c) == compound[c].status = "pending" /\ crashes = 0 /\ SubsOf(c) \cap unchecked = {}
                     => \E p \in SubsOf(c) : St(p) = "open"
           All(c) == B(c) /\ C(c) /\ D(c) /\ E(c) /\ F(c)
<1>0. A /\ \A c \in Parents : All(c)
  BY DEF ChecksAgree, ParentVerdict
<1>1. ASSUME A', \A c \in Parents : All(c)'
      PROVE  ChecksAgree' /\ ParentVerdict'
  BY <1>1 DEF ChecksAgree, ParentVerdict
<1>2. /\ \A c \in Parents : SubsOf(c) \subseteq Proofs /\ \A p \in SubsOf(c) : ParentOf[p] = c
      /\ unchecked \subseteq Proofs /\ crashes \in Nat
      /\ \A p \in Proofs : St(p) \in {"absent", "open", "payable", "rejected", "paid"}
      /\ \A c \in Parents : compound[c].status \in {"absent", "pending", "completed", "failed"}
  BY DEF SubsOf, SettlementTypeOK, ProofRow, CompoundRow
<1>3. CASE SettlementMoves
  <2>1. A'
    BY <1>0, <1>2, <1>3 DEF SettlementMoves
  <2>2. ASSUME NEW c \in Parents PROVE All(c)'
    <3>1. crashes' = 0 => crashes = 0
      BY <1>2, <1>3 DEF SettlementMoves
    <3>2. UNCHANGED <<compound, unchecked>> /\ SubsOf(c)' = SubsOf(c)
      BY <1>3 DEF SettlementMoves, SubsOf
    <3>3. \A p \in SubsOf(c) :
            /\ \/ St(p)' = St(p)
               \/ St(p) = "payable" /\ St(p)' = "paid"
            /\ Accepted(p) => Accepted(p)'
      BY <1>2, <1>3 DEF SettlementMoves, Accepted
    <3>4. B(c)' /\ C(c)' /\ D(c)'
      BY <1>0, <3>1, <3>2, <3>3
    <3>5. E(c)' /\ F(c)'
      BY <1>0, <3>1, <3>2, <3>3
    <3> QED
      BY <3>4, <3>5
  <2> QED
    BY <1>1, <2>1, <2>2
<1>4. ASSUME NEW d \in Parents, createCompoundJob(d)
      PROVE  ChecksAgree' /\ ParentVerdict'
  <2>1. /\ compound[d].status = "absent" /\ compound'[d].status = "pending"
        /\ \A c \in Parents \ {d} : compound'[c] = compound[c]
        /\ UNCHANGED <<unchecked, crashes>>
    BY <1>4 DEF createCompoundJob, SettlementTypeOK, CompoundRow
  <2>2. /\ \A p \in SubsOf(d) : St(p) = "absent" /\ St(p)' = "open"
        /\ \A p \in Proofs \ SubsOf(d) : proof'[p] = proof[p]
    BY <1>0, <1>2, <1>4, <2>1 DEF createCompoundJob, SettlementTypeOK, ProofRow
  <2>3. SubsOf(d) # {}
    BY <1>4, FS_EmptySet DEF createCompoundJob
  <2>4. A'
    BY <1>0, <1>2, <2>1, <2>2
  <2>5. All(d)'
    BY <1>2, <2>1, <2>2, <2>3 DEF SubsOf
  <2>6. ASSUME NEW c \in Parents, c # d PROVE All(c)'
    <3>1. \A p \in SubsOf(c) : proof'[p] = proof[p]
      BY <1>2, <2>2, <2>6
    <3>2. compound'[c] = compound[c] /\ SubsOf(c)' = SubsOf(c)
      BY <2>1, <2>6 DEF SubsOf
    <3>3. \A p \in SubsOf(c) : Accepted(p)' <=> Accepted(p)
      BY <3>1 DEF Accepted
    <3> QED
      BY <1>0, <2>1, <3>1, <3>2, <3>3
  <2> QED
    BY <1>1, <2>4, <2>5, <2>6
<1>5. ASSUME NEW q \in Proofs, CommitProof(q)
      PROVE  ChecksAgree' /\ ParentVerdict'
  <2>1. /\ St(q) = "open" /\ St(q)' \in {"payable", "rejected"}
        /\ \A p \in Proofs \ {q} : proof'[p] = proof[p]
        /\ unchecked' = unchecked \cup {q} /\ UNCHANGED <<compound, crashes>>
    BY <1>5 DEF CommitProof, SettlementTypeOK, ProofRow
  <2>2. A'
    BY <1>0, <1>2, <2>1
  <2>3. ASSUME NEW c \in Parents PROVE All(c)'
    <3>1. SubsOf(c)' = SubsOf(c)
      BY DEF SubsOf
    <3>2. B(c)' /\ C(c)'
      BY <1>0, <1>2, <2>1, <3>1
    <3>3. D(c)'
      BY <1>0, <1>2, <2>1, <3>1 DEF Accepted
    <3>4. E(c)' /\ F(c)'
      BY <1>0, <1>2, <2>1, <3>1
    <3> QED
      BY <3>2, <3>3, <3>4
  <2> QED
    BY <1>1, <2>2, <2>3
<1>6. ASSUME NEW q \in Proofs, CheckParent(q)
      PROVE  ChecksAgree' /\ ParentVerdict'
  <2> DEFINE e == ParentOf[q]
  <2>1. q \in unchecked /\ unchecked' = unchecked \ {q} /\ UNCHANGED <<proof, crashes>>
    BY <1>6 DEF CheckParent
  <2>2. A'
    BY <1>0, <2>1
  <2>3. \A c \in Parents : SubsOf(c)' = SubsOf(c) /\ \A p \in SubsOf(c) : Accepted(p)' <=> Accepted(p)
    BY <2>1 DEF SubsOf, Accepted
  <2>4. e \in Parents \cup {None} /\ \A c \in Parents : q \in SubsOf(c) <=> c = e
    BY CompoundAssumption DEF SubsOf
  <2>5. ASSUME NEW c \in Parents, compound'[c] = compound[c], c # e \/ compound[c].status # "pending"
        PROVE  All(c)'
    BY <1>0, <2>1, <2>3, <2>4, <2>5
  <2>6. ASSUME e \in Parents, compound[e].status = "pending", Accepted(q), Completion(e)
        PROVE  All(e)'
    <3>1. compound'[e].status = IF AllAccepted(e) THEN "completed" ELSE "pending"
      BY <2>6 DEF Completion, SettlementTypeOK, CompoundRow
    <3>2. AllAccepted(e) <=> \A p \in SubsOf(e) : Accepted(p)
      BY <2>6, CountIsAll
    <3>3. \A p \in SubsOf(e) : St(p) # "absent"
      BY <1>0, <2>6
    <3>4. \A p \in SubsOf(e) : crashes = 0 /\ p \notin unchecked' => St(p) # "rejected"
      BY <1>0, <2>1, <2>6 DEF Accepted
    <3>5. \A p \in SubsOf(e) : ~Accepted(p) => St(p) \in {"open", "rejected"}
      BY <1>2, <2>6, <3>3 DEF Accepted
    <3>6. St(q)' = St(q) /\ \A p \in SubsOf(e) : St(p)' = St(p)
      BY <2>1
    <3>7. B(e)' /\ E(e)'
      BY <2>3, <2>6, <3>1, <3>3, <3>6
    <3>8. C(e)'
      BY <2>1, <2>3, <2>6, <3>4, <3>6
    <3>9. D(e)'
      BY <2>3, <2>6, <3>1, <3>2
    <3>10. F(e)'
      BY <2>1, <2>3, <2>6, <3>1, <3>2, <3>4, <3>5, <3>6
    <3> QED
      BY <3>7, <3>8, <3>9, <3>10
  <2>7. ASSUME e \in Parents, compound[e].status = "pending", ~Accepted(q), Failure(e)
        PROVE  All(e)'
    <3>1. compound'[e].status = "failed"
      BY <2>7 DEF Failure, SettlementTypeOK, CompoundRow
    <3>2. q \in SubsOf(e) /\ St(q) = "rejected"
      BY <1>0, <2>1, <2>4, <2>7 DEF Accepted
    <3>3. \A p \in SubsOf(e) : St(p) # "absent"
      BY <1>0, <2>7
    <3> QED
      BY <2>1, <2>3, <3>1, <3>2, <3>3
  <2>8. CASE UNCHANGED compound /\ (e = None \/ compound[e].status # "pending")
    BY <1>1, <2>2, <2>4, <2>5, <2>8, CompoundAssumption
  <2>9. CASE e # None /\ compound[e].status = "pending"
    <3>1. e \in Parents
      BY <2>4, <2>9
    <3>2. IF Accepted(q) THEN Completion(e) ELSE Failure(e)
      BY <1>6, <2>9 DEF CheckParent
    <3>3. \A c \in Parents : c # e => compound'[c] = compound[c]
      BY <3>1, <3>2 DEF Completion, Failure, SettlementTypeOK
    <3> QED
      BY <1>1, <2>2, <2>5, <2>6, <2>7, <2>9, <3>1, <3>2, <3>3
  <2> QED
    BY <1>6, <2>8, <2>9 DEF CheckParent
<1>7. ASSUME NEW q \in Proofs, LoseCheck(q)
      PROVE  ChecksAgree' /\ ParentVerdict'
  <2>1. unchecked' = unchecked \ {q} /\ UNCHANGED <<proof, compound>> /\ crashes' # 0
    BY <1>2, <1>7 DEF LoseCheck
  <2>2. A'
    BY <1>0, <2>1
  <2>3. ASSUME NEW c \in Parents PROVE All(c)'
    BY <1>0, <2>1 DEF SubsOf, Accepted
  <2> QED
    BY <1>1, <2>2, <2>3
<1> QED
  BY <1>3, <1>4, <1>5, <1>6, <1>7, RunnersMove DEF CompoundNext

-----------------------------------------------------------------------------
(* The theorems.                                                           *)

LEMMA InitHolds == SettlementInit => SettlementInv
<1> SUFFICES ASSUME SettlementInit PROVE SettlementInv
  OBVIOUS
<1> USE DEF SettlementInit, CompoundInit
<1>1. SettlementTypeOK
  <2>1. proof \in [Proofs -> ProofRow] /\ compound \in [Parents -> CompoundRow]
    BY DEF ProofRow, CompoundRow
  <2>2. runner \in [Runners -> Run]
    BY DEF Stopped, Run
  <2>3. unchecked \subseteq Proofs /\ crashes \in 0 .. MaxCrashes /\ escrowPaid \subseteq Proofs
    BY CompoundAssumption
  <2>4. /\ batch \in [Batches -> {"none", "prepared", "executing", "settled"}]
        /\ batchFile \in [Hosts -> Payload \cup {None}]
        /\ stateFile \in [Hosts -> SUBSET Batches]
    OBVIOUS
  <2>5. sent \in Seq(TransferRow) /\ DOMAIN sent = {}
    OBVIOUS
  <2> QED
    BY <2>1, <2>2, <2>3, <2>4, <2>5 DEF SettlementTypeOK
<1>2. \A p \in Proofs : /\ proof[p].batch = None /\ proof[p].tx = 0
                        /\ proof[p].status = IF ParentOf[p] = None THEN "open" ELSE "absent"
  OBVIOUS
<1>3. RowsAgree /\ BatchSettlesWhole
  BY <1>2 DEF RowsAgree, BatchSettlesWhole
<1>4. PlansAreWhole /\ HashesAreOwn
  BY DEF PlansAreWhole, HashesAreOwn, Stopped
<1>5. DOMAIN sent = {}
  OBVIOUS
<1>6. PaidProofHasTransfer /\ LocalRunnersPayOnce
  BY <1>2, <1>5 DEF PaidProofHasTransfer, LocalRunnersPayOnce, TransfersFor
<1>7. LocksHold
  BY <1>5 DEF LocksHold, Holds, Stopped
<1>8. ChecksAgree
  BY <1>2, CompoundAssumption DEF ChecksAgree, SubsOf
<1>9. ParentVerdict
  BY DEF ParentVerdict
<1> QED
  BY <1>1, <1>3, <1>4, <1>6, <1>7, <1>8, <1>9 DEF SettlementInv

LEMMA StepKeeps == SettlementInv /\ [SettlementNext]_settlementVars => SettlementInv'
<1> SUFFICES ASSUME SettlementInv, [SettlementNext]_settlementVars PROVE SettlementInv'
  OBVIOUS
<1>1. RowStep /\ SentKept
  BY StepsOnRows, ChainOnlyGrows DEF SettlementInv
<1>2. RowsAgree' /\ BatchSettlesWhole'
  BY <1>1, RowsAgreeKept DEF SettlementInv
<1>3. PaidProofHasTransfer'
  BY <1>1, PaidKept
<1> QED
  BY <1>2, <1>3, TypeKept, PlansKept, HashesKept, LocksKept, VerdictsKept DEF SettlementInv

THEOREM SettlementHolds == SettlementSpec => []SettlementInv
<1> QED
  BY InitHolds, StepKeeps, PTL DEF SettlementSpec

\* Every column, file and process variable has a value of its domain.
THEOREM SettlementTypeCorrect == SettlementSpec => []SettlementTypeOK
<1>1. SettlementInv => SettlementTypeOK
  BY DEF SettlementInv
<1> QED
  BY <1>1, SettlementHolds, PTL

\* A batch is settled as a whole, whichever of its runners reports it.
THEOREM SettledWhole == SettlementSpec => []BatchSettlesWhole
<1>1. SettlementInv => BatchSettlesWhole
  BY DEF SettlementInv
<1> QED
  BY <1>1, SettlementHolds, PTL

\* The ledger calls no proof paid without a transfer for it.
THEOREM PaidHasTransfer == SettlementSpec => []PaidProofHasTransfer
<1>1. SettlementInv => PaidProofHasTransfer
  BY DEF SettlementInv
<1> QED
  BY <1>1, SettlementHolds, PTL

\* The prepared -> executing lock keeps local runners from paying twice.
THEOREM LocksPreventDoublePay == SettlementSpec => []LocalRunnersPayOnce
<1>1. SettlementInv => LocalRunnersPayOnce
  BY DEF SettlementInv
<1> QED
  BY <1>1, SettlementHolds, PTL

\* The verdict on a compound job is that of its parts.
THEOREM ParentsAgree == SettlementSpec => []ParentVerdict
<1>1. SettlementInv => ParentVerdict
  BY DEF SettlementInv
<1> QED
  BY <1>1, SettlementHolds, PTL

\* No step moves a proof out of its batch.
THEOREM BatchIsKept == SettlementSpec => ProofKeepsItsBatch
<1>1. SettlementInv /\ [SettlementNext]_settlementVars =>
        [\A p \in Proofs : proof[p].batch # None => proof'[p].batch = proof[p].batch]_settlementVars
  <2> SUFFICES ASSUME SettlementInv, [SettlementNext]_settlementVars
               PROVE  \A p \in Proofs : proof[p].batch # None => proof'[p].batch = proof[p].batch
    OBVIOUS
  <2>1. RowStep
    BY StepsOnRows
  <2> QED
    BY <2>1, RowsOnlyGrow DEF SettlementInv
<1> QED
  BY <1>1, SettlementHolds, PTL DEF SettlementSpec, ProofKeepsItsBatch

=============================================================================
