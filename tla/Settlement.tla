----------------------------- MODULE Settlement -----------------------------
(***************************************************************************)
(* Batch settlement on the reserved rail (server/settlement.mjs, the export*)
(* and receipt endpoints, scripts/arc-settle-batch.mjs on the database's   *)
(* host and scripts/remote-settle-batch.mjs anywhere).  A runner pays each *)
(* agent of a batch with one USDC transfer, for all of its proofs; the set *)
(* of proofs stands for the amount.  Only SQLite runs withTransaction, so  *)
(* what it encloses is one step; processes interleave between steps.       *)
(***************************************************************************)
EXTENDS CompoundJobs, Sequences

CONSTANTS
  Agents, AgentOf,     \* agents, and whose proof it is
  LocalRunners,        \* arc-settle-batch processes
  RemoteRunners,       \* remote-settle-batch processes
  Hosts, HostOf,       \* machines: the runners of one share its files
  EscrowRail,          \* proofs of jobs whose reward is in the escrow contract
  MaxTransfers         \* bound: USDC transfers sent

Runners == LocalRunners \cup RemoteRunners

ASSUME SettlementAssumption ==
  /\ AgentOf \in [Proofs -> Agents]
  /\ HostOf \in [Runners -> Hosts]
  /\ LocalRunners \cap RemoteRunners = {}
  /\ EscrowRail \subseteq Proofs
  /\ MaxTransfers \in Nat

VARIABLES
  batch,        \* settlement_batches.status, by batch id
  sent,         \* USDC transfers, in the order they were mined; a hash is an index
  runner,       \* the runner processes
  batchFile,    \* BATCH_FILE of each host: the last export written there
  stateFile,    \* SETTLEMENT_STATE_FILE of each host: batches it calls settled
  escrowPaid    \* proofs whose reward the escrow contract has released

jobsAndProofs  == <<proof, compound, unchecked>>
settlementVars == <<proof, compound, unchecked, crashes, batch, sent, runner, batchFile, stateFile,
                    escrowPaid>>

Payload     == [batch : Batches, proofs : SUBSET Proofs]
TransferRow == [by : Runners, agent : Agents, proofs : SUBSET Proofs, ok : BOOLEAN]
Run         == [pc : {"idle", "lock", "pay", "report"}, batch : Batches \cup {None},
                proofs : SUBSET Proofs, due : SUBSET Agents, txs : SUBSET Nat,
                seen : SUBSET Batches]

Stopped == [pc |-> "idle", batch |-> None, proofs |-> {}, due |-> {}, txs |-> {}, seen |-> {}]

SettlementInit ==
  /\ CompoundInit
  /\ batch = [b \in Batches |-> "none"]
  /\ sent = <<>>
  /\ runner = [r \in Runners |-> Stopped]
  /\ batchFile = [h \in Hosts |-> None]
  /\ stateFile = [h \in Hosts |-> {}]
  /\ escrowPaid = {}

-----------------------------------------------------------------------------
(* Slips: single definitions below, changed the way a bug would.           *)

PayableAnyBatch     == {p \in Proofs : proof[p].status = "payable" /\ proof[p].tx = 0}
LockRestarts(b)     == batch' = [batch EXCEPT ![b] = "preparing"]
LockIsAdvisory(b)   == batch' = [batch EXCEPT ![b] = "executing"]
AnyReceipt(txs, p)  == {i \in txs : sent[i].agent = AgentOf[p]}
BatchRowOnly(b, ps, txs) == batch' = [batch EXCEPT ![b] = "settled"] /\ UNCHANGED proof

-----------------------------------------------------------------------------
(* createSettlementBatch.                                                  *)

\* loadUnbatchedPayableProofs: whatever rail the reward is on
Unbatched == {p \in Proofs : proof[p].status = "payable" /\ proof[p].batch = None /\ proof[p].tx = 0}

\* loadBatchProofs
BatchProofs(b) == {p \in Proofs : proof[p].batch = b /\ proof[p].status = "payable" /\ proof[p].tx = 0}

\* A prepared batch is handed out again; otherwise ps are locked in a new one.
\* Which prepared batch, by id or the issuer's latest, is left open.
createSettlementBatch(b, ps) ==
  \/ batch[b] = "prepared" /\ ps = BatchProofs(b) /\ ps # {} /\ UNCHANGED <<batch, proof>>
  \/ /\ batch[b] = "none" /\ ps # {} /\ ps \subseteq Unbatched
     /\ batch' = [batch EXCEPT ![b] = "prepared"]
     /\ proof' = [p \in Proofs |-> IF p \in ps THEN [proof[p] EXCEPT !.batch = b] ELSE proof[p]]

\* scripts/export-settlement-batch.mjs, run beside the database
ExportToFile(h, b, ps) ==
  /\ \E r \in LocalRunners : HostOf[r] = h
  /\ createSettlementBatch(b, ps)
  /\ batchFile' = [batchFile EXCEPT ![h] = [batch |-> b, proofs |-> ps]]
  /\ UNCHANGED <<compound, unchecked, crashes, sent, runner, stateFile, escrowPaid>>

-----------------------------------------------------------------------------
(* recordSettledBatch.                                                     *)

SuccessFor(txs, p) == {i \in txs : sent[i].agent = AgentOf[p] /\ sent[i].ok}

\* Every proof still payable and covered by a successful transaction to its
\* agent, or the transaction rolls back.
Recordable(b, ps, txs) ==
  /\ batch[b] # "settled"
  /\ \A p \in ps : proof[p].status = "payable" /\ proof[p].tx = 0 /\ SuccessFor(txs, p) # {}

MarkPaid(b, ps, txs) ==
  /\ batch' = [batch EXCEPT ![b] = "settled"]
  /\ proof' = [p \in Proofs |->
                 IF p \in ps
                 THEN [proof[p] EXCEPT !.status = "paid", !.batch = b,
                                       !.tx = CHOOSE i \in SuccessFor(txs, p) : TRUE]
                 ELSE proof[p]]

recordSettledBatch(b, ps, txs) ==
  IF Recordable(b, ps, txs) THEN MarkPaid(b, ps, txs) ELSE UNCHANGED <<batch, proof>>

-----------------------------------------------------------------------------
(* The runners.                                                            *)

Begin(r, pc, b, ps) ==
  runner' = [runner EXCEPT ![r] =
               [pc |-> pc, batch |-> b, proofs |-> ps, due |-> {AgentOf[p] : p \in ps},
                txs |-> {}, seen |-> stateFile[HostOf[r]]]]

\* arc-settle-batch --execute reads the batch file and refuses what its state
\* file or the database calls settled.
StartLocal(r) ==
  /\ runner[r].pc = "idle" /\ r \in LocalRunners
  /\ LET f == batchFile[HostOf[r]]
     IN  /\ f # None /\ f.batch \notin stateFile[HostOf[r]] /\ batch[f.batch] # "settled"
         /\ Begin(r, "lock", f.batch, f.proofs)
  /\ UNCHANGED <<jobsAndProofs, crashes, batch, sent, batchFile, stateFile, escrowPaid>>

\* UPDATE ... SET status = 'executing' ... AND status = 'prepared', one row or stop
TakeLock(b) ==
  /\ batch[b] = "prepared"
  /\ batch' = [batch EXCEPT ![b] = "executing"]

Lock(r) ==
  /\ runner[r].pc = "lock" /\ TakeLock(runner[r].batch)
  /\ runner' = [runner EXCEPT ![r].pc = "pay"]
  /\ UNCHANGED <<jobsAndProofs, crashes, sent, batchFile, stateFile, escrowPaid>>

LockRefused(r) ==
  /\ runner[r].pc = "lock" /\ batch[runner[r].batch] # "prepared"
  /\ runner' = [runner EXCEPT ![r] = Stopped]
  /\ UNCHANGED <<jobsAndProofs, crashes, batch, sent, batchFile, stateFile, escrowPaid>>

\* remote-settle-batch --execute asks the API for a batch, checks its own state
\* file, and pays: it takes no lock.
StartRemote(r, b, ps) ==
  /\ runner[r].pc = "idle" /\ r \in RemoteRunners
  /\ createSettlementBatch(b, ps)
  /\ IF b \in stateFile[HostOf[r]] THEN UNCHANGED runner ELSE Begin(r, "pay", b, ps)
  /\ UNCHANGED <<compound, unchecked, crashes, sent, batchFile, stateFile, escrowPaid>>

\* One transfer and its receipt: a reverted one is noted and the loop goes on.
SendTransfer(r, a) ==
  /\ runner[r].pc = "pay" /\ a \in runner[r].due /\ Len(sent) < MaxTransfers
  /\ \E ok \in BOOLEAN :
       sent' = Append(sent, [by |-> r, agent |-> a, ok |-> ok,
                             proofs |-> {p \in runner[r].proofs : AgentOf[p] = a}])
  /\ runner' = [runner EXCEPT ![r].due = runner[r].due \ {a},
                              ![r].txs = runner[r].txs \cup {Len(sent) + 1}]
  /\ UNCHANGED <<jobsAndProofs, crashes, batch, batchFile, stateFile, escrowPaid>>

\* The state file is written whole, from what was read at the start.
WriteState(r) ==
  /\ runner[r].pc = "pay" /\ runner[r].due = {}
  /\ stateFile' = [stateFile EXCEPT ![HostOf[r]] = runner[r].seen \cup {runner[r].batch}]
  /\ runner' = [runner EXCEPT ![r].pc = "report"]
  /\ UNCHANGED <<jobsAndProofs, crashes, batch, sent, batchFile, escrowPaid>>

\* arc-settle-batch records in the database it has open.
RecordLocally(r) ==
  /\ runner[r].pc = "report" /\ r \in LocalRunners
  /\ recordSettledBatch(runner[r].batch, runner[r].proofs, runner[r].txs)
  /\ runner' = [runner EXCEPT ![r] = Stopped]
  /\ UNCHANGED <<compound, unchecked, crashes, sent, batchFile, stateFile, escrowPaid>>

\* POST /settlement-batches/:batchId/receipt.  It lets an executing batch through,
\* and then asks createSettlementBatch for it, which finds only prepared ones.
ReceiptMatches(b, txs) ==
  /\ batch[b] = "prepared"
  /\ \A i \in txs : sent[i].ok
  /\ {sent[i].agent : i \in txs} = {AgentOf[p] : p \in BatchProofs(b)}

PostReceipt(r) ==
  /\ runner[r].pc = "report" /\ r \in RemoteRunners
  /\ LET b == runner[r].batch
     IN  IF ReceiptMatches(b, runner[r].txs)
         THEN recordSettledBatch(b, BatchProofs(b), runner[r].txs)
         ELSE UNCHANGED <<batch, proof>>
  /\ runner' = [runner EXCEPT ![r] = Stopped]
  /\ UNCHANGED <<compound, unchecked, crashes, sent, batchFile, stateFile, escrowPaid>>

\* A call throws or the machine stops: the hashes a runner holds are gone.
RunnerDies(r) ==
  /\ runner[r].pc # "idle"
  /\ crashes < MaxCrashes /\ crashes' = crashes + 1
  /\ runner' = [runner EXCEPT ![r] = Stopped]
  /\ UNCHANGED <<jobsAndProofs, batch, sent, batchFile, stateFile, escrowPaid>>

\* The other rail (EscrowMarket): the contract releases the reward of a payable
\* proof once, and the receipt changes the job, never the proof.
EscrowReleases(p) ==
  /\ p \in EscrowRail \ escrowPaid /\ proof[p].status = "payable"
  /\ escrowPaid' = escrowPaid \cup {p}
  /\ UNCHANGED <<jobsAndProofs, crashes, batch, sent, runner, batchFile, stateFile>>

-----------------------------------------------------------------------------

RunnerStep(r) ==
  \/ StartLocal(r) \/ Lock(r) \/ LockRefused(r)
  \/ \E b \in Batches, ps \in SUBSET Proofs : StartRemote(r, b, ps)
  \/ (\E a \in Agents : SendTransfer(r, a)) \/ WriteState(r)
  \/ RecordLocally(r) \/ PostReceipt(r) \/ RunnerDies(r)

SettlementNext ==
  \/ CompoundNext /\ UNCHANGED <<batch, sent, runner, batchFile, stateFile, escrowPaid>>
  \/ \E h \in Hosts, b \in Batches, ps \in SUBSET Proofs : ExportToFile(h, b, ps)
  \/ \E r \in Runners : RunnerStep(r)
  \/ \E p \in Proofs : EscrowReleases(p)

SettlementSpec == SettlementInit /\ [][SettlementNext]_settlementVars

-----------------------------------------------------------------------------

\* Every column, file and process variable has a value of its domain.
SettlementTypeOK ==
  /\ proof \in [Proofs -> ProofRow]
  /\ compound \in [Parents -> CompoundRow]
  /\ unchecked \subseteq Proofs /\ crashes \in 0 .. MaxCrashes
  /\ batch \in [Batches -> {"none", "prepared", "executing", "settled"}]
  /\ sent \in Seq(TransferRow)
  /\ runner \in [Runners -> Run]
  /\ batchFile \in [Hosts -> Payload \cup {None}]
  /\ stateFile \in [Hosts -> SUBSET Batches]
  /\ escrowPaid \subseteq Proofs

TransfersFor(p, rs) ==
  {i \in DOMAIN sent : sent[i].ok /\ p \in sent[i].proofs /\ sent[i].by \in rs}

\* However many arc-settle-batch processes run, from whatever files, and
\* wherever they die, no two of their transfers pay for one proof.
LocalRunnersPayOnce ==
  \A p \in Proofs : \A i, j \in TransfersFor(p, LocalRunners) : i = j

\* The ledger calls a proof paid only with the hash of a successful transfer to
\* its agent that counted it.
PaidProofHasTransfer ==
  \A p \in Proofs : proof[p].status = "paid" =>
    /\ proof[p].tx \in TransfersFor(p, Runners)
    /\ sent[proof[p].tx].agent = AgentOf[p]

\* A batch is settled as a whole: its proofs are all paid or all unpaid, and
\* they are paid exactly when it is settled.
BatchSettlesWhole ==
  \A p \in Proofs :
    (proof[p].status = "paid") <=> (proof[p].batch # None /\ batch[proof[p].batch] = "settled")

\* A proof that is in a batch is never moved to another.
ProofKeepsItsBatch ==
  [][\A p \in Proofs : proof[p].batch # None => proof'[p].batch = proof[p].batch]_settlementVars

\* README.md on the batch rail: "Batch locks and settled batch IDs prevent repeat
\* scans from paying the same proof twice."
PaidOnce == \A p \in Proofs : \A i, j \in TransfersFor(p, Runners) : i = j

=============================================================================
