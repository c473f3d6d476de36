---------------------------- MODULE EscrowMarket ----------------------------
(***************************************************************************)
(* A job on the arc_usdc_escrow_v2 rail from its deposit to its payout: the*)
(* contract, the ledger columns the rail uses, the issuer that funds and   *)
(* reports its deposit, and the escrow-v2-auto-release daemons that release*)
(* what the ledger says is payable and report back.  Chain and ledger share*)
(* nothing: each side learns of the other by transaction hashes it checks. *)
(* Claims and proofs are abstract here (ProofletLedger has them): Approve  *)
(* and Reject stand for the proof that closes the job.                     *)
(***************************************************************************)
EXTENDS EscrowV2

CONSTANTS
  Issuers, Agents,   \* accounts that fund jobs, payout addresses
  Desks,             \* fund-from-circle-wallet requests
  Daemons,           \* auto-release processes
  DaemonKey,         \* the account they and the operator's command line sign with
  TxIds,             \* bound: release transactions sent
  MaxCrashes,        \* bound: crashes and rotations of the operator
  None

ASSUME MarketAssumption ==
  /\ Issuers \cup Agents \cup {DaemonKey} \subseteq Accounts
  /\ MaxCrashes \in Nat
  /\ None \notin Jobs \cup TxIds

VARIABLES
  job,       \* the rail's columns of the jobs and proofs tables, by job
  deposits,  \* JobFunded receipts: transaction hashes an issuer can report
  verified,  \* fund-escrow requests that passed verification, before their UPDATE
  tx,        \* release transactions, by id
  desk,      \* the fund-from-circle-wallet requests and what Circle does for them
  daemon,    \* the auto-release processes
  crashes

market == <<job, deposits, verified, tx, desk, daemon, crashes>>
vars   == <<chain, market>>

Deposit   == [job : Jobs, amount : Amounts, expiresAt : 1 .. MaxTime]
RailRow   == [status : {"absent", "awaiting", "open", "approved", "rejected"},
              reward : Amounts \cup {0}, escrow : {"", "funded", "released"},
              fundTx : Deposit \cup {None}, agent : Agents \cup {NoOne}]
TxRow     == [state : {"none", "pending", "ok", "reverted"}, job : Jobs \cup {None},
              agent : Agents \cup {NoOne}, amount : Amounts \cup {0}]
Order     == [pc : {"approve", "ordered", "mined", "lost"}, issuer : Issuers, dep : Deposit]
Process   == [pc : {"idle", "inspect", "send", "wait", "report"}, queue : SUBSET Jobs,
              item : Jobs \cup {None}, seen : Amounts \cup {0}, tx : TxIds \cup {None}]

NoJob == [status |-> "absent", reward |-> 0, escrow |-> "", fundTx |-> None, agent |-> NoOne]
NoTx  == [state |-> "none", job |-> None, agent |-> NoOne, amount |-> 0]
Quiet == [pc |-> "idle", issuer |-> NoOne, dep |-> None]
Idle  == [pc |-> "idle", queue |-> {}, item |-> None, seen |-> 0, tx |-> None]

Init ==
  /\ ChainInit /\ settlementOperator = DaemonKey
  /\ job = [j \in Jobs |-> NoJob]
  /\ deposits = {} /\ verified = {}
  /\ tx = [t \in TxIds |-> NoTx]
  /\ desk = [k \in Desks |-> Quiet]
  /\ daemon = [d \in Daemons |-> Idle]
  /\ crashes = 0

-----------------------------------------------------------------------------
(* Slips: single definitions below, changed the way a bug would.           *)

TrustTheReceipt(j, t, expected) == tx[t].job = j /\ expected \in {NoOne, tx[t].agent}
AnyDeposit(j, dep)         == dep.job = j /\ escrows[j].status = "Funded"
FundedIsEnough(j)          == escrows[j].status = "Funded"
QueueFundedOnly            == {j \in Jobs : job[j].status = "approved" /\ job[j].escrow = "funded"}

-----------------------------------------------------------------------------
(* The issuer.                                                             *)

\* POST /jobs.  The issuer names the rail: a 'reserved' job needs no deposit.
PostJob(j) ==
  /\ job[j] = NoJob
  /\ \E s \in {"awaiting", "open"}, r \in Amounts \ {0} :
       job' = [job EXCEPT ![j].status = s, ![j].reward = r]
  /\ UNCHANGED <<chain, deposits, verified, tx, desk, daemon, crashes>>

\* fundJob from the issuer's wallet, whatever amount and deadline it chooses.
IssuerFunds(i, j) ==
  /\ job[j] # NoJob
  /\ \E amount \in Amounts, expiresAt \in (now + 1) .. MaxTime :
       /\ fundJob(i, j, amount, expiresAt)
       /\ deposits' = deposits \cup {[job |-> j, amount |-> amount, expiresAt |-> expiresAt]}
  /\ UNCHANGED <<job, verified, tx, desk, daemon, crashes>>

\* refundExpired; the ledger is not told.
IssuerReclaims(i, j) ==
  /\ refundExpired(i, j)
  /\ UNCHANGED market

\* verifyFundJobTransaction: the event of the reported transaction, then getEscrow
DepositMatches(j, dep) ==
  /\ dep.job = j /\ dep.amount = job[j].reward
  /\ escrows[j].status = "Funded" /\ escrows[j].amount = job[j].reward

\* POST /jobs/:jobId/fund-escrow up to the end of verification
VerifyDeposit(j) ==
  /\ job[j].status = "awaiting"
  /\ \E dep \in deposits : /\ DepositMatches(j, dep)
                          /\ verified' = verified \cup {[job |-> j, dep |-> dep]}
  /\ UNCHANGED <<chain, job, deposits, tx, desk, daemon, crashes>>

\* UPDATE jobs ... WHERE funding_status = 'awaiting_wallet_funding', or 409
RecordDeposit(v) ==
  /\ verified' = verified \ {v}
  /\ job' = IF job[v.job].status = "awaiting"
            THEN [job EXCEPT ![v.job].status = "open", ![v.job].escrow = "funded",
                             ![v.job].fundTx = v.dep]
            ELSE job
  /\ UNCHANGED <<chain, deposits, tx, desk, daemon, crashes>>

\* The API process dies between the two.
DropDeposit(v) ==
  /\ verified' = verified \ {v}
  /\ UNCHANGED <<chain, job, deposits, tx, desk, daemon, crashes>>

-----------------------------------------------------------------------------
(* POST /jobs/:jobId/fund-from-circle-wallet: Circle signs for the issuer.  *)
(* The issuer may ask again at any time; no request knows of another.       *)

\* The job awaits its deposit and the wallet could pay it; the deadline is set now.
AskCircle(k, i, j) ==
  /\ desk[k] = Quiet
  /\ job[j].status = "awaiting" /\ usdc[i] >= job[j].reward
  /\ \E expiresAt \in (now + 1) .. MaxTime :
       desk' = [desk EXCEPT ![k] =
         [pc |-> "approve", issuer |-> i,
          dep |-> [job |-> j, amount |-> job[j].reward, expiresAt |-> expiresAt]]]
  /\ UNCHANGED <<chain, job, deposits, verified, tx, daemon, crashes>>

\* The allowance is there, or its polling ended: fundJob is ordered.
OrderDeposit(k) ==
  /\ desk[k].pc = "approve"
  /\ desk' = [desk EXCEPT ![k].pc = "ordered"]
  /\ UNCHANGED <<chain, job, deposits, verified, tx, daemon, crashes>>

\* Circle gets the order into a block, perhaps after the request gave up on it.
CircleMines(k) ==
  /\ desk[k].pc \in {"ordered", "lost"}
  /\ fundJob(desk[k].issuer, desk[k].dep.job, desk[k].dep.amount, desk[k].dep.expiresAt)
  /\ deposits' = deposits \cup {desk[k].dep}
  /\ desk' = IF desk[k].pc = "lost" THEN [desk EXCEPT ![k] = Quiet]
             ELSE [desk EXCEPT ![k].pc = "mined"]
  /\ UNCHANGED <<job, verified, tx, daemon, crashes>>

\* FAILED or DENIED: a revert, another request's allowance, or Circle's refusal.
CircleFails(k) ==
  /\ desk[k].pc \in {"approve", "ordered", "lost"}
  /\ desk' = [desk EXCEPT ![k] = Quiet]
  /\ UNCHANGED <<chain, job, deposits, verified, tx, daemon, crashes>>

\* Polling ends without a hash, verification throws, or the API process dies.
GiveUpPolling(k) ==
  /\ desk[k].pc \in {"ordered", "mined"}
  /\ desk' = IF desk[k].pc = "mined" THEN [desk EXCEPT ![k] = Quiet]
             ELSE [desk EXCEPT ![k].pc = "lost"]
  /\ UNCHANGED <<chain, job, deposits, verified, tx, daemon, crashes>>

\* The hash is verified like a reported one; RecordDeposit's UPDATE follows.
VerifyOrder(k) ==
  /\ desk[k].pc = "mined" /\ DepositMatches(desk[k].dep.job, desk[k].dep)
  /\ verified' = verified \cup {[job |-> desk[k].dep.job, dep |-> desk[k].dep]}
  /\ desk' = [desk EXCEPT ![k] = Quiet]
  /\ UNCHANGED <<chain, job, deposits, tx, daemon, crashes>>

-----------------------------------------------------------------------------
(* The ledger's verdict on the work (ProofletLedger, adjudication).        *)

Approve(j) ==
  /\ job[j].status = "open"
  /\ \E a \in Agents : job' = [job EXCEPT ![j].status = "approved", ![j].agent = a]
  /\ UNCHANGED <<chain, deposits, verified, tx, desk, daemon, crashes>>

Reject(j) ==
  /\ job[j].status = "open"
  /\ job' = [job EXCEPT ![j].status = "rejected"]
  /\ UNCHANGED <<chain, deposits, verified, tx, desk, daemon, crashes>>

\* escrow-v2-operator --refund, run for work that was rejected
OperatorRefunds(j) ==
  /\ job[j].status = "rejected"
  /\ refundJob(settlementOperator, j)
  /\ UNCHANGED market

\* escrow-v2-operator --release for approved work, naming the agent and the amount
\* the ledger does; its receipt is posted, or not, by IssuerReports.
OperatorReleases(j) ==
  /\ job[j].status = "approved"
  /\ MayRelease(DaemonKey, j, job[j].agent, job[j].reward)
  /\ \E t \in TxIds :
       /\ tx[t] = NoTx
       /\ tx' = [tx EXCEPT ![t] = [state |-> "pending", job |-> j, agent |-> job[j].agent,
                                  amount |-> job[j].reward]]
  /\ UNCHANGED <<chain, job, deposits, verified, desk, daemon, crashes>>

\* escrow-v2-operator --fund: the operator deposits its own USDC for a job.
OperatorFunds(j) == IssuerFunds(DaemonKey, j)

\* Key rotation: the daemons go on signing with the old key.
RotateOperator ==
  /\ crashes < MaxCrashes /\ crashes' = crashes + 1
  /\ \E a \in Accounts \ {DaemonKey} : transferOperator(settlementOperator, a)
  /\ UNCHANGED <<job, deposits, verified, tx, desk, daemon>>

-----------------------------------------------------------------------------
(* workers/escrow-v2-auto-release.                                         *)

\* GET /escrow/v2/payable
Payable == {j \in Jobs : job[j].status = "approved" /\ job[j].escrow # "released"}

Poll(d) ==
  /\ daemon[d].pc = "idle"
  /\ daemon' = [daemon EXCEPT ![d] = [Idle EXCEPT !.pc = "inspect", !.queue = Payable]]
  /\ UNCHANGED <<chain, job, deposits, verified, tx, desk, crashes>>

\* releaseOne asks the chain: Funded, and with the reward the ledger promises
Releasable(j) == escrows[j].status = "Funded" /\ escrows[j].amount = job[j].reward

Inspect(d, j) ==
  /\ daemon[d].pc = "inspect" /\ j \in daemon[d].queue /\ Releasable(j)
  /\ daemon' = [daemon EXCEPT ![d].pc = "send", ![d].queue = daemon[d].queue \ {j},
                              ![d].item = j, ![d].seen = escrows[j].amount]
  /\ UNCHANGED <<chain, job, deposits, verified, tx, desk, crashes>>

\* releaseOne returns 'skipped', or a call to the chain throws and the tick goes on.
Skip(d, j) ==
  /\ daemon[d].pc = "inspect" /\ j \in daemon[d].queue
  /\ daemon' = [daemon EXCEPT ![d].queue = daemon[d].queue \ {j}]
  /\ UNCHANGED <<chain, job, deposits, verified, tx, desk, crashes>>

Rest(d) ==
  /\ daemon[d].pc = "inspect" /\ daemon[d].queue = {}
  /\ daemon' = [daemon EXCEPT ![d] = Idle]
  /\ UNCHANGED <<chain, job, deposits, verified, tx, desk, crashes>>

\* On with the queue: what releaseOne learnt is dropped.
NextItem(d) ==
  daemon' = [daemon EXCEPT ![d] =
               [Idle EXCEPT !.pc = "inspect", !.queue = daemon[d].queue]]

\* writeContract estimates gas, so a call that would revert is not sent.
CallSucceeds(d) == MayRelease(DaemonKey, daemon[d].item, job[daemon[d].item].agent,
                              daemon[d].seen)

Send(d) ==
  /\ daemon[d].pc = "send" /\ CallSucceeds(d)
  /\ \E t \in TxIds :
       /\ tx[t] = NoTx
       /\ tx' = [tx EXCEPT ![t] =
                   [state |-> "pending", job |-> daemon[d].item,
                    agent |-> job[daemon[d].item].agent, amount |-> daemon[d].seen]]
       /\ daemon' = [daemon EXCEPT ![d].pc = "wait", ![d].tx = t]
  /\ UNCHANGED <<chain, job, deposits, verified, desk, crashes>>

\* The call would revert, or writeContract throws (the end of TxIds, the bound,
\* looks the same).  If it throws after sending: Send, then GiveUpWaiting.
SendFails(d) ==
  /\ daemon[d].pc = "send"
  /\ NextItem(d)
  /\ UNCHANGED <<chain, job, deposits, verified, tx, desk, crashes>>

\* The transaction enters a block: it takes effect or reverts.
MineOk(t) ==
  /\ tx[t].state = "pending"
  /\ release(DaemonKey, tx[t].job, tx[t].agent, tx[t].amount)
  /\ tx' = [tx EXCEPT ![t].state = "ok"]
  /\ UNCHANGED <<job, deposits, verified, desk, daemon, crashes>>

MineReverted(t) ==
  /\ tx[t].state = "pending"
  /\ ~MayRelease(DaemonKey, tx[t].job, tx[t].agent, tx[t].amount)
  /\ tx' = [tx EXCEPT ![t].state = "reverted"]
  /\ UNCHANGED <<chain, job, deposits, verified, desk, daemon, crashes>>

\* waitReceipt: any receipt will do, or the attempts run out.
SeeReceipt(d) ==
  /\ daemon[d].pc = "wait" /\ tx[daemon[d].tx].state \in {"ok", "reverted"}
  /\ daemon' = [daemon EXCEPT ![d].pc = "report"]
  /\ UNCHANGED <<chain, job, deposits, verified, tx, desk, crashes>>

GiveUpWaiting(d) ==
  /\ daemon[d].pc = "wait" /\ tx[daemon[d].tx].state = "pending"
  /\ NextItem(d)
  /\ UNCHANGED <<chain, job, deposits, verified, tx, desk, crashes>>

\* verifyReleaseTransaction: receipt, Released event, the agent the caller expects
\* (NoOne if it names none), getEscrow
ReceiptProves(j, t, expected) ==
  /\ tx[t].state = "ok" /\ tx[t].job = j
  /\ expected \in {NoOne, tx[t].agent}
  /\ escrows[j].status = "Released"

\* POST /jobs/:jobId/escrow-release-receipt; escrow_tx_hash is overwritten.
RecordRelease(j, t, expected) ==
  job' = IF ReceiptProves(j, t, expected)
         THEN [job EXCEPT ![j].escrow = "released", ![j].fundTx = None]
         ELSE job

Report(d) ==
  /\ daemon[d].pc = "report"
  /\ RecordRelease(daemon[d].item, daemon[d].tx, job[daemon[d].item].agent)
  /\ NextItem(d)
  /\ UNCHANGED <<chain, deposits, verified, tx, desk, crashes>>

\* The POST fails: a catch stores the error and the tick goes on.
LoseReport(d) ==
  /\ daemon[d].pc = "report"
  /\ NextItem(d)
  /\ UNCHANGED <<chain, job, deposits, verified, tx, desk, crashes>>

\* The endpoint takes a receipt from anyone, the issuer or the operator, with or without the agent it expects.
IssuerReports(j, t) ==
  /\ tx[t].state # "none"
  /\ \E expected \in Agents \cup {NoOne} : RecordRelease(j, t, expected)
  /\ UNCHANGED <<chain, deposits, verified, tx, desk, daemon, crashes>>

Crash(d) ==
  /\ daemon[d].pc # "idle"
  /\ crashes < MaxCrashes /\ crashes' = crashes + 1
  /\ daemon' = [daemon EXCEPT ![d] = Idle]
  /\ UNCHANGED <<chain, job, deposits, verified, tx, desk>>

-----------------------------------------------------------------------------

Tick == NextBlock /\ UNCHANGED market

DeskStep(k) ==
  \/ \E i \in Issuers, j \in Jobs : AskCircle(k, i, j)
  \/ OrderDeposit(k) \/ CircleMines(k) \/ CircleFails(k)
  \/ GiveUpPolling(k) \/ VerifyOrder(k)

DaemonStep(d) ==
  \/ Poll(d) \/ (\E j \in Jobs : Inspect(d, j) \/ Skip(d, j)) \/ Rest(d)
  \/ Send(d) \/ SendFails(d)
  \/ SeeReceipt(d) \/ GiveUpWaiting(d) \/ Report(d) \/ LoseReport(d)

Mine(t) == MineOk(t) \/ MineReverted(t)

Next ==
  \/ \E j \in Jobs : PostJob(j) \/ VerifyDeposit(j) \/ Approve(j) \/ Reject(j)
                    \/ OperatorRefunds(j) \/ OperatorReleases(j) \/ OperatorFunds(j)
  \/ \E i \in Issuers, j \in Jobs : IssuerFunds(i, j) \/ IssuerReclaims(i, j)
  \/ \E v \in verified : RecordDeposit(v) \/ DropDeposit(v)
  \/ \E k \in Desks : DeskStep(k)
  \/ \E d \in Daemons : DaemonStep(d) \/ Crash(d)
  \/ \E t \in TxIds : Mine(t) \/ \E j \in Jobs : IssuerReports(j, t)
  \/ RotateOperator \/ Tick

Spec == Init /\ [][Next]_vars

\* A daemon keeps running (its loop catches every error and polls again), its
\* calls to the chain do not fail for ever, and blocks are produced.  Nothing makes
\* a report arrive, an issuer act or a receipt wait end before its transaction.
Fairness ==
  /\ \A d \in Daemons : /\ WF_vars(DaemonStep(d)) /\ SF_vars(Send(d))
                         /\ \A j \in Jobs : SF_vars(Inspect(d, j))
  /\ \A t \in TxIds : WF_vars(Mine(t))

FairSpec == Spec /\ Fairness

-----------------------------------------------------------------------------

\* Every column, balance and process variable has a value of its domain.
TypeOK ==
  /\ escrows \in [Jobs -> EscrowRow]
  /\ usdc \in [Accounts \cup {Contract} -> Nat]
  /\ settlementOperator \in Accounts /\ now \in 0 .. MaxTime
  /\ job \in [Jobs -> RailRow]
  /\ deposits \subseteq Deposit
  /\ verified \subseteq [job : Jobs, dep : Deposit]
  /\ tx \in [TxIds -> TxRow]
  /\ desk \in [Desks -> Order \cup {Quiet}]
  /\ daemon \in [Daemons -> Process]
  /\ crashes \in 0 .. MaxCrashes

\* Money leaves the contract for an agent only as the ledger decided: the
\* approved agent of that job, for the reward it was promised.
PaysApprovedAgent ==
  \A j \in InStatus("Released") :
    /\ job[j].status = "approved"
    /\ escrows[j].agent = job[j].agent /\ escrows[j].amount = job[j].reward

\* The ledger never says 'released' of a job the contract has not paid.
LedgerReleaseIsReal ==
  \A j \in Jobs : job[j].escrow = "released" => escrows[j].status = "Released"

\* Until the deadline of the deposit it recorded, a job the ledger calls funded
\* is backed by its whole reward, or has been paid; work that was rejected may
\* have been refunded.
FundedJobIsBacked ==
  \A j \in Jobs :
    job[j].escrow = "funded" /\ job[j].status # "rejected" /\ now <= job[j].fundTx.expiresAt =>
      /\ escrows[j].status \in {"Funded", "Released"}
      /\ escrows[j].amount = job[j].reward

\* Approved work whose deposit is there is paid, unless the deadline passes or
\* the operator key is rotated first; crashes, lost reports and a second daemon
\* only delay it.
Due(j) == /\ job[j].status = "approved" /\ Releasable(j)
          /\ ~Expired(j) /\ settlementOperator = DaemonKey

PaidOrLapsed(j) == \/ escrows[j].status = "Released"
                   \/ Expired(j) \/ settlementOperator # DaemonKey

ApprovedWorkIsReleased == \A j \in Jobs : Due(j) ~> PaidOrLapsed(j)

\* escrow-v2-auto-release.mjs on a job it finds released: "Already released
\* on-chain - sync ledger."  The ledger learns of every release in the end.
LedgerCatchesUp ==
  \A j \in Jobs : escrows[j].status = "Released" ~> job[j].escrow = "released"

=============================================================================
