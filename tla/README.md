# Prooflet in TLA+

Models of the Prooflet protocol, their TLC runs, and TLAPS proofs about them.
Prooflet is a job market for agents: an Express API over a SQLite or Postgres
ledger (`src/server`), a Solidity escrow (`src/contracts/EscrowV2.sol`) and
operator processes that move money (`src/workers`, `src/scripts`).

## The system

| Part | State it keeps | Operations | Talks to |
|---|---|---|---|
| Job, claim and proof ledger (`server/api.mjs`, `db.mjs`, `storage/repositories`) | `jobs`, `job_claims`, `proofs` | post, fund, claim, submit a proof, sweep expired leases | every other part, through these tables |
| Verifier and access policy (`verifiers.mjs`, `access-policy.mjs`) | none | verdict on a proof, eligibility of an agent | called by the ledger |
| Escrow V2 contract (`contracts/EscrowV2.sol`) | an escrow per job, USDC | `fundJob`, `release`, `refundJob`, `refundExpired`, `transferOperator` | called by issuers and operators |
| Escrow receipts (`escrow-v2.mjs`, `issuer-escrow-fund.mjs`, `api.mjs`) | `jobs.escrow_status`, `escrow_tx_hash` | verify a deposit or a release on chain, then write it | chain, ledger |
| Auto-release daemon (`workers/escrow-v2-auto-release.mjs`) | one tick's queue | poll payable work, inspect, release, wait, report | ledger API, chain |
| Batch settlement (`settlement.mjs`, `arc-settle-batch`, `remote-settle-batch`, `settlement-daemon`) | `settlement_batches`, `settlement_transactions`, a state file | prepare, lock, transfer, record | ledger, chain |
| Adjudication (`server/adjudication`), GenLayer contract (`contracts/genlayer`) | `adjudication_*`, `genlayer_*` tables; verdicts on the GenLayer network | manual decision; GenLayer submit, sync, finalize | ledger, GenLayer network |
| Reputation (`reputation.mjs`) | events, per-agent summary | append, rebuild, backfill | called after commits of the ledger |
| Compound jobs (`compound-jobs.mjs`) | parent and sub-jobs | create, complete, fail | called after a proof |
| Access payments (`circle-nanopayment.mjs`, gateway and verify endpoints) | `job_access_payments` | settle or find a fee, record it, check it before a claim | Circle Gateway, chain |
| Agent workers (`workers/*.mjs`, `packages`) | a candidate queue, a job in hand | list, rank, claim, perform, prove | ledger API |
| Storage (`storage/*`, `db.mjs`) | a pool or a file handle | query, transaction, close | all of the server |
| Database files (`sqlite-backup.mjs`, migrations) | files, `schema_migrations` | back up, restore, migrate | whoever opens the database |
| Identity (`auth`, `wallet-session`, registration endpoints) | issuers, agents, API keys, nonces | register, provision a wallet, sign in | Circle, every endpoint |
| Uploads (`uploads.mjs`) and the issuer page (`issuer-workbench.js`) | previews; the session of a page | validate, confirm; connect, refresh | ledger API |
| Dashboard (`app.js`) | what the page shows, and why | load, retry, replay | ledger API |
| Escrow V1 (`contracts/Escrow.sol`, `settlement-operator.mjs`) | an escrow per slot | deposit, release, refund | its operator, chain |

What makes it hard:

- *Interleaving.* On Postgres every statement is awaited, so two handlers
  interleave between any two statements that are not in one
  `appStore.transaction`. The lease sweep runs outside every transaction, the
  proof handler reads job, claim and fingerprint before the transaction that
  writes, and some of its UPDATEs do not look at what they overwrite.
- *Two dialects.* On SQLite a handler runs to its end, but the unique index on
  active claims does not exist.
- *Two sources of truth.* Chain and ledger share nothing but transaction hashes
  that somebody has to report.
- *Failure.* Processes die, reports get lost, receipts time out, keys rotate,
  several daemons run at once; a file operation fails half-way through a restore.
- *Late answers.* A verdict, a page's request or a timer arrives when whoever
  asked has moved on.

What must hold, by part: in the ledger, one agent at a time holds a job, a
verdict closes it once and for all, an expired lease reopens it and a late proof
is refused; in the contract, no deposit is paid twice, lost, or refunded to
somebody else; between the two, money goes only to the agent the ledger
approved, for the promised reward, and the ledger claims no deposit and no
release the chain does not have; a batch is paid once and recorded whole; a
verdict rests on a recorded decision, is given once and counts once; a fee buys
one access; a claim is answered and a job that can be done is done; a key is
earned; the data outlives a failing restore; a page shows what its source says.

PROJECT.json lists every component with its status, and every hazard at its line.

## Modules

| Module | What it is |
|---|---|
| `JobBoard` | what the ledger promises, without requests, statements or tables |
| `ProofletLedger` | jobs, claims, proofs and the sweep, one action per statement or transaction |
| `LedgerBoard` | its tables read as a `JobBoard`: the refinement mapping |
| `MCLedger` | its instances |
| `ProofletLedgerProofs` | theorems about it, and that it implements `JobBoard` |
| `EscrowV2` | the contract: one action per external function, and time |
| `EscrowMarket` | the contract composed with issuer, ledger columns, operator and daemons |
| `MCEscrow` | its instances |
| `FiniteSums` | facts about sums over finite sets, for the books of both contracts |
| `EscrowMarketProofs` | theorems about contract and market |
| `CompoundJobs` | proofs as settlement sees them, and the verdict on a parent job |
| `Settlement` | extends it by batches, runners, their files and the transfers |
| `SettlementProofs` | theorems about both |
| `Adjudication` | manual and GenLayer verdicts, the contract, reputation events |
| `AdjudicationProofs` | its theorems |
| `Identity` | registration, custodial wallets, wallet sessions, API keys |
| `IdentityProofs` | its theorem |
| `DatabaseFiles` | backup, restore and migrations of the SQLite file |
| `Dashboard`, `IssuerPage` | the two browser pages, and the uploads behind the second |
| `EscrowV1` | the first contract and its operator's command line |
| `MCSettlement`, `MCBackOffice` | instances of the seven services above |
| `BackOfficeProofs` | theorems about files, pages, the first contract, and the seven together |
| `AgentWorkers` | the loops of the four workers against the board |
| `AccessPayments` | fees, the two endpoints that accept them, and their rows |
| `ConnectionPool` | the Postgres pool and the SQLite queue of transactions |
| `MCAgents` | instances of the three modules above |
| `AgentsProofs` | theorems about the three, and about them together |

`JobBoard` is refined by `ProofletLedger`. `EscrowMarket` composes the contract, the
ledger's columns and the daemons; `Settlement` composes the batch rail, compound
jobs and, for rewards on both rails, the releases of the escrow.
`MCBackOffice` and `MCAgents` put services side by side that share no row: a
behaviour picks one at the start, so the state counts add up instead of
multiplying, and an invariant about one service is about every behaviour of it.

Each component has a section "Slips": variants of single definitions, changed the
way a bug would change them. No specification uses them. Each property is known
to fail when its slip replaces the definition (PROJECT.json, `mutants`), which
shows that the property depends on the code and is reached by the run.

### ProofletLedger

A request is a slot with a program counter and the values it has read; `Idle` is
a slot without a request. Tables are functions from ids to rows, with `NoJob`,
`NoClaim` and `NoProof` for "no such row".

| Action | Code |
|---|---|
| `SelectExpired`, `ExpireClaims`, `ReopenJobs` | the three statements of `expireLeases` (`db.mjs`), called first by `GET /jobs`, claim and proof |
| `ReadForClaim` | the checks of `claim-job`: eligibility, lease count, job open and funded, access paid |
| `CommitClaim` / `RefuseClaim` | the transaction around `claimJob`, or its rollback |
| `ReadJobForProof`, `ReadClaim`, `ReadFingerprint` | the reads of `POST /jobs/:jobId/proof`, in order |
| `CommitProof` / `RefuseProof` | its transaction (proof, claim, job), or the 409 |
| `RecordReputation` | what runs after the commit, as far as later claims look at it |
| `LeaseLapses` | the clock passes `lease_expires_at` |
| `Fail` | the handler is cut short |

Abstractions. A fingerprint is a member of `Payloads`, and the verifier is the set
`GoodPayloads` it approves. Capability, reward limit and access level of an agent
for a job are the constant relation `Eligible`. Reads that follow each other
before a claim are one action; what they saw can still be stale when it
commits. `now` of a sweep is taken with its SELECT. A claim that names no job
picks one of the eligible ones. The transaction of a proof is one step, since
Postgres holds the row locks; an abort is `Fail`. A refused claim on SQLite rolls
its sweep back, which the model does not: it keeps more behaviours. `Fail` cuts
one request short, a process crash is several of them.
A draft that is already reserved can be opened by nobody, in the code as here.

With `Requests` a singleton the module is the local SQLite deployment; with two
it is the hosted one.

### EscrowV2 and EscrowMarket

A call a `require` refuses is an action whose guard is false. `Transfer` stands
for ERC-20 `transfer`/`transferFrom`, with allowances granted. `EscrowMarket` adds
the ledger's columns for the rail `arc_usdc_escrow_v2`, the set `deposits` of
hashes an issuer can report, `verified` for funding requests between
verification and UPDATE, the release transactions with their receipts, the
`desk` of `fund-from-circle-wallet` requests with what Circle still owes each of
them, and the daemons.

| Action | Code |
|---|---|
| `VerifyDeposit`, `RecordDeposit`, `DropDeposit` | `fund-escrow`: verification, conditional UPDATE, or a crash between |
| `AskCircle`, `OrderDeposit`, `VerifyOrder` | `fund-from-circle-wallet`: its checks, the order of `fundJob`, verification (then `RecordDeposit`) |
| `CircleMines`, `CircleFails`, `GiveUpPolling` | what comes of an order: Circle may serve it after the request gave up, and the issuer may have asked again |
| `Poll` … `LoseReport` | `tick` and `releaseOne`, one action per call out |
| `MineOk`, `MineReverted` | a block takes the transaction |
| `RecordRelease` in `Report`, `IssuerReports` | `escrow-release-receipt` after `verifyReleaseTransaction` |
| `OperatorReleases`, `OperatorFunds`, `OperatorRefunds` | `escrow-v2-operator --release`, `--fund`, `--refund` |
| `IssuerReclaims` | `refundExpired`, which the ledger never hears of |

Assumptions. Work is approved or rejected once per job (the races that lead there
are `ProofletLedger`'s). A payout address is present and does not change after
approval. The operator refunds only rejected work and releases only approved work, to the
agent and for the reward in the ledger. The command line checks none of this: it
compares an `--amount` with the deposit, and without one pays whatever was
deposited. So these are rules for its user. Allowances are not modelled: a
`fundJob` whose allowance another request replaced is an order Circle fails.
On-chain verification is on. A
`writeContract` that throws after it has broadcast is `Send` followed by
`GiveUpWaiting`; failing calls to the chain are `Skip` and `SendFails`. Amounts
stay far below 2^256.

### CompoundJobs and Settlement

A job takes one proof here, so a proof stands for its job. The set of proofs a
transfer pays for stands for its amount.

| Action | Code |
|---|---|
| `createCompoundJob`, `CommitProof`, `CheckParent`, `LoseCheck` | `POST /jobs/compound`; a proof's commit and, after it, `checkCompoundJobCompletion` or `...Failure`, unless the process dies between |
| `ExportToFile` | `export-settlement-batch`: `createSettlementBatch`, then the file |
| `StartLocal`, `Lock`, `LockRefused`, `RecordLocally` | `arc-settle-batch --execute`: its checks, `prepared -> executing`, `recordSettledBatch` |
| `StartRemote`, `PostReceipt` | `remote-settle-batch --execute`: the batch endpoint and the receipt endpoint |
| `SendTransfer`, `WriteState`, `RunnerDies` | both scripts' payment loop and state file |
| `EscrowReleases` | the other rail pays a proof that is payable here as well |

Which prepared batch is handed out again is left open, so is the subset of payable
proofs a new one takes. Only SQLite runs `withTransaction`, so what it encloses is
one step and the module has no Postgres side. `settlement-daemon` validates the
promise `createSettlementBatch` returns, reads fields that are not there and stops:
it never settles anything and is not an action.

### Adjudication

| Action | Code |
|---|---|
| `Prepare`, `SendCall`, `RecordSubmitted`, `FlagSubmitted` | `submitGenLayerProof`, one action per statement or network call |
| `StartSync`, `Ask`, `Demote`, `FlagDemoted` | `syncGenLayerRequest`, `updatePending`, `markFailed` |
| `Decide` ... `CloseJob` | `finalizeDecision`, one action per statement |
| `AppendEvent`, `ReadEvents`, `WriteSummary` | `appendReputationEvent`, `rebuildAgentReputation` |
| `DecideManually` | `decideProof`, one synchronous transaction |
| `Adjudicate` | the contract: consensus on a verdict, or an execution error |
| `Restart` | the API dies and starts, with or without the backfill |

`postgres` is chosen at the start. With SQLite a request runs until it waits for
the network (`Turn`); the manual adjudicator exists there only. The evidence and the
prompt are a free choice of verdict. Scores and risk flags, which are computed from
the events, are left out: what matters is which events a summary was computed from.

### Identity, DatabaseFiles

`Identity`: one action per awaited call of the registration, wallet and session
endpoints. A principal is bound to one address and named like it. A signature is
right or wrong by choice; a nonce is its number. `DatabaseFiles`: one action per
file operation of a restore, each of which may throw (`RestoreThrows`, then the
catch block `UndoInstall`, `UndoMain`, `UndoWal`) or be the last (`RestoreDies`).
Content is where it came from: the old database, a new one, the backup. The log
travels beside the database. Migrations are numbered; their SQL is left out. A backup
keeps the migrations of the database it was made from (`packed`), which may be fewer
than those in use by the time it is installed; the latter wait in `aside` with the file
that was moved away.

### Dashboard, IssuerPage, EscrowV1

`Dashboard`: `hydrateFromApi` with its retries (`FetchFails`, `FetchAnswers`,
`Hydrate`), what it starts and does not wait for (`LeaderboardAnswers`,
`PanelAnswers`), the replay with its timers (`RunCycle`, `TimerFires`). A page is
where its rows came from (`from`, `by`) and which generations of timers wrote to it.
`IssuerPage`: the session (`ConnectIssuer`, `ClearIssuer`), `refresh` and
`ConfirmUpload` as they end, whatever session there is by then, and the API side of
an upload. `EscrowV1`: the external functions of the contract, and `ToolReads` and
`ToolSends`, the two steps of its command line with everything that may happen
between. The contract accepts any address but 0 as agent or operator, its own
included: a release to itself leaves the money where it is. `Gives` is a
plain ERC-20 transfer to it. What rendering does with a row is left out of both pages.

### AgentWorkers, AccessPayments, ConnectionPool

`AgentWorkers`: an action per request a loop makes, and `RequestLost` or an
unanswered `Claim` for what may happen to it; the API's side is one step, since its
races are `ProofletLedger`'s. A queue is the set of candidates left, tried in the
order of the worker's ranking, which is fixed. What a worker can do is a relation between its
program and a job's kind and input. A claim is refused as `claim-job` does: a job not open, not
funded (`unfunded` is open and listed, but waits for its deposit), above the worker's
level or past its leases, or not paid for. The level comes from a record that others
write (`Rerated`, between the values in `Ratings`); a job's `Grade` is the level it
asks for. A lease may run out at any time, also under a worker that is at work.
`AccessPayments`: the scan of the last 500
blocks, the Gateway's settlement before the handler, the look-up and the insert are
steps of their own; anybody may settle at the Gateway (the handler refuses a payer that
is not the agent), and the payment may come without a transaction id (`named`), which
skips the look-up and keeps what the row had in that column. A fee is a number, and an
address's transfers a sequence of which the first `window` are too old. `ConnectionPool`: `Arrive` and `ReadInClaim` ask for
a connection, `Connect` hands one to the head of the line, `ConnectTimesOut` is the
ten-second limit; on SQLite `Enqueue`, `RunNext`, `CloseStore`, `HandleCloses`.

## Runs

| Run | Question | Result |
|---|---|---|
| `LedgerSerial` | one handler at a time on SQLite, cut short anywhere: do jobs and claims agree, are duplicates, limits and late proofs handled, is it a `JobBoard`? | holds |
| `LedgerConcurrent` | two handlers interleaving on Postgres: what survives every race? | holds |
| `LedgerLiveness` | does a lapsed lease reopen its job, and does every lease end, with failures anywhere but between the sweep's two UPDATEs? | holds |
| `LedgerLateProof` | is a late proof refused with two handlers? | violated, see below |
| `LedgerStranded` | does a lapsed lease reopen its job if the sweep may fail between its UPDATEs? | violated |
| `EscrowMarket` | do contract and ledger agree, whatever races, crashes and rotations? | holds |
| `EscrowTwoJobs` | can one job's deposit pay for another, with two jobs and two issuers? | holds: never |
| `EscrowLiveness` | is approved, funded work released? | holds |
| `EscrowSync` | does the ledger learn of every release? | violated |
| `BackOffice` | settlement, adjudication, identity, files, pages, first contract: does each keep its promises under races, crashes and late answers? | holds |
| `Agents` | is the best job a worker can do proved, does every access have its own fee, is every claim answered? | holds |
| `PaidTwice` | do batch locks keep a proof from being paid twice? | violated |

`BackOffice` takes two minutes and three quarters (about 1.8 million states), `Agents` one
and a half, the others seconds to a minute.

Findings:

1. *Late proofs.* `docs/SECURITY.md:41` says expired leases reopen work and
   reject late proof submission. The lease is checked at `api.mjs:843` and not
   again; a proof whose handler is past that line is recorded after another
   request has expired its claim. What still holds, and is proved: the job is
   closed by it for good and the claim it rests on is its own.
2. *Stranded jobs.* `db.mjs:117-127` expires claims and reopens jobs in two
   statements without a transaction. After a failure between them the job
   stays claimed for ever: later sweeps look for active claims.
3. *Unsynced releases.* `escrow-v2-auto-release.mjs:118-120` says "sync ledger"
   of a job that is already released and only skips it. A release whose report was
   lost stays in the payable queue; the money is safe (the contract pays once).
4. *Paid twice.* `README.md:216` says batch locks and settled batch ids prevent
   paying the same proof twice. `remote-settle-batch` takes no lock: two operators on
   different machines get the same prepared batch and both pay it. What holds, and is
   proved: local runners, which take the lock, pay no proof twice
   (`LocalRunnersPayOnce`), and the ledger records one of the payments.

### What the code does without promising otherwise

Read and modelled (or read only, where the module is named under "Not modelled"),
but no property: nothing in the repository says otherwise, or the fix is a product
decision.

- Ledger: fingerprints and leases are checked, then written (`api.mjs:847`, `750`), so
  with two handlers `ReusedPayloadRejected` and `LeaseLimit` fail; both are checked
  with one handler.
- Settlement: the receipt endpoint believes the runner, it does not look at the chain,
  so `PaidProofHasTransfer` rests on runners that report what they sent; after a crash between lock and record a batch stays `executing`;
  `settlement_transactions` keeps one row per hash; a proof can be payable on both
  rails; sub-proofs of a compound job are payable one by one.
- Adjudication: a failed GenLayer request is terminal; after a crash between the
  decision row and the proof update the proof stays pending for ever; on Postgres two
  rebuilds of a summary may lose an event until the next one.
- Workers: three of the four stop a cycle at the first 402, so one unpaid job blocks
  those behind it; a job a worker cannot do keeps its only lease until it runs out;
  the analyst pays its fee before it knows whether the claim is granted. Nothing makes
  a lease outlast the work: `link-sentinel` asks for `max(60, timeout + 20)` seconds from
  the grant on (`link-sentinel.mjs:131`), while the claim's answer, the fetch and the proof
  may each take the whole timeout; with the default of 20 seconds they end together.
- Access: a fee the Gateway has settled before the handler refuses is lost, which includes
  one of a payer that is not the agent; a payment without a transaction id is recorded
  with NULL, where the unique index cannot tell it from another; a second
  job's transfer is not found while an older one is within the 500 blocks.
- Identity: sessions that read one nonce together each get a key, although
  `auth-wallet.mjs:136` calls it one-time (`KeysAreEarned` is about nonces used up before
  a session read them); a DELETE by address
  may hit a newer nonce; a 409 leaves a Circle wallet to nobody; two provisions of a
  wallet, the last one wins; a failing `agent_registered` event loses the new key.
- Files: if removing the copy of the log, or the directory sync, fails after the copy
  of the database was removed, the catch block deletes the installed database as well
  (`DataSurvives` then rests on the backup that was found valid); a crash
  between the two renames leaves database and log apart, and the next start creates an
  empty database.
- Pages: a timer of an old replay resets `running`; the Escrow V2 panel may show a
  replay's proofs in live mode; on the issuer page an old answer renders the
  previous issuer's rows, and an old `connect` that fails ends a newer session.
- First contract: the tool prints success for a reverted receipt, and may release to
  agent than it printed after a refund and a new deposit in between; two job
  ids that agree in their first 32 bytes share a slot; a release to the contract itself
  is final and leaves the money inside for good.

## Bounds

Two jobs and two agents let a sweep, a claim and a proof concern the same or
different jobs and agents; a third claim lets a job be claimed, expire and be
claimed again while the other is held, so that the late second UPDATE of a sweep can
reopen a job under its new claim. Two requests give every pairwise race;
`LedgerConcurrent` has a single good payload, since verdicts do not affect its
properties beyond "verified or not" (a second proof is a duplicate). In the
escrow, two daemons and two transactions give the double release, two amounts the
mismatch between deposit and reward, and `MaxTime = 3` two deadlines and a
moment past both, so that a deposit can be reclaimed and replaced.
`MaxCrashes = 1` allows a crash or a rotation of the operator key. With one job the
balance of the contract would stop a second payment by itself; `EscrowTwoJobs`
has another deposit it could be taken from, and an operator with USDC of its own to fund
a job with. `EscrowMarket` has one desk, whose order may outlive the request and race the
issuer's own deposit.

`BackOffice`. Settlement: two local runners and a remote one on two machines, two
batches, two proofs of two agents, two transfers and a crash: two runners on one
batch, one runner on two, a transfer whose runner dies, and a second attempt.
Adjudication: two proofs of one agent (whose summary two requests rebuild), two
requests (a submit and a sync, or two syncs) and a restart. Identity: an issuer and an
agent, two requests, two nonces (so a DELETE may hit a newer one), one wallet, two keys.
Files: one backup of the first or the second version, one restore, two processes that
migrate through two versions. Dashboard: four versions, two cycles
of timers: a load, a replay, a load and a replay again, each with answers of the ones
before. Issuer page: two issuers, one upload of two rows, so that an id may be taken
before or after a row that is not. First contract: three job ids on two slots, two
processes, a deposit as long as there are fewer than three events (deposit, refund, deposit,
release), and one plain transfer to the contract.

`Agents`. Two workers (one of them `--once`) and two jobs: the best one, and one the first
worker wants, fails at and leaves with its only lease; its level moves between refused, one lease and
three. Three agents, two of whom share a payout address, two requests, two fees. Three callers on a pool of two connections: two claims may hold
both and wait.

Symmetry is used in safety runs only, over values no constant tells apart;
`LedgerSerial` also checks `ImplementsJobBoard` and `LateProofRefused`, and
`BackOffice` two action properties, which are safety and treat symmetric values alike.
In `BackOffice` batches and proofs under adjudication are the same two model values, and
local runners and requests another two: no behaviour has both, and the group of
permutations, which every state pays for, stays at four.
Ledger and market runs check deadlock: requests can always sweep and daemons always
poll. In `BackOffice`, `Agents` and `PaidTwice` the system may stop: every
runner has ended, every proof has its verdict, a `--once` worker is done, or a bound
has run out.

## Fairness

In the ledger, requests keep coming (agents poll `GET /jobs`, which
sweeps) and a handler that started is run on: weak fairness of the handlers. The
sweep's statements have strong fairness, since one sweep may fail but not every
one does. `EveryLeaseEnds` also asks that time passes for every lease (weak fairness of
`LeaseLapses`). In the market, a daemon's loop catches every error and polls again
(weak fairness of its steps), its calls to the chain do not all fail (strong
fairness of `Inspect` and `Send`), and blocks are produced. Nothing makes a
report arrive, an issuer act or a wait outlast its transaction.

`CrewFairness`: `pollForever` catches every error and goes on, so a worker in the
middle of its work finishes it and a refused claim is acted on (weak fairness of
`Perform` and `ClaimRefused`); leases lapse (weak); a request may be lost any number
of times, not always (strong fairness of `List`, an answered `Claim` and
`SubmitProof`). `BestJobServed` asks it of the job a worker ranks first: others may
starve behind it, as listed above. It has two premises about what nobody controls: from some
time on the worker's record admits it to the job, and its leases on it end before the proof only
finitely often. Without either one TLC finds the job refused, or its work overtaken, for
ever. The analyst is left out, whose LLM may always fail.
`PoolFairness`: a query ends or `query_timeout` ends it, the connect timer fires, a
free connection goes to the head of the line, SQLite's queue runs on. Nothing is
assumed of who arrives. `EveryClaimEnds` depends on the timeout: two claims that hold
both connections are each answered with an error after ten seconds.

## Proofs

`tlapm` on each of the `...Proofs` modules and on `FiniteSums` checks every step. The
theorems hold for any sets of jobs, agents, requests, daemons, runners, batches, proofs,
uploads, restores, slots and any bounds that meet the named assumptions
(`LedgerAssumption`, `EscrowAssumption` with its finite set of jobs,
`MarketAssumption`, `CompoundAssumption` with its finite set of proofs,
`SettlementAssumption`, `AdjudicationAssumption`, `IdentityAssumption`,
`FilesAssumption`, `DashboardAssumption`, `PageAssumption`, `EscrowV1Assumption` with
its finite set of slots, `CrewAssumption`, `AccessAssumption`, `PoolAssumption` with its
finite set of callers). Every invariant and every action property of a passing run is
a theorem, the refinement of `JobBoard` included.

*Ledger, any number of handlers.* `Invariance` proves `IInv`, and from it `TypeOK`,
`ProofClosesJob`, `ProofRestsOnItsClaim` and `HolderHasClaim`. The invariants are not inductive alone. A proof commits on what its
handler read earlier, so `SlotsFilled` says what a slot knows at each point: the
claim it read exists and is that agent's on that job (a claim never changes hands,
though its status may change under the request). `RowsLinked` is the foreign keys.
`ClosedIsFunded` keeps `FundJob`, the other way to open a job, off closed jobs. A
`submitted` claim is out of reach of every sweep, which is what carries
`ProofRestsOnItsClaim` over interleavings.

*Ledger, one handler at a time.* The other properties fail when handlers interleave
(the findings show how), so their theorems assume `OneAtATime`, which is what SQLite gives a
deployment. `SerialInvariance` proves `SerialInv`, whose core is `UpToDate`: what the one
request in progress has read of jobs, claims and fingerprints is still so when it
acts on it, wherever it is. From it `ActiveClaimHoldsJob`, `JobAgreesWithItsProof`,
`ReusedPayloadRejected`, `LeaseLimit` and, as an action property, `LateProofRefused`
(`ProofsNeedActiveClaims`: the claim is active in the table when its proof is recorded; a
lease that ends after the check at `api.mjs:843`, with no sweep since, still takes it).
`LedgerIsJobBoard` goes step by step: a commit of a claim, an expiry or a proof is a
`Claim`, an `Expire` or a `Prove` of the board, every other statement shows
nothing. The holder of a job is read off its active claims (there is one at most), and the
lease count of the board, which counts jobs, is at most the ledger's, which counts
claims.

*Market.* `MarketInvariance` proves `MarketInv`, and from it `TypeOK`,
`PaysApprovedAgent`, `LedgerReleaseIsReal` and `FundedJobIsBacked`. The strengthening
follows the promise through its copies: a queue holds approved jobs only, an item
being released carries the reward the daemon saw, a transaction names the approved
agent and the reward, and an approved job's agent and reward never change. So a
transaction that was sent long ago, by either daemon, is still right when it is
mined. For `FundedJobIsBacked`, every deposit ever reported is still held or released
until its own deadline, unless its work was rejected (`DepositsAreHeld`: nothing else
can take it out of the contract), and what was verified or recorded is a deposit of
the whole reward (`DepositsCoverReward`). So it does not matter how long the UPDATE
comes after the verification.

`ContractIsSolvent` and `NoMoneyIsLost` are about sums over all jobs. `BooksFollow` is
the lemma both rest on: a step moves the money of one escrow, so each sum
changes by what that escrow does and everything else stays. The new parts of the
invariant say that a posted job has its reward, a funded escrow its issuer and a desk
its order. What `FiniteSums` states of a sum (a term can be taken out, the order does not
matter, one term changes) would be an induction over the set; it is proved by a smallest counterexample instead,
which needs no induction theorem.

*Settlement.* `InvariantHolds` proves `SettlementInv`. `RowsAgree` ties the columns of
a proof to its batch: payable proofs of a batch are those of a batch not settled yet.
`PlansAreWhole` says of every file and every runner that what it holds for a batch is
exactly that batch, because a prepared batch is handed out whole and never grows.
`HashesAreOwn` says a hash a runner will report is of a transfer it sent for the proofs
it holds. With these a receipt either covers every proof of its batch or is refused, so
`SettledWhole` and `PaidHasTransfer` follow, and `BatchIsKept` as an action property.
`LocksHold` (an executing batch has had at most one local runner, the only one past its
lock, and nothing makes it prepared again) gives `LocksPreventDoublePay`:
crashed runners take their lock with them. `ChecksAgree` says what has become of a parent whose
checks are done, so the order of the checks does not matter for `ParentsAgree`; that
counting accepted sub-proofs finds them all accepted is the one step that needs a finite
set of proofs.

*Adjudication.* `InvariantHolds` proves `AdjudicationInv`. `HandlerInv` says what a
request may rely on at each statement, although everything it read may have changed;
`ProofInv` relates the rows of one proof; `OneEach` says that one request at most sent
the call of a proof and one at most holds its decision (the UNIQUE constraint is what
makes it so); `Serial` says that on SQLite one request at most is between two network
waits; `SummariesFollow` is `VerdictCountsOnce` with the rebuild that is under way. The
step lemmas split the handler's actions into quiet ones, which no verdict depends on,
and the few that give one. From it `VerdictRestsOnDecision`, `VerdictIsOne`,
`CountedOnce` and, as an action property, `VerdictStands`.

*Files.* `FilesInv` says for each stage of a restore where the database it found is
(`MainAt`), where its log is (`WalAt`), and which flags the stage can have (`InOrder`);
`OneRestore`, that one runs at a time, which is a rule for whoever runs the command, as is
that it runs on a closed database. So whatever operation throws, the catch block puts back exactly what was found, and `OldKept`
follows from the order of the stages: what was moved away is dropped only after the
backup was found valid. `OncePerVersion` is the migrations' part, and `CopiesTidy` says the same of the schema a backup
or a file moved away carries, which is what an installed backup brings. `OldDataSurvives` is
for any number of restores, of which the run has one. It says of the log only what the catch
block puts back: a crash between the two renames leaves database and log apart.

*Pages.* `DashInv` adds `OneSource` to `ShownIsCurrent`: only the latest load may still
be loading, and nothing of a later version exists yet, so an answer of any other
version finds itself superseded. `PageInv` is the type invariant and `UploadsBecomeJobsOnce`
themselves: a confirmation acts on what the upload is when it is handled, not on what the page showed.

*First contract.* `V1Inv` says that the last event of a slot tells what the slot is
(`Tells`) and that deposits and payments alternate (`Alternates`); the balance follows
the slots, what was given and what was paid to the contract itself, hence the events. `EventsAccount` takes the sum over the slots from `FiniteSums`.

*Access.* `AccessInv` says that fees are numbered in the order they are paid
(`FeesInOrder`), that what a request found of a fee is still so when it records it
(`VisitRests`: a transfer stays on the chain, a Gateway settlement keeps its payer), that
a row rests on a fee its agent's address paid (`RowRests`), and
that no transaction is in two rows. The last is not what the requests check, since that check may
be stale; it is the unique indexes that refuse the later row. `FeesBuyOnce` follows.

*Identity.* `IdentityInv` says of each request that what it holds stays its own
(`DoorRests`): the wallet made for it, and the nonce it read, which is stored for nobody
else and, once it is deleted, not at all. `NoncesRest` adds that a nonce is stored for one
address at a time and is gone before the key it grants is stored, and `KeysInOrder` that a
new key replaces none. `KeysComeFromTheirOwner` follows.

*Workers and connections.* `CrewInv`: an unanswered claim leaves a lease behind, and
still nobody has more than the highest level its record reaches allows (`LeasesKept`),
because the API counts and not the worker. A level that falls takes no lease away, so the
level of the moment would not do.
`PoolInv`: whoever waits is in the line once, wherever in it those stood who gave up,
and the connections of requests, transactions and reads inside transactions never add up
to more than the pool (`PoolLimit`).

*Side by side.* `MCBackOffice` and `MCAgents` compose services that share no row; their
`TypeCorrect` says that the invariants of all of them hold together, from one
step lemma per service.

Only model-checked: what holds under fairness (`LapsedLeaseReopens`, `EveryLeaseEnds`,
`ApprovedWorkIsReleased`, `BestJobServed`, `EveryClaimEnds`), which is out of the provers'
reach.

## Done and left

The plan is carried out: the ledger with its abstract board, the contract and the
market, settlement with compound jobs and both rails, adjudication with reputation,
access payments, the pool, workers, identity, files, pages and the first contract.
Every safety property of the runs is a theorem. What would come next: ledger, market and
settlement in one model.

## Not modelled

- USDC allowances, and the approve transactions that set them; plain ERC-20 transfers to
  Escrow V2, which `Solvency` and `EveryoneWhole` leave out: with one the contract holds that
  much more than its escrows, and no function pays it out.
- `POST /escrow/deposit`, `/release` and `/refund` (`api.mjs:1080-1109`): UPDATEs by an
  authenticated operator, without a check against the chain.
- Reputation scores, risk flags and access levels computed from the events: arithmetic
  on rows, a constant relation for the ledger (`Eligible`), any level of `Ratings` for the
  workers.
- What the verifiers look at in a payload: a set of payloads they approve.
- Adjudicator keys, faucets and key revocation: single statements.
- Rendering of both pages, the issuer page's wallet panel and funding buttons;
  `agent-workbench.js`, which no page imports; `repositories/settlement.mjs`, which no
  program uses.
- The wording of requests and responses, validation of their fields, rate limits and
  logging.
- Seed data and the filter that hides demo agents; acceptance, demo and deployment
  scripts: one-off tools over the same endpoints.
