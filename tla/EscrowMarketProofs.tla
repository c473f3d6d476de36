------------------------- MODULE EscrowMarketProofs -------------------------
(***************************************************************************)
(* For any number of jobs, daemons and transactions: the contract pays the *)
(* approved agent the promised reward or nobody, the ledger reports only   *)
(* releases that happened, and a job it calls funded is backed until the   *)
(* deadline of its deposit.                                                *)
(***************************************************************************)
EXTENDS EscrowMarket, FiniteSums, TLAPS

\* A daemon that is past Inspect, and every transaction sent, carries the
\* approval the ledger showed: the agent and the reward cannot change since.
Approved(j, agent, amount) ==
  /\ j \in Jobs /\ job[j].status = "approved"
  /\ agent = job[j].agent /\ amount = job[j].reward /\ agent \in Agents

CarriesApproval ==
  /\ \A d \in Daemons : \A j \in daemon[d].queue : job[j].status = "approved"
  /\ \A d \in Daemons : daemon[d].pc \in {"send", "wait", "report"} =>
       Approved(daemon[d].item, job[daemon[d].item].agent, daemon[d].seen)
  /\ \A d \in Daemons : daemon[d].pc \in {"wait", "report"} => daemon[d].tx \in TxIds
  /\ \A t \in TxIds : tx[t].state # "none" => Approved(tx[t].job, tx[t].agent, tx[t].amount)

\* An approved job names its agent.
ApprovedHasAgent == \A j \in Jobs : job[j].status = "approved" => job[j].agent \in Agents

\* The contract still holds every deposit whose deadline has not passed, or has
\* released it, unless the work was rejected.
Backs(dep) ==
  now <= dep.expiresAt /\ job[dep.job].status # "rejected" =>
    /\ escrows[dep.job].status \in {"Funded", "Released"}
    /\ escrows[dep.job].amount = dep.amount /\ escrows[dep.job].expiresAt = dep.expiresAt

DepositsAreHeld == \A dep \in deposits : Backs(dep)

\* What fund-escrow verified and what it recorded is a deposit of the whole reward.
DepositsCoverReward ==
  /\ \A v \in verified : /\ v.dep \in deposits /\ v.dep.job = v.job
                         /\ v.dep.amount = job[v.job].reward
  /\ \A j \in Jobs : job[j].escrow = "funded" =>
       /\ job[j].fundTx \in deposits /\ job[j].fundTx.job = j
       /\ job[j].fundTx.amount = job[j].reward

\* Deposits exist for posted jobs only, whose reward is settled.
DepositsArePosted ==
  /\ \A dep \in deposits : job[dep.job].status # "absent"
  /\ \A j \in Jobs : job[j].status = "absent" => job[j] = NoJob

\* A posted job promises an amount callers name; a held deposit has its issuer.
PostedHasReward == \A j \in Jobs : job[j].status # "absent" => job[j].reward \in Amounts
FundedHasIssuer == \A j \in Jobs : escrows[j].status = "Funded" => escrows[j].issuer \in Accounts

\* A fund-from-circle-wallet request orders the reward of a posted job, and after
\* "mined" its deposit is on chain.
DesksHaveOrders ==
  /\ \A k \in Desks : desk[k] # Quiet => /\ job[desk[k].dep.job].status # "absent"
                                        /\ desk[k].dep.amount = job[desk[k].dep.job].reward
  /\ \A k \in Desks : desk[k].pc = "mined" => desk[k].dep \in deposits

MarketInv ==
  /\ TypeOK /\ CarriesApproval /\ ApprovedHasAgent
  /\ PostedHasReward /\ FundedHasIssuer /\ DesksHaveOrders
  /\ DepositsAreHeld /\ DepositsCoverReward /\ DepositsArePosted
  /\ PaysApprovedAgent /\ LedgerReleaseIsReal

-----------------------------------------------------------------------------
(* The type invariant, variable by variable.                               *)

\* Amounts callers name, and the zero of an empty row, are natural numbers.
LEMMA AmountsAreNatural == \A a \in Amounts \cup {0} : a \in Nat
  BY EscrowAssumption

\* The fields of a deposit's receipt, one domain each.
LEMMA DepositFields ==
  ASSUME NEW dep \in Deposit
  PROVE  dep.job \in Jobs /\ dep.amount \in Nat /\ dep.expiresAt \in Nat
<1>1. dep.job \in Jobs /\ dep.amount \in Amounts /\ dep.expiresAt \in 1 .. MaxTime
  BY DEF Deposit
<1>2. dep.amount \in Nat
  BY <1>1, AmountsAreNatural
<1>3. dep.expiresAt \in Nat
  BY <1>1, EscrowAssumption
<1> QED BY <1>1, <1>2, <1>3

\* The fields of a transaction row, one domain each.
LEMMA TxFields ==
  ASSUME NEW r \in TxRow
  PROVE  /\ r.state \in {"none", "pending", "ok", "reverted"}
         /\ r.job \in Jobs \cup {None} /\ r.agent \in Agents \cup {NoOne}
         /\ r.amount \in Amounts \cup {0}
  BY DEF TxRow

\* The fields of a daemon, one domain each.
LEMMA ProcessFields ==
  ASSUME NEW r \in Process
  PROVE  /\ r.pc \in {"idle", "inspect", "send", "wait", "report"} /\ r.queue \subseteq Jobs
         /\ r.item \in Jobs \cup {None} /\ r.seen \in Amounts \cup {0}
         /\ r.tx \in TxIds \cup {None}
  BY DEF Process

\* The columns of a job on the rail, one domain each.
LEMMA RailFields ==
  ASSUME NEW r \in RailRow
  PROVE  /\ r.status \in {"absent", "awaiting", "open", "approved", "rejected"}
         /\ r.reward \in Amounts \cup {0} /\ r.escrow \in {"", "funded", "released"}
         /\ r.fundTx \in Deposit \cup {None} /\ r.agent \in Agents \cup {NoOne}
  BY DEF RailRow

\* A job that was never posted.
LEMMA NoJobFields ==
  NoJob.status = "absent" /\ NoJob.escrow = "" /\ NoJob.agent = NoOne
  BY DEF NoJob

\* The chain and the ledger start typed.
LEMMA MarketTypeInit == Init => TypeOK
<1> SUFFICES ASSUME Init PROVE TypeOK
  OBVIOUS
<1>1. NoEscrow \in EscrowRow
  BY DEF NoEscrow, EscrowRow, EscrowStatus
<1>2. NoJob \in RailRow
  BY DEF NoJob, RailRow
<1>10. desk \in [Desks -> Order \cup {Quiet}]
  BY DEF Init
<1>3. NoTx \in TxRow /\ Idle \in Process
  BY DEF NoTx, TxRow, Idle, Process
<1>4. usdc \in [Accounts \cup {Contract} -> Nat]
  BY EscrowAssumption DEF Init, ChainInit
<1>5. escrows \in [Jobs -> EscrowRow]
  BY <1>1 DEF Init, ChainInit
<1>6. settlementOperator \in Accounts /\ now \in 0 .. MaxTime
  BY EscrowAssumption DEF Init, ChainInit
<1>7. job \in [Jobs -> RailRow] /\ tx \in [TxIds -> TxRow] /\ daemon \in [Daemons -> Process]
  BY <1>2, <1>3 DEF Init
<1>8. deposits \subseteq Deposit /\ verified \subseteq [job : Jobs, dep : Deposit]
  BY DEF Init
<1>9. crashes \in 0 .. MaxCrashes
  BY MarketAssumption DEF Init
<1> QED
  BY <1>4, <1>5, <1>6, <1>7, <1>8, <1>9, <1>10 DEF TypeOK

\* A USDC transfer never takes a balance below zero.
LEMMA TransferTyped ==
  ASSUME usdc \in [Accounts \cup {Contract} -> Nat],
         NEW from \in Accounts \cup {Contract}, NEW to, NEW amount \in Nat,
         Transfer(from, to, amount)
  PROVE  usdc' \in [Accounts \cup {Contract} -> Nat]
<1> DEFINE Holders == Accounts \cup {Contract}
           paid    == [usdc EXCEPT ![from] = usdc[from] - amount]
<1>1. usdc[from] - amount \in Nat
  BY DEF Transfer
<1>2. paid \in [Holders -> Nat]
  BY <1>1
<1>3. usdc' = [paid EXCEPT ![to] = usdc[to] + amount]
  BY DEF Transfer
<1>4. to \in Holders => usdc[to] + amount \in Nat
  OBVIOUS
<1> QED
  BY <1>2, <1>3, <1>4

-----------------------------------------------------------------------------
(* What a step can do on chain.                                            *)

DepositMade(i, dep) ==
  /\ fundJob(i, dep.job, dep.amount, dep.expiresAt)
  /\ deposits' = deposits \cup {dep}
  /\ job' = job /\ job[dep.job] # NoJob

RefundMade(caller, j) ==
  /\ Refund(caller, j) /\ deposits' = deposits
  /\ Expired(j) \/ job[j].status = "rejected"

\* A block, a key rotation, or nothing at all.
ClockOrKey ==
  /\ UNCHANGED <<escrows, usdc, deposits>>
  /\ settlementOperator' \in Accounts /\ now' \in now .. MaxTime

ChainMoves ==
  \/ ClockOrKey
  \/ \E i \in Accounts, dep \in Deposit : DepositMade(i, dep)
  \/ \E caller \in Accounts, j \in Jobs : RefundMade(caller, j)
  \/ \E t \in TxIds : MineOk(t)

\* An order of a desk is an issuer's, for a deposit.
LEMMA OrderFields ==
  ASSUME NEW r \in Order \cup {Quiet}
  PROVE  /\ r # Quiet => /\ r \in Order /\ r.issuer \in Issuers /\ r.dep \in Deposit
                         /\ r.pc \in {"approve", "ordered", "mined", "lost"}
         /\ r.pc # "idle" => r # Quiet
  BY DEF Order, Quiet

\* What every step does on chain is one of ChainMoves.
LEMMA ChainStep ==
  ASSUME TypeOK, DesksHaveOrders, [Next]_vars
  PROVE  ChainMoves
<1> USE DEF TypeOK
<1>0. now \in now .. MaxTime
  BY EscrowAssumption
<1>1. CASE UNCHANGED <<chain, deposits>>
  BY <1>0, <1>1 DEF chain, ChainMoves, ClockOrKey
<1>2. ASSUME NEW i \in Accounts, NEW j \in Jobs, IssuerFunds(i, j) PROVE ChainMoves
  <2>1. PICK amount \in Amounts, expiresAt \in (now + 1) .. MaxTime :
          /\ fundJob(i, j, amount, expiresAt)
          /\ deposits' = deposits \cup {[job |-> j, amount |-> amount, expiresAt |-> expiresAt]}
    BY <1>2 DEF IssuerFunds
  <2> DEFINE dep == [job |-> j, amount |-> amount, expiresAt |-> expiresAt]
  <2>2. expiresAt \in 1 .. MaxTime
    BY <2>1, EscrowAssumption
  <2>3. dep \in Deposit
    BY <2>1, <2>2 DEF Deposit
  <2>4. DepositMade(i, dep)
    BY <1>2, <2>1 DEF DepositMade, IssuerFunds
  <2> QED BY <2>3, <2>4 DEF ChainMoves
<1>3. ASSUME NEW k \in Desks, CircleMines(k) PROVE ChainMoves
  <2>1. desk[k] # Quiet /\ desk[k].issuer \in Accounts /\ desk[k].dep \in Deposit
    BY <1>3, OrderFields, MarketAssumption DEF CircleMines
  <2>2. DepositMade(desk[k].issuer, desk[k].dep)
    BY <1>3, <2>1, NoJobFields DEF DepositMade, CircleMines, DesksHaveOrders
  <2> QED BY <2>1, <2>2 DEF ChainMoves
<1>4. ASSUME NEW i \in Issuers, NEW j \in Jobs, IssuerReclaims(i, j) PROVE ChainMoves
  <2>1. i \in Accounts
    BY MarketAssumption
  <2>2. RefundMade(i, j)
    BY <1>4 DEF IssuerReclaims, refundExpired, RefundMade, market
  <2> QED BY <2>1, <2>2 DEF ChainMoves
<1>5. ASSUME NEW j \in Jobs, OperatorRefunds(j) PROVE ChainMoves
  <2>1. RefundMade(settlementOperator, j)
    BY <1>5 DEF OperatorRefunds, refundJob, RefundMade, market
  <2> QED BY <2>1 DEF ChainMoves
<1>6. ASSUME RotateOperator PROVE ChainMoves
  BY <1>0, <1>6 DEF RotateOperator, transferOperator, ChainMoves, ClockOrKey
<1>7. ASSUME Tick PROVE ChainMoves
  <2>1. now' \in now .. MaxTime
    BY <1>7, EscrowAssumption DEF Tick, NextBlock
  <2> QED BY <1>7, <2>1 DEF Tick, NextBlock, market, ChainMoves, ClockOrKey
<1>8. ASSUME NEW t \in TxIds, MineOk(t) PROVE ChainMoves
  BY <1>8 DEF ChainMoves
<1>9. ASSUME NEW j \in Jobs, OperatorFunds(j) PROVE ChainMoves
  BY <1>2, <1>9, MarketAssumption DEF OperatorFunds
<1>10. ASSUME NEW i \in Issuers, NEW j \in Jobs, IssuerFunds(i, j) PROVE ChainMoves
  BY <1>2, <1>10, MarketAssumption
<1>11. CASE UNCHANGED vars
  BY <1>1, <1>11 DEF vars, market
<1>12. ASSUME NEW j \in Jobs,
              PostJob(j) \/ VerifyDeposit(j) \/ Approve(j) \/ Reject(j) \/ OperatorReleases(j)
       PROVE  ChainMoves
  BY <1>1, <1>12 DEF PostJob, VerifyDeposit, Approve, Reject, OperatorReleases
<1>13. ASSUME NEW v \in verified, RecordDeposit(v) \/ DropDeposit(v) PROVE ChainMoves
  BY <1>1, <1>13 DEF RecordDeposit, DropDeposit
<1>14. ASSUME NEW k \in Desks, DeskStep(k) PROVE ChainMoves
  BY <1>1, <1>3, <1>14
  DEF DeskStep, AskCircle, OrderDeposit, CircleFails, GiveUpPolling, VerifyOrder
<1>15. ASSUME NEW d \in Daemons, DaemonStep(d) \/ Crash(d) PROVE ChainMoves
  BY <1>1, <1>15
  DEF DaemonStep, Poll, Inspect, Skip, Rest, Send, SendFails, SeeReceipt, GiveUpWaiting, Report,
      LoseReport, Crash
<1>16. ASSUME NEW t \in TxIds, Mine(t) \/ \E j \in Jobs : IssuerReports(j, t) PROVE ChainMoves
  BY <1>1, <1>8, <1>16 DEF Mine, MineReverted, IssuerReports
<1> QED
  BY <1>4, <1>5, <1>6, <1>7, <1>9, <1>10, <1>11, <1>12, <1>13, <1>14, <1>15, <1>16 DEF Next

\* Every call of the contract leaves its mapping, the balances and the clock typed.
LEMMA ChainTyped ==
  ASSUME TypeOK, ChainMoves
  PROVE  /\ escrows' \in [Jobs -> EscrowRow]
         /\ usdc' \in [Accounts \cup {Contract} -> Nat]
         /\ settlementOperator' \in Accounts /\ now' \in 0 .. MaxTime /\ now <= now'
         /\ deposits \subseteq deposits' /\ deposits' \subseteq Deposit
<1> USE DEF TypeOK
<1> DEFINE Typed == /\ escrows' \in [Jobs -> EscrowRow]
                    /\ usdc' \in [Accounts \cup {Contract} -> Nat]
                    /\ settlementOperator' \in Accounts /\ now' \in 0 .. MaxTime /\ now <= now'
                    /\ deposits \subseteq deposits' /\ deposits' \subseteq Deposit
<1>0. now \in Nat /\ now <= now
  BY EscrowAssumption
<1>1. CASE ClockOrKey
  BY <1>0, <1>1, EscrowAssumption DEF ClockOrKey
<1>2. ASSUME NEW i \in Accounts, NEW dep \in Deposit, DepositMade(i, dep) PROVE Typed
  <2>1. dep.job \in Jobs /\ dep.amount \in Nat /\ dep.expiresAt \in Nat
    BY DepositFields
  <2>2. [issuer |-> i, agent |-> NoOne, amount |-> dep.amount,
         expiresAt |-> dep.expiresAt, status |-> "Funded"] \in EscrowRow
    BY <2>1 DEF EscrowRow, EscrowStatus
  <2>3. usdc' \in [Accounts \cup {Contract} -> Nat]
    BY <1>2, <2>1, TransferTyped DEF DepositMade, fundJob
  <2>4. escrows' \in [Jobs -> EscrowRow]
    BY <1>2, <2>2 DEF DepositMade, fundJob
  <2> QED BY <1>0, <1>2, <2>3, <2>4 DEF DepositMade, fundJob
<1>3. ASSUME NEW caller \in Accounts, NEW j \in Jobs, RefundMade(caller, j) PROVE Typed
  <2>1. escrows[j].amount \in Nat
    BY DEF EscrowRow
  <2>2. [escrows[j] EXCEPT !.status = "Refunded"] \in EscrowRow
    BY DEF EscrowRow, EscrowStatus
  <2>3. usdc' \in [Accounts \cup {Contract} -> Nat]
    BY <1>3, <2>1, TransferTyped DEF RefundMade, Refund
  <2>4. escrows' = [escrows EXCEPT ![j] = [escrows[j] EXCEPT !.status = "Refunded"]]
    BY <1>3 DEF RefundMade, Refund
  <2>5. escrows' \in [Jobs -> EscrowRow]
    BY <2>2, <2>4
  <2> QED BY <1>0, <1>3, <2>3, <2>5 DEF RefundMade, Refund
<1>4. ASSUME NEW t \in TxIds, MineOk(t) PROVE Typed
  <2> DEFINE j == tx[t].job  agent == tx[t].agent
  <2>1. agent \in Accounts \cup {NoOne} /\ tx[t].amount \in Nat
    <3>1. tx[t] \in TxRow
      OBVIOUS
    <3>2. agent \in Agents \cup {NoOne}
      BY <3>1, TxFields
    <3>3. tx[t].amount \in Nat
      BY <3>1, TxFields, AmountsAreNatural
    <3> QED BY <3>2, <3>3, MarketAssumption
  <2>2. \A i \in Jobs : [escrows[i] EXCEPT !.status = "Released", !.agent = agent] \in EscrowRow
    BY <2>1 DEF EscrowRow, EscrowStatus
  <2>3. escrows' = [escrows EXCEPT ![j] = [escrows[j] EXCEPT !.status = "Released",
                                                             !.agent = agent]]
    BY <1>4 DEF MineOk, release, ReleasedTo
  <2>4. usdc' \in [Accounts \cup {Contract} -> Nat]
    BY <1>4, <2>1, TransferTyped DEF MineOk, release
  <2>5. escrows' \in [Jobs -> EscrowRow]
    BY <2>2, <2>3
  <2> QED BY <1>0, <1>4, <2>4, <2>5 DEF MineOk, release
<1> QED
  BY <1>1, <1>2, <1>3, <1>4 DEF ChainMoves

\* What was verified is a deposit of a job.
LEMMA VerifiedTyped ==
  ASSUME TypeOK, [Next]_vars
  PROVE  verified' \subseteq [job : Jobs, dep : Deposit]
<1> USE DEF TypeOK
<1> DEFINE Typed == verified' \subseteq [job : Jobs, dep : Deposit]
<1>1. CASE verified' \subseteq verified
  BY <1>1
<1>2. ASSUME NEW j \in Jobs, VerifyDeposit(j) PROVE Typed
  BY <1>2 DEF VerifyDeposit
<1>3. ASSUME NEW k \in Desks, VerifyOrder(k) PROVE Typed
  <2>1. desk[k].dep \in Deposit
    BY <1>3, OrderFields DEF VerifyOrder
  <2>2. [job |-> desk[k].dep.job, dep |-> desk[k].dep] \in [job : Jobs, dep : Deposit]
    BY <2>1 DEF Deposit
  <2> QED BY <1>3, <2>2 DEF VerifyOrder
<1> QED
  BY <1>1, <1>2, <1>3
  DEF Next, DaemonStep, DeskStep, Mine, PostJob, RecordDeposit, DropDeposit, IssuerFunds,
      OperatorFunds, OperatorReleases, AskCircle, OrderDeposit, CircleMines, CircleFails,
      GiveUpPolling, Approve, Reject, OperatorRefunds, IssuerReclaims,
      Poll, Inspect, Skip, Rest, Send, SendFails, SeeReceipt, GiveUpWaiting, Report, LoseReport,
      Crash, MineOk, MineReverted, IssuerReports, RotateOperator, Tick, market, vars

-----------------------------------------------------------------------------
(* What a step can do to one row of the ledger.                            *)

Posted(r, s)          == /\ r = NoJob /\ s.status \in {"awaiting", "open"}
                         /\ s.reward \in Amounts
                         /\ s.escrow = "" /\ s.agent = NoOne
DepositRecorded(j, r, s) ==
  /\ r.status = "awaiting"
  /\ \E dep \in Deposit :
       /\ [job |-> j, dep |-> dep] \in verified
       /\ s = [r EXCEPT !.status = "open", !.escrow = "funded", !.fundTx = dep]
VerdictGiven(r, s) ==
  /\ r.status = "open"
  /\ \/ \E a \in Agents : s = [r EXCEPT !.status = "approved", !.agent = a]
     \/ s = [r EXCEPT !.status = "rejected"]
ReleaseRecorded(j, r, s) ==
  /\ escrows[j].status = "Released" /\ escrows' = escrows
  /\ s = [r EXCEPT !.escrow = "released", !.fundTx = None]

JobMoves(j, r, s) ==
  \/ r = s \/ Posted(r, s) \/ DepositRecorded(j, r, s)
  \/ VerdictGiven(r, s) \/ ReleaseRecorded(j, r, s)

\* escrow-release-receipt changes only the escrow column of a job the chain released.
LEMMA RecordReleaseMoves ==
  ASSUME TypeOK, NEW i, NEW t, NEW expected, RecordRelease(i, t, expected), escrows' = escrows
  PROVE  /\ job' \in [Jobs -> RailRow]
         /\ \A j \in Jobs : JobMoves(j, job[j], job'[j])
<1>1. CASE ~ReceiptProves(i, t, expected) \/ i \notin Jobs
  BY <1>1 DEF RecordRelease, TypeOK, JobMoves
<1>2. CASE ReceiptProves(i, t, expected) /\ i \in Jobs
  <2>1. job' = [job EXCEPT ![i] = [job[i] EXCEPT !.escrow = "released", !.fundTx = None]]
    BY <1>2 DEF RecordRelease
  <2>2. job[i] \in RailRow /\ job \in [Jobs -> RailRow]
    BY <1>2 DEF TypeOK
  <2>3. [job[i] EXCEPT !.escrow = "released", !.fundTx = None] \in RailRow
    BY <2>2 DEF RailRow
  <2>4. ReleaseRecorded(i, job[i], job'[i])
    BY <1>2, <2>1, <2>2 DEF ReleaseRecorded, ReceiptProves
  <2>5. \A j \in Jobs : j # i => job'[j] = job[j]
    BY <2>1, <2>2
  <2> QED BY <2>1, <2>2, <2>3, <2>4, <2>5 DEF JobMoves
<1> QED BY <1>1, <1>2

\* Every step moves a job of the ledger in one of the ways of JobMoves.
LEMMA JobStep ==
  ASSUME TypeOK, [Next]_vars
  PROVE  /\ job' \in [Jobs -> RailRow]
         /\ \A j \in Jobs : JobMoves(j, job[j], job'[j])
<1> DEFINE Moves == /\ job' \in [Jobs -> RailRow]
                    /\ \A j \in Jobs : JobMoves(j, job[j], job'[j])
<1>0. job \in [Jobs -> RailRow]
  BY DEF TypeOK
<1>1. CASE UNCHANGED job
  BY <1>0, <1>1 DEF JobMoves
<1>2. ASSUME NEW i \in Jobs, NEW r \in RailRow, job' = [job EXCEPT ![i] = r],
             JobMoves(i, job[i], r)
      PROVE  Moves
  BY <1>0, <1>2 DEF JobMoves
<1>3. ASSUME NEW i \in Jobs, PostJob(i) PROVE Moves
  <2>1. PICK s \in {"awaiting", "open"}, r \in Amounts \ {0} :
          job' = [job EXCEPT ![i] = [job[i] EXCEPT !.status = s, !.reward = r]]
    BY <1>3 DEF PostJob
  <2> DEFINE row == [job[i] EXCEPT !.status = s, !.reward = r]
  <2>2. job[i] \in RailRow
    BY <1>0
  <2>3. row \in RailRow
    BY <2>2 DEF RailRow
  <2>4. job[i] = NoJob
    BY <1>3 DEF PostJob
  <2>5. row.status = s /\ row.escrow = job[i].escrow /\ row.agent = job[i].agent
        /\ row.reward = r
    BY <2>2 DEF RailRow
  <2>6. job[i].escrow = "" /\ job[i].agent = NoOne
    BY <2>4, NoJobFields
  <2>7. Posted(job[i], row)
    BY <2>1, <2>4, <2>5, <2>6 DEF Posted
  <2> QED BY <1>2, <2>1, <2>3, <2>7 DEF JobMoves
<1>4. ASSUME NEW v \in verified, RecordDeposit(v) PROVE Moves
  <2>1. v \in [job : Jobs, dep : Deposit]
    BY DEF TypeOK
  <2>2. CASE job[v.job].status # "awaiting"
    BY <1>1, <1>4, <2>2 DEF RecordDeposit
  <2>3. CASE job[v.job].status = "awaiting"
    <3> DEFINE row == [job[v.job] EXCEPT !.status = "open", !.escrow = "funded", !.fundTx = v.dep]
    <3>1. job' = [job EXCEPT ![v.job] = row]
      BY <1>4, <2>3 DEF RecordDeposit
    <3>2. v.job \in Jobs /\ v.dep \in Deposit /\ v = [job |-> v.job, dep |-> v.dep]
      BY <2>1
    <3>3. job[v.job] \in RailRow
      BY <1>0, <3>2
    <3>4. row \in RailRow
      BY <3>2, <3>3 DEF RailRow
    <3>5. DepositRecorded(v.job, job[v.job], row)
      BY <2>3, <3>2 DEF DepositRecorded
    <3> QED BY <1>2, <3>1, <3>2, <3>4, <3>5 DEF JobMoves
  <2> QED BY <2>2, <2>3
<1>5. ASSUME NEW i \in Jobs, Approve(i) PROVE Moves
  <2>1. PICK a \in Agents :
          job' = [job EXCEPT ![i] = [job[i] EXCEPT !.status = "approved", !.agent = a]]
    BY <1>5 DEF Approve
  <2>2. job[i] \in RailRow /\ job[i].status = "open"
    BY <1>0, <1>5 DEF Approve
  <2>3. [job[i] EXCEPT !.status = "approved", !.agent = a] \in RailRow
    BY <2>2 DEF RailRow
  <2> QED BY <1>2, <2>1, <2>2, <2>3 DEF JobMoves, VerdictGiven
<1>6. ASSUME NEW i \in Jobs, Reject(i) PROVE Moves
  <2>1. job' = [job EXCEPT ![i] = [job[i] EXCEPT !.status = "rejected"]]
    BY <1>6 DEF Reject
  <2>2. job[i] \in RailRow /\ job[i].status = "open"
    BY <1>0, <1>6 DEF Reject
  <2>3. [job[i] EXCEPT !.status = "rejected"] \in RailRow
    BY <2>2 DEF RailRow
  <2> QED BY <1>2, <2>1, <2>2, <2>3 DEF JobMoves, VerdictGiven
<1>7. ASSUME NEW d \in Daemons, Report(d) PROVE Moves
  BY <1>7, RecordReleaseMoves DEF Report, chain
<1>8. ASSUME NEW t \in TxIds, NEW i \in Jobs, IssuerReports(i, t) PROVE Moves
  BY <1>8, RecordReleaseMoves DEF IssuerReports, chain
<1> QED
  BY <1>1, <1>3, <1>4, <1>5, <1>6, <1>7, <1>8
  DEF Next, DaemonStep, DeskStep, Mine, VerifyDeposit, OperatorRefunds, OperatorReleases,
      OperatorFunds, AskCircle, OrderDeposit, CircleMines, CircleFails, GiveUpPolling,
      VerifyOrder, IssuerFunds, IssuerReclaims, DropDeposit, Poll, Inspect, Skip, Rest, Send, SendFails, SeeReceipt, GiveUpWaiting,
      LoseReport, Crash, MineOk, MineReverted, RotateOperator, Tick, market, vars

-----------------------------------------------------------------------------
(* What a step can do to one escrow of the contract.                       *)

Refunded(j, r, s) ==
  /\ r.status = "Funded" /\ (now > r.expiresAt \/ job[j].status = "rejected")
  /\ s = [r EXCEPT !.status = "Refunded"]
Paid(j, r, s) ==
  /\ r.status = "Funded"
  /\ \E t \in TxIds : /\ tx[t].state = "pending" /\ tx[t].job = j
                      /\ tx[t].amount = r.amount
                      /\ s = [r EXCEPT !.status = "Released", !.agent = tx[t].agent]
FundedNow(r, s) == r.status \in {"None", "Refunded"} /\ s.status = "Funded"

EscrowMoves(j, r, s) == r = s \/ Refunded(j, r, s) \/ Paid(j, r, s) \/ FundedNow(r, s)

\* Every step moves an escrow in one of the ways of EscrowMoves.
LEMMA EscrowStep ==
  ASSUME TypeOK, ChainMoves, NEW j \in Jobs
  PROVE  EscrowMoves(j, escrows[j], escrows'[j])
<1> DEFINE Moves == EscrowMoves(j, escrows[j], escrows'[j])
<1>0. escrows \in [Jobs -> EscrowRow]
  BY DEF TypeOK
<1>1. CASE ClockOrKey
  BY <1>1 DEF ClockOrKey, EscrowMoves
<1>2. ASSUME NEW caller \in Accounts, NEW k \in Jobs, RefundMade(caller, k) PROVE Moves
  <2>1. escrows' = [escrows EXCEPT ![k] = [escrows[k] EXCEPT !.status = "Refunded"]]
    BY <1>2 DEF RefundMade, Refund
  <2>2. Refunded(k, escrows[k], escrows'[k])
    BY <1>0, <1>2, <2>1 DEF RefundMade, Refund, Refunded, Expired
  <2> QED BY <1>0, <2>1, <2>2 DEF EscrowMoves
<1>3. ASSUME NEW i \in Accounts, NEW dep \in Deposit, DepositMade(i, dep) PROVE Moves
  <2>1. FundedNow(escrows[dep.job], escrows'[dep.job])
    BY <1>0, <1>3 DEF DepositMade, Deposit, fundJob, FundedNow
  <2>2. j # dep.job => escrows'[j] = escrows[j]
    BY <1>0, <1>3 DEF DepositMade, fundJob
  <2> QED BY <2>1, <2>2 DEF EscrowMoves
<1>4. ASSUME NEW t \in TxIds, MineOk(t) PROVE Moves
  <2> DEFINE k == tx[t].job
  <2>1. /\ escrows' = [escrows EXCEPT ![k] = [escrows[k] EXCEPT !.status = "Released",
                                                             !.agent = tx[t].agent]]
        /\ tx[t].state = "pending"
        /\ escrows[k].status = "Funded" /\ tx[t].amount = escrows[k].amount
    BY <1>4 DEF MineOk, release, ReleasedTo, MayRelease
  <2>2. k = j => Paid(j, escrows[j], escrows'[j])
    BY <1>0, <2>1 DEF Paid
  <2>3. k # j => escrows'[j] = escrows[j]
    BY <1>0, <2>1
  <2> QED BY <2>2, <2>3 DEF EscrowMoves
<1> QED
  BY <1>1, <1>2, <1>3, <1>4 DEF ChainMoves

\* A deposit that appears is the escrow as it now stands, of a job that was posted.
LEMMA DepositStep ==
  ASSUME TypeOK, ChainMoves, NEW dep \in deposits' \ deposits
  PROVE  /\ job' = job /\ job[dep.job] # NoJob
         /\ escrows'[dep.job].status = "Funded"
         /\ escrows'[dep.job].amount = dep.amount
         /\ escrows'[dep.job].expiresAt = dep.expiresAt
<1>0. escrows \in [Jobs -> EscrowRow]
  BY DEF TypeOK
<1>1. PICK i \in Accounts : dep \in Deposit /\ DepositMade(i, dep)
  BY DEF ChainMoves, ClockOrKey, DepositMade, RefundMade, MineOk
<1>2. escrows'[dep.job] = [issuer |-> i, agent |-> NoOne, amount |-> dep.amount,
                           expiresAt |-> dep.expiresAt, status |-> "Funded"]
  BY <1>0, <1>1 DEF DepositMade, Deposit, fundJob
<1> QED BY <1>1, <1>2 DEF DepositMade

-----------------------------------------------------------------------------
(* What a step can do to one daemon and to one transaction.                *)

Polled(r, s) == /\ s.pc \in {"idle", "inspect"}
                /\ s.queue \subseteq r.queue \cup Payable
Picked(r, s) == /\ s.pc = "send" /\ s.queue \subseteq r.queue
                /\ s.item \in r.queue /\ s.seen = job[s.item].reward
Advanced(r, s) ==
  /\ r.pc \in {"send", "wait"} /\ s.pc \in {"wait", "report"}
  /\ s.item = r.item /\ s.seen = r.seen /\ s.queue = r.queue
  /\ r.pc = "wait" => s.tx = r.tx
  /\ r.pc = "send" => s.tx \in TxIds

ProcessMoves(r, s) == r = s \/ Polled(r, s) \/ Picked(r, s) \/ Advanced(r, s)

\* Every step moves a daemon in one of the ways of ProcessMoves.
LEMMA ProcessStep ==
  ASSUME TypeOK, [Next]_vars
  PROVE  /\ daemon' \in [Daemons -> Process]
         /\ \A d \in Daemons : ProcessMoves(daemon[d], daemon'[d])
<1> DEFINE Moves == /\ daemon' \in [Daemons -> Process]
                    /\ \A d \in Daemons : ProcessMoves(daemon[d], daemon'[d])
<1>0. daemon \in [Daemons -> Process]
  BY DEF TypeOK
<1>1. CASE UNCHANGED daemon
  BY <1>0, <1>1 DEF ProcessMoves
<1>2. ASSUME NEW d \in Daemons, NEW r \in Process, daemon' = [daemon EXCEPT ![d] = r],
             ProcessMoves(daemon[d], r)
      PROVE  Moves
  BY <1>0, <1>2 DEF ProcessMoves
<1>3. \A d \in Daemons : daemon[d] \in Process
  BY <1>0
<1>4. ASSUME NEW q \in SUBSET Jobs
      PROVE  /\ [Idle EXCEPT !.pc = "inspect", !.queue = q] \in Process
             /\ [Idle EXCEPT !.pc = "inspect", !.queue = q].pc = "inspect"
             /\ [Idle EXCEPT !.pc = "inspect", !.queue = q].queue = q
  BY DEF Idle, Process
<1>5. Idle \in Process /\ Idle.pc = "idle" /\ Idle.queue = {}
  BY DEF Idle, Process
<1>6. ASSUME NEW d \in Daemons, Poll(d) PROVE Moves
  <2>1. Payable \subseteq Jobs
    BY DEF Payable
  <2>2. daemon' = [daemon EXCEPT ![d] = [Idle EXCEPT !.pc = "inspect", !.queue = Payable]]
    BY <1>6 DEF Poll
  <2> DEFINE s == [Idle EXCEPT !.pc = "inspect", !.queue = Payable]
  <2>3. s \in Process /\ s.pc = "inspect" /\ s.queue = Payable
    BY <1>4, <2>1
  <2>4. Polled(daemon[d], s)
    BY <2>3 DEF Polled
  <2> QED BY <1>2, <2>2, <2>3, <2>4 DEF ProcessMoves
<1>7. ASSUME NEW d \in Daemons, NEW j \in Jobs, Inspect(d, j) PROVE Moves
  <2> DEFINE r == daemon[d]
             s == [r EXCEPT !.pc = "send", !.queue = r.queue \ {j}, !.item = j,
                            !.seen = escrows[j].amount]
  <2>1. daemon' = [daemon EXCEPT ![d] = s]
    BY <1>7 DEF Inspect
  <2>2. r \in Process /\ j \in r.queue /\ r.queue \subseteq Jobs
    BY <1>3, <1>7, ProcessFields DEF Inspect
  <2>3. escrows[j].amount = job[j].reward /\ job[j] \in RailRow
    BY <1>7 DEF Inspect, Releasable, TypeOK
  <2>4. escrows[j].amount \in Amounts \cup {0}
    BY <2>3, RailFields
  <2>5. s \in Process
    BY <2>2, <2>4 DEF Process
  <2>6. Picked(r, s)
    BY <2>2, <2>3 DEF Picked, Process
  <2> QED BY <1>2, <2>1, <2>5, <2>6 DEF ProcessMoves
<1>12. ASSUME NEW d \in Daemons, NEW j \in Jobs, Skip(d, j) PROVE Moves
  <2> DEFINE r == daemon[d]
             s == [r EXCEPT !.queue = r.queue \ {j}]
  <2>1. daemon' = [daemon EXCEPT ![d] = s]
    BY <1>12 DEF Skip
  <2>2. r \in Process /\ r.pc = "inspect" /\ r.queue \subseteq Jobs
    BY <1>3, <1>12, ProcessFields DEF Skip
  <2>3. s \in Process
    BY <2>2 DEF Process
  <2>4. Polled(r, s)
    BY <2>2 DEF Polled, Process
  <2> QED BY <1>2, <2>1, <2>3, <2>4 DEF ProcessMoves
<1>8. ASSUME NEW d \in Daemons, Rest(d) \/ Crash(d) PROVE Moves
  <2>1. daemon' = [daemon EXCEPT ![d] = Idle]
    BY <1>8 DEF Rest, Crash
  <2> QED BY <1>2, <1>5, <2>1 DEF ProcessMoves, Polled
<1>9. ASSUME NEW d \in Daemons, NextItem(d) PROVE Moves
  <2>1. daemon[d].queue \subseteq Jobs
    BY <1>3, ProcessFields
  <2>2. daemon' = [daemon EXCEPT ![d] =
                     [Idle EXCEPT !.pc = "inspect", !.queue = daemon[d].queue]]
    BY <1>9 DEF NextItem
  <2> QED BY <1>2, <1>4, <2>1, <2>2 DEF ProcessMoves, Polled
<1>10. ASSUME NEW d \in Daemons, Send(d) PROVE Moves
  <2>1. PICK t \in TxIds : daemon' = [daemon EXCEPT ![d] = [daemon[d] EXCEPT !.pc = "wait",
                                                                            !.tx = t]]
    BY <1>10 DEF Send
  <2> DEFINE s == [daemon[d] EXCEPT !.pc = "wait", !.tx = t]
  <2>2. s \in Process
    BY <1>3, <2>1 DEF Process
  <2>3. daemon[d].pc = "send"
    BY <1>10 DEF Send
  <2>4. Advanced(daemon[d], s)
    BY <1>3, <2>1, <2>3 DEF Advanced, Process
  <2> QED BY <1>2, <2>1, <2>2, <2>4 DEF ProcessMoves
<1>11. ASSUME NEW d \in Daemons, SeeReceipt(d) PROVE Moves
  <2> DEFINE s == [daemon[d] EXCEPT !.pc = "report"]
  <2>1. daemon' = [daemon EXCEPT ![d] = s]
    BY <1>11 DEF SeeReceipt
  <2>2. s \in Process
    BY <1>3 DEF Process
  <2>3. daemon[d].pc = "wait"
    BY <1>11 DEF SeeReceipt
  <2>4. Advanced(daemon[d], s)
    BY <1>3, <2>3 DEF Advanced, Process
  <2> QED BY <1>2, <2>1, <2>2, <2>4 DEF ProcessMoves
<1> QED
  BY <1>1, <1>6, <1>7, <1>8, <1>9, <1>10, <1>11, <1>12
  DEF Next, DaemonStep, DeskStep, Mine, PostJob, VerifyDeposit, Approve, Reject, OperatorRefunds,
      OperatorReleases, OperatorFunds, AskCircle, OrderDeposit, CircleMines, CircleFails,
      GiveUpPolling, VerifyOrder, IssuerFunds, IssuerReclaims, RecordDeposit, DropDeposit,
      SendFails, GiveUpWaiting, Report, LoseReport, MineOk, MineReverted, IssuerReports, RotateOperator, Tick, market,
      vars

SameOrder(r, s) == s.job = r.job /\ s.agent = r.agent /\ s.amount = r.amount

TxMoves(r, s) ==
  \/ r = s
  \/ r.state = "pending" /\ SameOrder(r, s)
  \/ Approved(s.job, s.agent, s.amount) /\ job' = job

\* A transaction is sent for approved work, and its order never changes.
LEMMA TxStep ==
  ASSUME TypeOK, CarriesApproval, ApprovedHasAgent, [Next]_vars
  PROVE  /\ tx' \in [TxIds -> TxRow]
         /\ \A t \in TxIds : TxMoves(tx[t], tx'[t])
<1> DEFINE Moves == /\ tx' \in [TxIds -> TxRow]
                    /\ \A t \in TxIds : TxMoves(tx[t], tx'[t])
<1>0. tx \in [TxIds -> TxRow]
  BY DEF TypeOK
<1>1. CASE UNCHANGED tx
  BY <1>0, <1>1 DEF TxMoves
<1>2. ASSUME NEW t \in TxIds, NEW state \in {"ok", "reverted"}, tx[t].state = "pending",
             tx' = [tx EXCEPT ![t] = [tx[t] EXCEPT !.state = state]]
      PROVE  Moves
  <2> DEFINE s == [tx[t] EXCEPT !.state = state]
  <2>1. tx[t] \in TxRow
    BY <1>0
  <2>2. s \in TxRow /\ SameOrder(tx[t], s)
    BY <1>2, <2>1 DEF TxRow, SameOrder
  <2>3. TxMoves(tx[t], s)
    BY <1>2, <2>2 DEF TxMoves
  <2> QED BY <1>0, <1>2, <2>2, <2>3 DEF TxMoves
<1>3. ASSUME NEW d \in Daemons, Send(d) PROVE Moves
  <2> DEFINE j == daemon[d].item
             s == [state |-> "pending", job |-> j, agent |-> job[j].agent,
                   amount |-> daemon[d].seen]
  <2>1. PICK t \in TxIds : tx' = [tx EXCEPT ![t] = s]
    BY <1>3 DEF Send
  <2>2. Approved(j, job[j].agent, daemon[d].seen) /\ job' = job
    BY <1>3 DEF Send, CarriesApproval
  <2>3. daemon[d] \in Process
    BY DEF TypeOK
  <2>4. daemon[d].seen \in Amounts \cup {0}
    BY <2>3, ProcessFields
  <2>5. s \in TxRow
    BY <2>2, <2>4 DEF Approved, TxRow
  <2>6. TxMoves(tx[t], s)
    BY <2>2 DEF TxMoves
  <2> QED BY <1>0, <2>1, <2>5, <2>6 DEF TxMoves
<1>4. ASSUME NEW t \in TxIds, MineOk(t) PROVE Moves
  BY <1>2, <1>4 DEF MineOk
<1>5. ASSUME NEW t \in TxIds, MineReverted(t) PROVE Moves
  BY <1>2, <1>5 DEF MineReverted
<1>6. ASSUME NEW j \in Jobs, OperatorReleases(j) PROVE Moves
  <2> DEFINE s == [state |-> "pending", job |-> j, agent |-> job[j].agent,
                   amount |-> job[j].reward]
  <2>1. PICK t \in TxIds : tx' = [tx EXCEPT ![t] = s]
    BY <1>6 DEF OperatorReleases
  <2>2. Approved(j, job[j].agent, job[j].reward) /\ job' = job
    BY <1>6 DEF OperatorReleases, Approved, ApprovedHasAgent
  <2>3. job[j] \in RailRow
    BY DEF TypeOK
  <2>4. job[j].reward \in Amounts \cup {0}
    BY <2>3, RailFields
  <2>5. s \in TxRow
    BY <2>2, <2>4 DEF Approved, TxRow
  <2>6. TxMoves(tx[t], s)
    BY <2>2 DEF TxMoves
  <2> QED BY <1>0, <2>1, <2>5, <2>6 DEF TxMoves
<1> QED
  BY <1>1, <1>3, <1>4, <1>5, <1>6
  DEF Next, DaemonStep, DeskStep, Mine, PostJob, VerifyDeposit, Approve, Reject, OperatorRefunds,
      OperatorFunds, AskCircle, OrderDeposit, CircleMines, CircleFails, GiveUpPolling,
      VerifyOrder, IssuerFunds, IssuerReclaims, RecordDeposit, DropDeposit, Poll, Inspect, Skip, Rest, SendFails,
      SeeReceipt, GiveUpWaiting, Report, LoseReport, Crash, IssuerReports, RotateOperator,
      Tick, market, vars

\* The bound on crashes holds.
LEMMA CrashesTyped ==
  ASSUME TypeOK, [Next]_vars
  PROVE  crashes' \in 0 .. MaxCrashes
<1>1. CASE UNCHANGED crashes
  BY <1>1 DEF TypeOK
<1>2. CASE crashes < MaxCrashes /\ crashes' = crashes + 1
  BY <1>2, MarketAssumption DEF TypeOK
<1> QED
  BY <1>1, <1>2
  DEF Next, DaemonStep, DeskStep, Mine, PostJob, VerifyDeposit, Approve, Reject, OperatorRefunds,
      OperatorReleases, OperatorFunds, AskCircle, OrderDeposit, CircleMines, CircleFails,
      GiveUpPolling, VerifyOrder, IssuerFunds, IssuerReclaims, RecordDeposit, DropDeposit, Poll, Inspect, Skip, Rest, Send,
      SendFails, SeeReceipt, GiveUpWaiting, Report, LoseReport, Crash, MineOk, MineReverted,
      IssuerReports, RotateOperator, Tick, market, vars

\* What either endpoint verifies is a deposit of the reward of a job.
LEMMA VerifiedStep ==
  ASSUME TypeOK, DesksHaveOrders, [Next]_vars, NEW v \in verified' \ verified
  PROVE  v.dep \in deposits /\ v.dep.job = v.job /\ v.dep.amount = job[v.job].reward
<1> DEFINE Covers == v.dep \in deposits /\ v.dep.job = v.job /\ v.dep.amount = job[v.job].reward
<1>1. ASSUME NEW j \in Jobs, VerifyDeposit(j) PROVE Covers
  BY <1>1 DEF VerifyDeposit, DepositMatches
<1>2. CASE verified' \subseteq verified
  BY <1>2
<1>3. ASSUME NEW k \in Desks, VerifyOrder(k) PROVE Covers
  <2>1. v = [job |-> desk[k].dep.job, dep |-> desk[k].dep]
    BY <1>3 DEF VerifyOrder
  <2>2. desk[k].dep \in deposits /\ desk[k].dep.amount = job[desk[k].dep.job].reward
    BY <1>3 DEF VerifyOrder, DepositMatches, DesksHaveOrders
  <2> QED BY <2>1, <2>2
<1> QED
  BY <1>1, <1>2, <1>3
  DEF Next, DaemonStep, DeskStep, Mine, PostJob, Approve, Reject, OperatorRefunds, IssuerFunds,
      OperatorReleases, OperatorFunds, AskCircle, OrderDeposit, CircleMines, CircleFails,
      GiveUpPolling,
      IssuerReclaims, RecordDeposit, DropDeposit, Poll, Inspect, Skip, Rest, Send, SendFails,
      SeeReceipt, GiveUpWaiting, Report, LoseReport, Crash, MineOk, MineReverted,
      IssuerReports, RotateOperator, Tick, market, vars

-----------------------------------------------------------------------------
(* What never changes in the ledger: the reward of a posted job, a verdict *)
(* and the agent it names.                                                 *)

\* Once posted, a reward is fixed; a verdict and the agent it names are final.
LEMMA LedgerPersists ==
  ASSUME MarketInv, [Next]_vars, NEW j \in Jobs
  PROVE  /\ job[j].status # "absent" => /\ job'[j].status # "absent"
                                        /\ job'[j].reward = job[j].reward
         /\ job[j].status = "approved" => /\ job'[j].status = "approved"
                                          /\ job'[j].agent = job[j].agent
         /\ job[j].status = "rejected" => job'[j].status = "rejected"
         /\ job'[j].status = "absent" => job'[j] = NoJob
         /\ job'[j].status = "approved" => job'[j].agent \in Agents
         /\ job'[j].status # "absent" => job'[j].reward \in Amounts
<1> DEFINE r == job[j]  s == job'[j]
<1>1. r \in RailRow
  BY DEF MarketInv, TypeOK
<1>2. JobMoves(j, r, s)
  BY JobStep DEF MarketInv
<1>3. /\ r.status = "absent" => r = NoJob
      /\ r.status = "approved" => r.agent \in Agents
      /\ r.status # "absent" => r.reward \in Amounts
  BY DEF MarketInv, DepositsArePosted, ApprovedHasAgent, PostedHasReward
<1>4. CASE r = s
  BY <1>3, <1>4
<1>5. CASE Posted(r, s)
  BY <1>5, NoJobFields DEF Posted
<1>6. CASE DepositRecorded(j, r, s)
  BY <1>1, <1>3, <1>6 DEF DepositRecorded, RailRow
<1>7. CASE VerdictGiven(r, s)
  BY <1>1, <1>3, <1>7 DEF VerdictGiven, RailRow
<1>8. CASE ReleaseRecorded(j, r, s)
  <2>1. r.status = "approved"
    BY <1>8 DEF ReleaseRecorded, MarketInv, PaysApprovedAgent, InStatus
  <2>2. s.status = "approved" /\ s.agent = r.agent /\ s.reward = r.reward
    BY <1>1, <1>8, <2>1 DEF ReleaseRecorded, RailRow
  <2> QED BY <1>3, <2>1, <2>2
<1> QED BY <1>2, <1>4, <1>5, <1>6, <1>7, <1>8 DEF JobMoves

\* An approval that was read stays good.
LEMMA ApprovalPersists ==
  ASSUME MarketInv, [Next]_vars
  PROVE  \A j, agent, amount : Approved(j, agent, amount) =>
           /\ j \in Jobs /\ job'[j].status = "approved" /\ job'[j].agent = job[j].agent
           /\ agent = job'[j].agent /\ amount = job'[j].reward /\ agent \in Agents
  BY LedgerPersists DEF Approved

-----------------------------------------------------------------------------
(* The invariant, part by part.                                            *)

\* What daemons and transactions carry stays what the ledger approved.
LEMMA CarriesApprovalStep ==
  ASSUME MarketInv, [Next]_vars
  PROVE  CarriesApproval'
<1> USE DEF MarketInv
<1>1. \A d \in Daemons : ProcessMoves(daemon[d], daemon'[d]) /\ daemon[d] \in Process
  BY ProcessStep DEF TypeOK
<1>2. \A t \in TxIds : TxMoves(tx[t], tx'[t]) /\ tx'[t] \in TxRow
  BY TxStep
<1>3. ASSUME NEW d \in Daemons
      PROVE  /\ \A j \in daemon'[d].queue : j \in Jobs /\ job[j].status = "approved"
             /\ daemon'[d].pc \in {"send", "wait", "report"} =>
                  Approved(daemon'[d].item, job[daemon'[d].item].agent, daemon'[d].seen)
             /\ daemon'[d].pc \in {"wait", "report"} => daemon'[d].tx \in TxIds
  <2> DEFINE r == daemon[d]  s == daemon'[d]
  <2>1. /\ \A j \in r.queue : j \in Jobs /\ job[j].status = "approved"
        /\ r.pc \in {"send", "wait", "report"} =>
              Approved(r.item, job[r.item].agent, r.seen)
        /\ r.pc \in {"wait", "report"} => r.tx \in TxIds
    BY <1>1, ProcessFields DEF CarriesApproval
  <2>2. CASE r = s
    BY <2>1, <2>2
  <2>3. CASE Polled(r, s)
    BY <2>1, <2>3 DEF Polled, Payable
  <2>4. CASE Picked(r, s)
    BY <2>1, <2>4 DEF Picked, Approved, ApprovedHasAgent
  <2>5. CASE Advanced(r, s)
    BY <2>1, <2>5 DEF Advanced
  <2> QED BY <1>1, <2>2, <2>3, <2>4, <2>5 DEF ProcessMoves
<1>4. ASSUME NEW t \in TxIds, tx'[t].state # "none"
      PROVE  Approved(tx'[t].job, tx'[t].agent, tx'[t].amount)
  BY <1>2, <1>4 DEF TxMoves, SameOrder, CarriesApproval
<1>5. ASSUME NEW d \in Daemons, daemon'[d].pc \in {"send", "wait", "report"}
      PROVE  Approved(daemon[d].item, job[daemon[d].item].agent, daemon[d].seen)'
  BY <1>3, <1>5, ApprovalPersists DEF Approved
<1>6. ASSUME NEW t \in TxIds, tx'[t].state # "none"
      PROVE  Approved(tx[t].job, tx[t].agent, tx[t].amount)'
  BY <1>4, <1>6, ApprovalPersists DEF Approved
<1>7. \A d \in Daemons : \A j \in daemon'[d].queue : job'[j].status = "approved"
  BY <1>3, LedgerPersists
<1> QED
  BY <1>3, <1>5, <1>6, <1>7 DEF CarriesApproval

\* Deposits of posted jobs stay in the contract until deadline, payout or rejection.
LEMMA DepositsStay ==
  ASSUME MarketInv, [Next]_vars
  PROVE  DepositsAreHeld' /\ DepositsArePosted'
<1> USE DEF MarketInv
<1>9. ChainMoves
  BY ChainStep
<1>0. deposits' \subseteq Deposit /\ \A dep \in Deposit :
        dep.job \in Jobs /\ dep.expiresAt \in Nat /\ dep.amount \in Amounts
  BY <1>9, ChainTyped, EscrowAssumption DEF Deposit
<1>1. now \in Nat /\ now' \in Nat /\ now <= now'
  BY <1>9, ChainTyped, EscrowAssumption DEF TypeOK
<1>2. ASSUME NEW dep \in deposits'
      PROVE  job'[dep.job].status # "absent" /\ Backs(dep)'
  <2> DEFINE j == dep.job
  <2>0. dep \in Deposit /\ j \in Jobs /\ dep.expiresAt \in Nat
    BY <1>0
  <2>1. CASE dep \in deposits
    <3>1. job[j].status # "absent" /\ Backs(dep)
      BY <2>1 DEF DepositsArePosted, DepositsAreHeld
    <3>2. job'[j].status # "absent"
      BY <2>0, <3>1, LedgerPersists
    <3>3. SUFFICES ASSUME now' <= dep.expiresAt, job'[j].status # "rejected"
                   PROVE  /\ escrows'[j].status \in {"Funded", "Released"}
                          /\ escrows'[j].amount = dep.amount
                          /\ escrows'[j].expiresAt = dep.expiresAt
      BY <3>2 DEF Backs
    <3>4. now <= dep.expiresAt /\ job[j].status # "rejected"
      BY <1>1, <2>0, <3>3, LedgerPersists
    <3>5. /\ escrows[j].status \in {"Funded", "Released"}
          /\ escrows[j].amount = dep.amount /\ escrows[j].expiresAt = dep.expiresAt
      BY <3>1, <3>4 DEF Backs
    <3>6. escrows[j] \in EscrowRow
      BY <2>0 DEF TypeOK
    <3>7. ~Refunded(j, escrows[j], escrows'[j]) /\ ~FundedNow(escrows[j], escrows'[j])
      BY <1>1, <2>0, <3>4, <3>5 DEF Refunded, FundedNow
    <3>8. CASE Paid(j, escrows[j], escrows'[j])
      BY <3>5, <3>6, <3>8 DEF Paid, EscrowRow
    <3> QED BY <1>9, <2>0, <3>5, <3>7, <3>8, EscrowStep DEF EscrowMoves
  <2>2. CASE dep \notin deposits
    <3>1. /\ job' = job /\ job[j] # NoJob
          /\ escrows'[j].status = "Funded" /\ escrows'[j].amount = dep.amount
          /\ escrows'[j].expiresAt = dep.expiresAt
      BY <1>9, <2>2, DepositStep
    <3> QED BY <2>0, <3>1 DEF DepositsArePosted, Backs
  <2> QED BY <2>1, <2>2
<1> QED
  BY <1>2, LedgerPersists DEF DepositsAreHeld, DepositsArePosted

\* Verified and recorded deposits go on covering the reward.
LEMMA DepositsCoverRewardStep ==
  ASSUME MarketInv, [Next]_vars
  PROVE  DepositsCoverReward'
<1> USE DEF MarketInv
<1>0. /\ deposits \subseteq deposits' /\ deposits \subseteq Deposit
      /\ verified \subseteq [job : Jobs, dep : Deposit]
  BY ChainStep, ChainTyped DEF TypeOK
<1>1. \A dep \in deposits : /\ dep.job \in Jobs /\ dep \in deposits'
                             /\ job'[dep.job].reward = job[dep.job].reward
  <2>1. \A dep \in deposits : dep.job \in Jobs /\ job[dep.job].status # "absent"
    BY <1>0 DEF Deposit, DepositsArePosted
  <2> QED BY <1>0, <2>1, LedgerPersists
<1>2. ASSUME NEW v \in verified'
      PROVE  v.dep \in deposits' /\ v.dep.job = v.job /\ v.dep.amount = job'[v.job].reward
  <2>1. v.dep \in deposits /\ v.dep.job = v.job /\ v.dep.amount = job[v.job].reward
    BY VerifiedStep DEF DepositsCoverReward
  <2> QED BY <1>1, <2>1
<1>3. ASSUME NEW j \in Jobs, job'[j].escrow = "funded"
      PROVE  /\ job'[j].fundTx \in deposits' /\ job'[j].fundTx.job = j
             /\ job'[j].fundTx.amount = job'[j].reward
  <2> DEFINE r == job[j]  s == job'[j]
  <2>1. r \in RailRow /\ JobMoves(j, r, s)
    BY JobStep DEF TypeOK
  <2>2. SUFFICES s.fundTx \in deposits /\ s.fundTx.job = j /\ s.fundTx.amount = r.reward
    BY <1>1, <2>2
  <2>3. CASE DepositRecorded(j, r, s)
    <3>1. PICK dep \in Deposit :
            /\ [job |-> j, dep |-> dep] \in verified
            /\ s = [r EXCEPT !.status = "open", !.escrow = "funded", !.fundTx = dep]
      BY <2>3 DEF DepositRecorded
    <3>2. s.fundTx = dep
      BY <2>1, <3>1 DEF RailRow
    <3>3. dep \in deposits /\ dep.job = j /\ dep.amount = r.reward
      BY <3>1 DEF DepositsCoverReward
    <3> QED BY <3>2, <3>3
  <2>4. CASE r = s \/ VerdictGiven(r, s)
    <3>1. r.escrow = "funded" /\ s.fundTx = r.fundTx
      BY <1>3, <2>1, <2>4 DEF VerdictGiven, RailRow
    <3> QED BY <3>1 DEF DepositsCoverReward
  <2>5. ~Posted(r, s) /\ ~ReleaseRecorded(j, r, s)
    BY <1>3, <2>1 DEF Posted, ReleaseRecorded, RailRow
  <2> QED BY <2>1, <2>3, <2>4, <2>5 DEF JobMoves
<1> QED
  BY <1>2, <1>3 DEF DepositsCoverReward

\* Whatever is released was approved, agent and amount.
LEMMA PaysApprovedStep ==
  ASSUME MarketInv, [Next]_vars
  PROVE  PaysApprovedAgent'
<1> USE DEF MarketInv
<1> SUFFICES ASSUME NEW j \in Jobs, escrows'[j].status = "Released"
             PROVE  /\ job'[j].status = "approved"
                    /\ escrows'[j].agent = job'[j].agent
                    /\ escrows'[j].amount = job'[j].reward
  BY DEF PaysApprovedAgent, InStatus
<1> DEFINE r == escrows[j]  s == escrows'[j]
<1>1. r \in EscrowRow /\ EscrowMoves(j, r, s)
  BY ChainStep, EscrowStep DEF TypeOK
<1>2. SUFFICES job[j].status = "approved" /\ s.agent = job[j].agent /\ s.amount = job[j].reward
  BY <1>2, LedgerPersists
<1>3. CASE r = s
  BY <1>3 DEF PaysApprovedAgent, InStatus
<1>4. CASE Paid(j, r, s)
  <2>1. PICK t \in TxIds : /\ tx[t].state = "pending" /\ tx[t].job = j
                           /\ tx[t].amount = r.amount
                           /\ s = [r EXCEPT !.status = "Released", !.agent = tx[t].agent]
    BY <1>4 DEF Paid
  <2>2. s.agent = tx[t].agent /\ s.amount = tx[t].amount
    BY <1>1, <2>1 DEF EscrowRow
  <2> QED BY <2>1, <2>2 DEF CarriesApproval, Approved
<1>5. ~Refunded(j, r, s) /\ ~FundedNow(r, s)
  BY <1>1 DEF Refunded, FundedNow, EscrowRow
<1> QED BY <1>1, <1>3, <1>4, <1>5 DEF EscrowMoves

\* The ledger records a release only after the contract made it.
LEMMA ReleaseIsRealStep ==
  ASSUME MarketInv, [Next]_vars
  PROVE  LedgerReleaseIsReal'
<1> USE DEF MarketInv
<1> SUFFICES ASSUME NEW j \in Jobs, job'[j].escrow = "released"
             PROVE  escrows'[j].status = "Released"
  BY DEF LedgerReleaseIsReal
<1> DEFINE r == job[j]  s == job'[j]
<1>1. r \in RailRow /\ JobMoves(j, r, s)
  BY JobStep DEF TypeOK
<1>2. CASE ReleaseRecorded(j, r, s)
  BY <1>2 DEF ReleaseRecorded
<1>3. CASE r = s \/ VerdictGiven(r, s)
  <2>1. escrows[j].status = "Released"
    BY <1>1, <1>3 DEF VerdictGiven, RailRow, LedgerReleaseIsReal
  <2> QED BY <2>1, ChainStep, EscrowStep DEF EscrowMoves, Refunded, Paid, FundedNow
<1>4. ~Posted(r, s) /\ ~DepositRecorded(j, r, s)
  BY <1>1 DEF Posted, DepositRecorded, RailRow
<1> QED BY <1>1, <1>2, <1>3, <1>4 DEF JobMoves

\* A request's order stays an order for the reward, and a deposit made stays made.
LEMMA DesksStep ==
  ASSUME MarketInv, [Next]_vars
  PROVE  desk' \in [Desks -> Order \cup {Quiet}] /\ DesksHaveOrders'
<1> USE DEF MarketInv, TypeOK
<1> DEFINE Good(r) == /\ r \in Order \cup {Quiet}
                      /\ r # Quiet => /\ job'[r.dep.job].status # "absent"
                                       /\ r.dep.amount = job'[r.dep.job].reward
                      /\ r.pc = "mined" => r.dep \in deposits'
           Goal == desk' \in [Desks -> Order \cup {Quiet}] /\ DesksHaveOrders'
<1> SUFFICES Goal
  OBVIOUS
<1>0. deposits \subseteq deposits'
  BY ChainStep, ChainTyped
<1>1. ASSUME NEW k \in Desks PROVE Good(desk[k])
  <2>1. CASE desk[k] = Quiet
    BY <2>1 DEF Quiet
  <2>2. CASE desk[k] # Quiet
    <3>1. desk[k].dep.job \in Jobs
      BY <2>2, OrderFields DEF Deposit
    <3> QED BY <1>0, <2>2, <3>1, LedgerPersists DEF DesksHaveOrders
  <2> QED BY <2>1, <2>2
<1>2. Good(Quiet)
  BY DEF Quiet
<1>3. ASSUME NEW k \in Desks, NEW r, Good(r), desk' = [desk EXCEPT ![k] = r] PROVE Goal
  <2> HIDE DEF Good
  <2>1. \A l \in Desks : Good(desk'[l])
    BY <1>1, <1>3
  <2>2. desk' \in [Desks -> Order \cup {Quiet}]
    BY <1>3 DEF Good
  <2> QED BY <2>1, <2>2 DEF Good, DesksHaveOrders
<1>4. CASE UNCHANGED desk
  BY <1>1, <1>4 DEF DesksHaveOrders
<1>5. ASSUME NEW k \in Desks, NEW i \in Issuers, NEW j \in Jobs, AskCircle(k, i, j) PROVE Goal
  <2>1. PICK expiresAt \in (now + 1) .. MaxTime :
          desk' = [desk EXCEPT ![k] =
            [pc |-> "approve", issuer |-> i,
             dep |-> [job |-> j, amount |-> job[j].reward, expiresAt |-> expiresAt]]]
    BY <1>5 DEF AskCircle
  <2> DEFINE dep == [job |-> j, amount |-> job[j].reward, expiresAt |-> expiresAt]
             r   == [pc |-> "approve", issuer |-> i, dep |-> dep]
  <2>2. job[j].status = "awaiting" /\ job[j].reward \in Amounts /\ job' = job
    BY <1>5 DEF AskCircle, PostedHasReward
  <2>3. expiresAt \in 1 .. MaxTime
    BY <2>1, EscrowAssumption
  <2>4. dep \in Deposit
    BY <2>2, <2>3 DEF Deposit
  <2>5. r \in Order
    BY <2>4 DEF Order
  <2>6. Good(r)
    BY <2>2, <2>5
  <2> QED BY <1>3, <2>1, <2>6
<1>6. ASSUME NEW k \in Desks, NEW pc \in {"ordered", "lost", "mined"}, desk[k] # Quiet,
             desk' = [desk EXCEPT ![k] = [desk[k] EXCEPT !.pc = pc]],
             pc = "mined" => desk[k].dep \in deposits'
      PROVE  Goal
  <2> DEFINE r == [desk[k] EXCEPT !.pc = pc]
  <2>1. r \in Order /\ r.dep = desk[k].dep /\ r.pc = pc
    BY <1>6, OrderFields DEF Order
  <2>2. Good(r)
    BY <1>1, <1>6, <2>1
  <2> QED BY <1>3, <1>6, <2>2
<1>7. ASSUME NEW k \in Desks, CircleMines(k) PROVE Goal
  <2>1. desk[k] # Quiet /\ desk[k].dep \in deposits'
    BY <1>7, OrderFields DEF CircleMines
  <2>2. CASE desk[k].pc = "lost"
    BY <1>2, <1>3, <1>7, <2>2 DEF CircleMines
  <2>3. CASE desk[k].pc # "lost"
    BY <1>6, <1>7, <2>1, <2>3 DEF CircleMines
  <2> QED BY <2>2, <2>3
<1>8. ASSUME NEW k \in Desks, GiveUpPolling(k) PROVE Goal
  <2>1. desk[k] # Quiet
    BY <1>8, OrderFields DEF GiveUpPolling
  <2>2. CASE desk[k].pc = "mined"
    BY <1>2, <1>3, <1>8, <2>2 DEF GiveUpPolling
  <2>3. CASE desk[k].pc # "mined"
    BY <1>6, <1>8, <2>1, <2>3 DEF GiveUpPolling
  <2> QED BY <2>2, <2>3
<1>9. ASSUME NEW k \in Desks, CircleFails(k) \/ VerifyOrder(k) PROVE Goal
  BY <1>2, <1>3, <1>9 DEF CircleFails, VerifyOrder
<1>10. ASSUME NEW k \in Desks, OrderDeposit(k) PROVE Goal
  <2>1. desk[k] # Quiet
    BY <1>10, OrderFields DEF OrderDeposit
  <2> QED BY <1>6, <1>10, <2>1 DEF OrderDeposit
<1> HIDE DEF Goal
<1> QED
  BY <1>4, <1>5, <1>7, <1>8, <1>9, <1>10
  DEF Next, DaemonStep, DeskStep, Mine, PostJob, VerifyDeposit, Approve, Reject, OperatorRefunds,
      OperatorReleases, OperatorFunds, IssuerFunds, IssuerReclaims, RecordDeposit, DropDeposit,
      Poll, Inspect, Skip, Rest, Send, SendFails, SeeReceipt, GiveUpWaiting, Report, LoseReport,
      Crash, MineOk, MineReverted, IssuerReports, RotateOperator, Tick, market, vars

\* A deposit the contract holds names the account that made it.
LEMMA FundedHasIssuerStep ==
  ASSUME MarketInv, [Next]_vars
  PROVE  FundedHasIssuer'
<1> USE DEF MarketInv
<1>0. escrows \in [Jobs -> EscrowRow] /\ ChainMoves
  BY ChainStep DEF TypeOK
<1> SUFFICES ASSUME NEW j \in Jobs, escrows'[j].status = "Funded"
             PROVE  escrows'[j].issuer \in Accounts
  BY DEF FundedHasIssuer
<1>1. CASE escrows'[j] = escrows[j]
  BY <1>1 DEF FundedHasIssuer
<1>2. ASSUME NEW i \in Accounts, NEW dep \in Deposit, DepositMade(i, dep)
      PROVE  escrows'[j].issuer \in Accounts
  <2>1. escrows' = [escrows EXCEPT ![dep.job] =
          [issuer |-> i, agent |-> NoOne, amount |-> dep.amount,
           expiresAt |-> dep.expiresAt, status |-> "Funded"]]
    BY <1>2 DEF DepositMade, fundJob
  <2> QED BY <1>0, <1>1, <2>1
<1>3. CASE escrows'[j] # escrows[j]
  <2>1. FundedNow(escrows[j], escrows'[j])
    BY <1>0, <1>3, EscrowStep DEF EscrowMoves, Refunded, Paid, EscrowRow
  <2>2. ~ClockOrKey /\ ~\E caller \in Accounts, k \in Jobs : RefundMade(caller, k)
    BY <1>0, <1>3, <2>1 DEF ClockOrKey, RefundMade, Refund, FundedNow
  <2>3. ~\E t \in TxIds : MineOk(t)
    BY <1>0, <1>3, <2>1 DEF MineOk, release, ReleasedTo, MayRelease, FundedNow
  <2> QED BY <1>0, <1>2, <2>2, <2>3 DEF ChainMoves
<1> QED BY <1>1, <1>3

\* The invariant holds when nothing has been posted.
LEMMA MarketInvInit == Init => MarketInv
<1> SUFFICES ASSUME Init PROVE MarketInv
  OBVIOUS
<1>1. /\ \A j \in Jobs : job[j] = NoJob /\ escrows[j] = NoEscrow
      /\ \A d \in Daemons : daemon[d] = Idle
      /\ \A t \in TxIds : tx[t] = NoTx
      /\ deposits = {} /\ verified = {}
      /\ \A k \in Desks : desk[k] = Quiet /\ Quiet.pc = "idle"
  BY DEF Init, ChainInit, Quiet
<1>2. Idle.pc = "idle" /\ Idle.queue = {} /\ NoTx.state = "none" /\ NoEscrow.status = "None"
  BY DEF Idle, NoTx, NoEscrow
<1>3. CarriesApproval
  BY <1>1, <1>2 DEF CarriesApproval
<1> QED
  BY <1>1, <1>2, <1>3, NoJobFields, MarketTypeInit
  DEF MarketInv, ApprovedHasAgent, PostedHasReward, FundedHasIssuer, DesksHaveOrders,
      DepositsAreHeld, DepositsCoverReward, DepositsArePosted, PaysApprovedAgent, LedgerReleaseIsReal, InStatus

-----------------------------------------------------------------------------
(* Money.  Every call of the contract moves one escrow, so each sum over   *)
(* escrows changes by the amount of that one.                              *)

AmountOf  == [j \in Jobs |-> escrows[j].amount]
Held(a)   == {j \in InStatus("Funded") \cup InStatus("Released") : escrows[j].issuer = a}
Earned(a) == {j \in InStatus("Released") : escrows[j].agent = a}

\* What one escrow adds to the contract's balance and to an account's two sums.
FundedPart(r)    == IF r.status = "Funded" THEN r.amount ELSE 0
HeldPart(r, a)   == IF r.status \in {"Funded", "Released"} /\ r.issuer = a THEN r.amount ELSE 0
EarnedPart(r, a) == IF r.status = "Released" /\ r.agent = a THEN r.amount ELSE 0

Books == Solvency /\ EveryoneWhole

\* When one escrow moves, two sums over the escrows differ by its amounts.
LEMMA OneEscrowMoves ==
  ASSUME escrows \in [Jobs -> EscrowRow], escrows' \in [Jobs -> EscrowRow],
         NEW j \in Jobs, \A k \in Jobs : k # j => escrows'[k] = escrows[k],
         NEW S \in SUBSET Jobs, NEW U \in SUBSET Jobs, S \ {j} = U \ {j}
  PROVE  \E rest \in Nat :
           /\ SumFunctionOnSet(AmountOf, S) = rest + IF j \in S THEN escrows[j].amount ELSE 0
           /\ SumFunctionOnSet(AmountOf', U) = rest + IF j \in U THEN escrows'[j].amount ELSE 0
<1>1. IsFiniteSet(S) /\ IsFiniteSet(U)
  BY EscrowAssumption, FS_Subset
<1>2. PICK w : w = AmountOf
  OBVIOUS
<1>3. PICK v : v = AmountOf'
  OBVIOUS
<1>4. \A k \in Jobs : w[k] = escrows[k].amount /\ w[k] \in Nat
  BY <1>2 DEF AmountOf, EscrowRow
<1>5. \A k \in Jobs : v[k] = escrows'[k].amount /\ v[k] \in Nat
  BY <1>3 DEF AmountOf, EscrowRow
<1>6. \A k \in S \ {j} : v[k] = w[k]
  BY <1>4, <1>5
<1>7. (\A k \in S : w[k] \in Nat) /\ (\A k \in U : v[k] \in Nat)
  BY <1>4, <1>5
<1>8. PICK rest \in Nat :
        /\ SumFunctionOnSet(w, S) = rest + IF j \in S THEN w[j] ELSE 0
        /\ SumFunctionOnSet(v, U) = rest + IF j \in U THEN v[j] ELSE 0
  BY <1>1, <1>6, <1>7, SumChanges
<1> QED BY <1>2, <1>3, <1>4, <1>5, <1>8

\* Adding the same to both sides of an account's books.
LEMMA SameBalance ==
  ASSUME NEW before \in Nat, NEW after \in Nat, NEW held \in Nat, NEW hold \in Nat,
         NEW earned \in Nat, NEW earn \in Nat, NEW start \in Nat, NEW rest \in Nat,
         NEW left \in Nat,
         after + hold + earned = before + held + earn,
         before + (rest + held) = start + (left + earned)
  PROVE  after + (rest + hold) = start + (left + earn)
  OBVIOUS

\* The books stay balanced when the balances change as one escrow's parts do.
LEMMA BooksFollow ==
  ASSUME Books, NEW j \in Jobs, \A k \in Jobs : k # j => escrows'[k] = escrows[k],
         escrows \in [Jobs -> EscrowRow], escrows' \in [Jobs -> EscrowRow],
         usdc \in [Accounts \cup {Contract} -> Nat], usdc' \in [Accounts \cup {Contract} -> Nat],
         usdc'[Contract] + FundedPart(escrows[j]) = usdc[Contract] + FundedPart(escrows'[j]),
         \A a \in Accounts :
           usdc'[a] + HeldPart(escrows'[j], a) + EarnedPart(escrows[j], a)
             = usdc[a] + HeldPart(escrows[j], a) + EarnedPart(escrows'[j], a)
  PROVE  Books'
<1>0. /\ escrows[j].amount \in Nat /\ escrows'[j].amount \in Nat
      /\ usdc[Contract] \in Nat /\ usdc'[Contract] \in Nat
      /\ \A a \in Accounts : usdc[a] \in Nat /\ usdc'[a] \in Nat /\ Endowment[a] \in Nat
  BY EscrowAssumption DEF EscrowRow
<1>1. Solvency'
  <2> DEFINE S == InStatus("Funded")  U == InStatus("Funded")'
  <2>1. S \in SUBSET Jobs /\ U \in SUBSET Jobs /\ S \ {j} = U \ {j}
    BY DEF InStatus
  <2>2. (j \in S <=> escrows[j].status = "Funded") /\ (j \in U <=> escrows'[j].status = "Funded")
    BY DEF InStatus
  <2> HIDE DEF S, U
  <2>3. PICK rest \in Nat :
          /\ SumFunctionOnSet(AmountOf, S) = rest + IF j \in S THEN escrows[j].amount ELSE 0
          /\ SumFunctionOnSet(AmountOf', U) = rest + IF j \in U THEN escrows'[j].amount ELSE 0
    BY <2>1, OneEscrowMoves
  <2>4. usdc[Contract] = SumFunctionOnSet(AmountOf, S)
    BY DEF Books, Solvency, SumOf, AmountOf, S
  <2>5. usdc'[Contract] = SumFunctionOnSet(AmountOf', U)
    BY <1>0, <2>2, <2>3, <2>4 DEF FundedPart
  <2> QED BY <2>5 DEF Solvency, SumOf, AmountOf, U
<1>2. ASSUME NEW a \in Accounts
      PROVE  usdc'[a] + SumFunctionOnSet(AmountOf', Held(a)')
               = Endowment[a] + SumFunctionOnSet(AmountOf', Earned(a)')
  <2> DEFINE H == Held(a)  G == Held(a)'  E == Earned(a)  F == Earned(a)'
  <2>1. /\ H \in SUBSET Jobs /\ G \in SUBSET Jobs /\ H \ {j} = G \ {j}
        /\ E \in SUBSET Jobs /\ F \in SUBSET Jobs /\ E \ {j} = F \ {j}
    BY DEF InStatus, Held, Earned
  <2>2. /\ j \in H <=> escrows[j].status \in {"Funded", "Released"} /\ escrows[j].issuer = a
        /\ j \in G <=> escrows'[j].status \in {"Funded", "Released"} /\ escrows'[j].issuer = a
        /\ j \in E <=> escrows[j].status = "Released" /\ escrows[j].agent = a
        /\ j \in F <=> escrows'[j].status = "Released" /\ escrows'[j].agent = a
    BY DEF InStatus, Held, Earned
  <2>3. usdc[a] + SumFunctionOnSet(AmountOf, H) = Endowment[a] + SumFunctionOnSet(AmountOf, E)
    BY DEF Books, EveryoneWhole, SumOf, AmountOf, Held, Earned
  <2> HIDE DEF H, G, E, F
  <2>4. PICK rest \in Nat :
          /\ SumFunctionOnSet(AmountOf, H) = rest + IF j \in H THEN escrows[j].amount ELSE 0
          /\ SumFunctionOnSet(AmountOf', G) = rest + IF j \in G THEN escrows'[j].amount ELSE 0
    BY <2>1, OneEscrowMoves
  <2>5. PICK left \in Nat :
          /\ SumFunctionOnSet(AmountOf, E) = left + IF j \in E THEN escrows[j].amount ELSE 0
          /\ SumFunctionOnSet(AmountOf', F) = left + IF j \in F THEN escrows'[j].amount ELSE 0
    BY <2>1, OneEscrowMoves
  <2>6. /\ SumFunctionOnSet(AmountOf, H) = rest + HeldPart(escrows[j], a)
        /\ SumFunctionOnSet(AmountOf', G) = rest + HeldPart(escrows'[j], a)
        /\ SumFunctionOnSet(AmountOf, E) = left + EarnedPart(escrows[j], a)
        /\ SumFunctionOnSet(AmountOf', F) = left + EarnedPart(escrows'[j], a)
    BY <2>2, <2>4, <2>5 DEF HeldPart, EarnedPart
  <2>7. /\ HeldPart(escrows[j], a) \in Nat /\ HeldPart(escrows'[j], a) \in Nat
        /\ EarnedPart(escrows[j], a) \in Nat /\ EarnedPart(escrows'[j], a) \in Nat
    BY <1>0 DEF HeldPart, EarnedPart
  <2>8. usdc'[a] + SumFunctionOnSet(AmountOf', G) = Endowment[a] + SumFunctionOnSet(AmountOf', F)
    <3>1. /\ usdc'[a] + HeldPart(escrows'[j], a) + EarnedPart(escrows[j], a)
               = usdc[a] + HeldPart(escrows[j], a) + EarnedPart(escrows'[j], a)
          /\ usdc[a] + (rest + HeldPart(escrows[j], a))
               = Endowment[a] + (left + EarnedPart(escrows[j], a))
      BY <2>3, <2>6
    <3>2. usdc'[a] + (rest + HeldPart(escrows'[j], a))
            = Endowment[a] + (left + EarnedPart(escrows'[j], a))
      BY <1>0, <2>7, <3>1, SameBalance
    <3> QED BY <2>6, <3>2
  <2> QED BY <2>8 DEF G, F
<1>3. EveryoneWhole'
  BY <1>2 DEF EveryoneWhole, SumOf, AmountOf, Held, Earned
<1> QED BY <1>1, <1>3 DEF Books

\* A transfer between two accounts: what the one loses the other gains.
LEMMA TransferEffect ==
  ASSUME usdc \in [Accounts \cup {Contract} -> Nat], NEW from \in Accounts \cup {Contract},
         NEW to \in Accounts \cup {Contract}, from # to, NEW amount, Transfer(from, to, amount)
  PROVE  /\ usdc'[from] = usdc[from] - amount /\ usdc'[to] = usdc[to] + amount
         /\ \A a \in Accounts \cup {Contract} : a \notin {from, to} => usdc'[a] = usdc[a]
  BY DEF Transfer

\* Whatever a step does on chain, no money appears or disappears.
LEMMA BooksStep ==
  ASSUME MarketInv, ChainMoves, Books
  PROVE  Books'
<1>0. /\ escrows \in [Jobs -> EscrowRow] /\ escrows' \in [Jobs -> EscrowRow]
      /\ usdc \in [Accounts \cup {Contract} -> Nat] /\ usdc' \in [Accounts \cup {Contract} -> Nat]
      /\ Contract \notin Accounts /\ NoOne \notin Accounts
  BY ChainTyped, EscrowAssumption DEF MarketInv, TypeOK
<1>1. CASE ClockOrKey
  BY <1>1 DEF ClockOrKey, Books, Solvency, EveryoneWhole, SumOf, InStatus
<1>2. ASSUME NEW i \in Accounts, NEW dep \in Deposit, DepositMade(i, dep) PROVE Books'
  <2> DEFINE j == dep.job  r == escrows[j]  s == escrows'[j]  amount == dep.amount
  <2>1. j \in Jobs /\ amount \in Nat
    BY DepositFields
  <2>2. s = [issuer |-> i, agent |-> NoOne, amount |-> amount,
             expiresAt |-> dep.expiresAt, status |-> "Funded"]
    BY <1>0, <1>2, <2>1 DEF DepositMade, fundJob
  <2>3. r.status \in {"None", "Refunded"} /\ \A k \in Jobs : k # j => escrows'[k] = escrows[k]
    BY <1>0, <1>2 DEF DepositMade, fundJob
  <2>4. /\ usdc'[i] = usdc[i] - amount /\ usdc'[Contract] = usdc[Contract] + amount
        /\ \A a \in Accounts : a # i => usdc'[a] = usdc[a]
    BY <1>0, <1>2, TransferEffect DEF DepositMade, fundJob
  <2>5. FundedPart(r) = 0 /\ FundedPart(s) = amount
    BY <2>2, <2>3 DEF FundedPart
  <2>6. \A a \in Accounts : /\ HeldPart(r, a) = 0 /\ EarnedPart(r, a) = 0 /\ EarnedPart(s, a) = 0
                             /\ HeldPart(s, a) = IF a = i THEN amount ELSE 0
    BY <2>2, <2>3 DEF HeldPart, EarnedPart
  <2> HIDE DEF j, r, s, amount
  <2>7. usdc'[Contract] + FundedPart(r) = usdc[Contract] + FundedPart(s)
    BY <1>0, <2>1, <2>4, <2>5
  <2>8. ASSUME NEW a \in Accounts
        PROVE  usdc'[a] + HeldPart(s, a) + EarnedPart(r, a) = usdc[a] + HeldPart(r, a) + EarnedPart(s, a)
    BY <1>0, <2>1, <2>4, <2>6
  <2> QED BY <1>0, <2>1, <2>3, <2>7, <2>8, BooksFollow DEF r, s
<1>3. ASSUME NEW caller \in Accounts, NEW j \in Jobs, RefundMade(caller, j) PROVE Books'
  <2> DEFINE r == escrows[j]  s == escrows'[j]  amount == r.amount  i == r.issuer
  <2>1. amount \in Nat /\ r.status = "Funded" /\ r \in EscrowRow /\ i \in Accounts
    BY <1>0, <1>3 DEF RefundMade, Refund, EscrowRow, MarketInv, FundedHasIssuer
  <2>2. s = [r EXCEPT !.status = "Refunded"] /\ \A k \in Jobs : k # j => escrows'[k] = escrows[k]
    BY <1>0, <1>3 DEF RefundMade, Refund
  <2>3. /\ usdc'[i] = usdc[i] + amount /\ usdc'[Contract] = usdc[Contract] - amount
        /\ usdc[Contract] >= amount
        /\ \A a \in Accounts : a # i => usdc'[a] = usdc[a]
    <3>1. Transfer(Contract, i, amount)
      BY <1>3 DEF RefundMade, Refund, RefundReceiver
    <3> QED BY <1>0, <2>1, <3>1, TransferEffect DEF Transfer
  <2>4. s.status = "Refunded"
    BY <2>1, <2>2 DEF EscrowRow
  <2>5. FundedPart(r) = amount /\ FundedPart(s) = 0
    BY <2>1, <2>4 DEF FundedPart
  <2>6. \A a \in Accounts : /\ EarnedPart(r, a) = 0 /\ EarnedPart(s, a) = 0 /\ HeldPart(s, a) = 0
                             /\ HeldPart(r, a) = IF a = i THEN amount ELSE 0
    BY <2>1, <2>4 DEF HeldPart, EarnedPart
  <2> HIDE DEF r, s, amount, i
  <2>7. usdc'[Contract] + FundedPart(r) = usdc[Contract] + FundedPart(s)
    BY <1>0, <2>1, <2>3, <2>5
  <2>8. ASSUME NEW a \in Accounts
        PROVE  usdc'[a] + HeldPart(s, a) + EarnedPart(r, a) = usdc[a] + HeldPart(r, a) + EarnedPart(s, a)
    BY <1>0, <2>1, <2>3, <2>6
  <2> QED BY <1>0, <2>2, <2>7, <2>8, BooksFollow DEF r, s
<1>4. ASSUME NEW t \in TxIds, MineOk(t) PROVE Books'
  <2> DEFINE j == tx[t].job  agent == tx[t].agent  amount == tx[t].amount
             r == escrows[j]  s == escrows'[j]
  <2>0. /\ release(DaemonKey, j, agent, amount) /\ tx[t] \in TxRow /\ j \in Jobs
    BY <1>4 DEF MineOk, MarketInv, TypeOK, CarriesApproval, Approved
  <2>1. /\ agent \in Accounts /\ r.status = "Funded" /\ amount = r.amount
        /\ r \in EscrowRow /\ amount \in Nat
    <3>1. agent \in Accounts \cup {NoOne}
      BY <2>0, TxFields, MarketAssumption
    <3> QED BY <1>0, <2>0, <3>1 DEF release, MayRelease, EscrowRow
  <2>2. s = [r EXCEPT !.status = "Released", !.agent = agent]
        /\ \A k \in Jobs : k # j => escrows'[k] = escrows[k]
    BY <1>0, <2>0 DEF release, ReleasedTo
  <2>3. /\ usdc'[agent] = usdc[agent] + amount /\ usdc'[Contract] = usdc[Contract] - amount
        /\ usdc[Contract] >= amount
        /\ \A a \in Accounts : a # agent => usdc'[a] = usdc[a]
    <3>1. Transfer(Contract, agent, amount)
      BY <2>0 DEF release
    <3> QED BY <1>0, <2>1, <3>1, TransferEffect DEF Transfer
  <2>4. s.status = "Released" /\ s.agent = agent /\ s.issuer = r.issuer /\ s.amount = amount
    BY <2>1, <2>2 DEF EscrowRow
  <2>5. FundedPart(r) = amount /\ FundedPart(s) = 0
    BY <2>1, <2>4 DEF FundedPart
  <2>6. ASSUME NEW a \in Accounts
        PROVE  /\ EarnedPart(r, a) = 0 /\ HeldPart(s, a) = HeldPart(r, a)
               /\ EarnedPart(s, a) = IF a = agent THEN amount ELSE 0
               /\ HeldPart(r, a) \in Nat
    <3> HIDE DEF r, s, amount, agent
    <3>1. EarnedPart(r, a) = 0
      BY <2>1 DEF EarnedPart
    <3>2. EarnedPart(s, a) = IF a = agent THEN amount ELSE 0
      BY <2>4 DEF EarnedPart
    <3>3. HeldPart(r, a) = IF r.issuer = a THEN amount ELSE 0
      BY <2>1 DEF HeldPart
    <3>4. HeldPart(s, a) = IF r.issuer = a THEN amount ELSE 0
      BY <2>4 DEF HeldPart
    <3> QED BY <2>1, <3>1, <3>2, <3>3, <3>4
  <2> HIDE DEF j, r, s, amount, agent
  <2>7. usdc'[Contract] + FundedPart(r) = usdc[Contract] + FundedPart(s)
    BY <1>0, <2>1, <2>3, <2>5
  <2>8. ASSUME NEW a \in Accounts
        PROVE  usdc'[a] + HeldPart(s, a) + EarnedPart(r, a) = usdc[a] + HeldPart(r, a) + EarnedPart(s, a)
    <3>1. usdc'[a] = usdc[a] + EarnedPart(s, a) /\ usdc[a] \in Nat
      BY <1>0, <2>1, <2>3, <2>6
    <3>2. EarnedPart(r, a) = 0 /\ HeldPart(s, a) = HeldPart(r, a) /\ HeldPart(r, a) \in Nat
          /\ EarnedPart(s, a) \in Nat
      BY <2>1, <2>6
    <3> QED BY <3>1, <3>2
  <2> QED BY <1>0, <2>0, <2>2, <2>7, <2>8, BooksFollow DEF r, s
<1> QED BY <1>1, <1>2, <1>3, <1>4 DEF ChainMoves

\* At first the contract holds nothing and every account what it starts with.
LEMMA BooksInit == Init => Books
<1> SUFFICES ASSUME Init PROVE Books
  OBVIOUS
<1>1. \A j \in Jobs : escrows[j].status = "None"
  BY DEF Init, ChainInit, NoEscrow
<1>2. SumFunctionOnSet(AmountOf, {}) = 0
  BY SumFacts, FS_EmptySet
<1>3. Solvency
  <2>1. InStatus("Funded") = {} /\ usdc[Contract] = 0
    BY <1>1 DEF InStatus, Init, ChainInit
  <2> QED BY <1>2, <2>1 DEF Solvency, SumOf, AmountOf
<1>4. ASSUME NEW a \in Accounts
      PROVE  usdc[a] + SumFunctionOnSet(AmountOf, Held(a))
               = Endowment[a] + SumFunctionOnSet(AmountOf, Earned(a))
  <2>1. Held(a) = {} /\ Earned(a) = {}
    BY <1>1 DEF InStatus, Held, Earned
  <2>2. usdc[a] = Endowment[a] /\ Endowment[a] \in Nat
    BY EscrowAssumption DEF Init, ChainInit
  <2> QED BY <1>2, <2>1, <2>2
<1>5. EveryoneWhole
  BY <1>4 DEF EveryoneWhole, SumOf, AmountOf, Held, Earned
<1> QED BY <1>3, <1>5 DEF Books

\* The invariant holds in every reachable state of the market.
THEOREM MarketInvariance == Spec => []MarketInv
<1>1. MarketInv /\ [Next]_vars => MarketInv'
  <2> SUFFICES ASSUME MarketInv, [Next]_vars PROVE MarketInv'
    OBVIOUS
  <2>1. TypeOK'
    BY ChainStep, ChainTyped, VerifiedTyped, JobStep, ProcessStep, TxStep, CrashesTyped, DesksStep
    DEF MarketInv, TypeOK
  <2>2. ApprovedHasAgent' /\ PostedHasReward'
    BY LedgerPersists DEF ApprovedHasAgent, PostedHasReward
  <2> QED
    BY <2>1, <2>2, CarriesApprovalStep, DesksStep, FundedHasIssuerStep, DepositsStay, DepositsCoverRewardStep,
       PaysApprovedStep, ReleaseIsRealStep
    DEF MarketInv
<1> QED
  BY <1>1, MarketInvInit, PTL DEF Spec

\* Every variable of contract, ledger and daemons stays in its domain, whatever the
\* numbers of jobs, daemons and transactions.
THEOREM MarketTypeCorrect == Spec => []TypeOK
<1>1. MarketInv => TypeOK
  BY DEF MarketInv
<1> QED BY <1>1, MarketInvariance, PTL

\* release moves a deposit only to the agent the ledger approved, for the reward
\* it promised, whatever crashes, races of daemons and refunds come in between.
THEOREM PaysOnlyApproved == Spec => []PaysApprovedAgent
<1>1. MarketInv => PaysApprovedAgent
  BY DEF MarketInv
<1> QED BY <1>1, MarketInvariance, PTL

\* escrow-release-receipt records no release the contract has not made.
THEOREM ReleasesAreReal == Spec => []LedgerReleaseIsReal
<1>1. MarketInv => LedgerReleaseIsReal
  BY DEF MarketInv
<1> QED BY <1>1, MarketInvariance, PTL

\* A job fund-escrow called funded is backed by its reward until its deadline,
\* although the ledger checked the chain some steps before it wrote so.
THEOREM FundedIsBacked == Spec => []FundedJobIsBacked
<1>1. MarketInv => FundedJobIsBacked
  <2> SUFFICES ASSUME MarketInv, NEW j \in Jobs, job[j].escrow = "funded",
                      job[j].status # "rejected", now <= job[j].fundTx.expiresAt
               PROVE  /\ escrows[j].status \in {"Funded", "Released"}
                      /\ escrows[j].amount = job[j].reward
    BY DEF FundedJobIsBacked
  <2>1. /\ job[j].fundTx \in deposits /\ job[j].fundTx.job = j
        /\ job[j].fundTx.amount = job[j].reward
    BY DEF MarketInv, DepositsCoverReward
  <2>2. Backs(job[j].fundTx)
    BY <2>1 DEF MarketInv, DepositsAreHeld
  <2> QED BY <2>1, <2>2 DEF Backs
<1> QED BY <1>1, MarketInvariance, PTL

\* The invariant and the books hold together.
LEMMA BooksInvariance == Spec => [](MarketInv /\ Books)
<1>1. Init => Books
  BY BooksInit
<1>2. MarketInv /\ Books /\ [Next]_vars => Books'
  BY ChainStep, BooksStep DEF MarketInv
<1> QED BY <1>1, <1>2, MarketInvariance, PTL DEF Spec

\* ProofletEscrowV2 always holds exactly the deposits it has neither released nor
\* refunded, for any number of jobs that share its balance.
THEOREM ContractIsSolvent == Spec => []Solvency
<1>1. Books => Solvency
  BY DEF Books
<1> QED BY <1>1, BooksInvariance, PTL

\* No deposit is paid out twice or lost, and every account has what it started with,
\* less its deposits, plus its rewards, whatever Circle, daemons and operator retry.
THEOREM NoMoneyIsLost == Spec => []EveryoneWhole
<1>1. Books => EveryoneWhole
  BY DEF Books
<1> QED BY <1>1, BooksInvariance, PTL

=============================================================================
