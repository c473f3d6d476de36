------------------------------ MODULE EscrowV2 ------------------------------
(***************************************************************************)
(* The ProofletEscrowV2 contract and the USDC balances it moves.  A call   *)
(* that a require refuses reverts and changes nothing, so it is an action  *)
(* whose guard is false.  Time is the block timestamp.                     *)
(***************************************************************************)
EXTENDS Naturals, FiniteSets, Functions

CONSTANTS
  Jobs,       \* job ids: jobIdToBytes32 is injective on the ids in use
  Accounts,   \* externally owned accounts
  Contract,   \* address(this)
  NoOne,      \* address(0)
  Amounts,    \* amounts of USDC in base units that callers name
  Endowment,  \* USDC each account holds at first
  MaxTime     \* bound: the last block timestamp

ASSUME EscrowAssumption ==
  /\ IsFiniteSet(Jobs)
  /\ Amounts \subseteq Nat /\ Endowment \in [Accounts -> Nat] /\ MaxTime \in Nat
  /\ Contract \notin Accounts /\ NoOne \notin Accounts \cup {Contract}

VARIABLES
  escrows,            \* mapping(bytes32 => Escrow)
  usdc,               \* USDC balances
  settlementOperator,
  now                 \* block.timestamp

chain == <<escrows, usdc, settlementOperator, now>>

EscrowStatus == {"None", "Funded", "Released", "Refunded"}
EscrowRow == [issuer : Accounts \cup {NoOne}, agent : Accounts \cup {NoOne},
              amount : Nat, expiresAt : Nat, status : EscrowStatus]
NoEscrow == [issuer |-> NoOne, agent |-> NoOne, amount |-> 0, expiresAt |-> 0,
             status |-> "None"]

ChainInit ==
  /\ escrows = [j \in Jobs |-> NoEscrow]
  /\ usdc = [a \in Accounts \cup {Contract} |-> IF a = Contract THEN 0 ELSE Endowment[a]]
  /\ settlementOperator \in Accounts
  /\ now = 0

-----------------------------------------------------------------------------
(* Slips: single definitions below, changed the way a bug would.           *)

ReleaseKeepsStatus(j, agent)  == [escrows EXCEPT ![j].agent = agent]
RefundToCaller(j, caller)     == caller
ReleaseUnfunded(caller, j, agent, amount) ==
  /\ caller = settlementOperator
  /\ agent # NoOne /\ amount = escrows[j].amount
  /\ now <= escrows[j].expiresAt
TransferBackwards(from, to, amount) ==
  /\ usdc[from] >= amount
  /\ usdc' = [usdc EXCEPT ![to] = @ - amount, ![from] = @ + amount]

-----------------------------------------------------------------------------

\* usdc.transfer and usdc.transferFrom (after approve): balances suffice or revert
Transfer(from, to, amount) ==
  /\ usdc[from] >= amount
  /\ usdc' = [usdc EXCEPT ![from] = @ - amount, ![to] = @ + amount]

fundJob(caller, j, amount, expiresAt) ==
  /\ amount > 0 /\ expiresAt > now
  /\ escrows[j].status \in {"None", "Refunded"}
  /\ Transfer(caller, Contract, amount)
  /\ escrows' = [escrows EXCEPT ![j] =
       [issuer |-> caller, agent |-> NoOne, amount |-> amount,
        expiresAt |-> expiresAt, status |-> "Funded"]]
  /\ UNCHANGED <<settlementOperator, now>>

\* onlyOperator, jobFunded and the requires of release
MayRelease(caller, j, agent, amount) ==
  /\ caller = settlementOperator
  /\ escrows[j].status = "Funded"
  /\ agent # NoOne /\ amount = escrows[j].amount
  /\ now <= escrows[j].expiresAt

ReleasedTo(j, agent) == [escrows EXCEPT ![j].status = "Released", ![j].agent = agent]

release(caller, j, agent, amount) ==
  /\ MayRelease(caller, j, agent, amount)
  /\ escrows' = ReleasedTo(j, agent)
  /\ Transfer(Contract, agent, amount)
  /\ UNCHANGED <<settlementOperator, now>>

\* Both refunds pay the issuer that funded the job.
RefundReceiver(j, caller) == escrows[j].issuer

Refund(caller, j) ==
  /\ escrows[j].status = "Funded"
  /\ escrows' = [escrows EXCEPT ![j].status = "Refunded"]
  /\ Transfer(Contract, RefundReceiver(j, caller), escrows[j].amount)
  /\ UNCHANGED <<settlementOperator, now>>

refundJob(caller, j) == caller = settlementOperator /\ Refund(caller, j)

Expired(j) == now > escrows[j].expiresAt

refundExpired(caller, j) ==
  caller = escrows[j].issuer /\ Expired(j) /\ Refund(caller, j)

transferOperator(caller, newOperator) ==
  /\ caller = settlementOperator
  /\ newOperator # NoOne
  /\ settlementOperator' = newOperator
  /\ UNCHANGED <<escrows, usdc, now>>

NextBlock ==
  /\ now < MaxTime
  /\ now' = now + 1
  /\ UNCHANGED <<escrows, usdc, settlementOperator>>

-----------------------------------------------------------------------------

InStatus(s) == {j \in Jobs : escrows[j].status = s}
SumOf(S)    == SumFunctionOnSet([j \in Jobs |-> escrows[j].amount], S)

\* The contract holds exactly the deposits it has neither released nor refunded (USDC sent
\* to it past its functions, which none of them pays out, is left out).
Solvency == usdc[Contract] = SumOf(InStatus("Funded"))

\* An account has what it started with, less its deposits that are held or were
\* released, plus what was released to it: no deposit is paid out twice, none is
\* lost, and a refund goes back to the account that made it.
EveryoneWhole ==
  \A a \in Accounts :
    usdc[a] + SumOf({j \in InStatus("Funded") \cup InStatus("Released") :
                       escrows[j].issuer = a})
      = Endowment[a] + SumOf({j \in InStatus("Released") : escrows[j].agent = a})

=============================================================================
