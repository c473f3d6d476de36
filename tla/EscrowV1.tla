------------------------------ MODULE EscrowV1 ------------------------------
(***************************************************************************)
(* The first escrow contract (contracts/Escrow.sol), whose agent is named  *)
(* by the deposit, and the command line of its operator                    *)
(* (workers/settlement-operator.mjs), which reads an escrow and then sends *)
(* a transaction.  A call that a require refuses reverts: no step.  Any     *)
(* address but 0 may be the agent or the next operator, the contract's own *)
(* among them, and anyone may send it USDC beside its deposits.            *)
(***************************************************************************)
EXTENDS Integers, Sequences, FiniteSets, Functions

CONSTANTS
  JobIds, Slots, SlotOf,  \* jobIdToBytes32 keeps 32 bytes: two ids may share a slot
  Purses,        \* externally owned accounts
  Vault,         \* address(this)
  Units,         \* amounts of USDC that depositors name
  Savings,       \* USDC each account holds at first
  ToolKey,       \* the account of SETTLEMENT_OPERATOR_PRIVATE_KEY
  Tools,         \* settlement-operator processes
  MaxEvents,     \* bound: events when a deposit is made
  MaxGifts       \* bound: USDC given to the contract

ASSUME EscrowV1Assumption ==
  /\ Slots # {} /\ IsFiniteSet(Slots)  \* the 2^256 values of bytes32
  /\ SlotOf \in [JobIds -> Slots] /\ Vault \notin Purses /\ ToolKey \in Purses
  /\ Units \subseteq Nat /\ Savings \in [Purses -> Nat] /\ MaxEvents \in Nat /\ MaxGifts \in Nat

VARIABLES
  slot,      \* mapping(bytes32 => Escrow)
  purse,     \* USDC balances
  operator,  \* settlementOperator
  log,       \* the events of each slot, oldest first
  tool,      \* the command-line processes
  gifts      \* USDC sent to the contract by a plain transfer, so far

v1Vars == <<slot, purse, operator, log, tool, gifts>>

Addresses == Purses \cup {Vault}

SlotRow == [issuer : Purses, agent : Addresses, amount : Units,
            status : {"Funded", "Released", "Refunded"}]
NoDeposit   == [status |-> "None"]
ToolRow == [pc : {"idle", "release", "refund"}, slot : Slots]

V1Init ==
  /\ slot = [s \in Slots |-> NoDeposit]
  /\ purse = [a \in Addresses |-> IF a = Vault THEN 0 ELSE Savings[a]]
  /\ operator = ToolKey
  /\ log = [s \in Slots |-> <<>>]
  /\ tool = [t \in Tools |-> [pc |-> "idle", slot |-> CHOOSE s \in Slots : TRUE]]
  /\ gifts = 0

-----------------------------------------------------------------------------
(* Slips: single definitions below, changed the way a bug would.           *)

EverFunded(s) == slot[s].status # "None"

-----------------------------------------------------------------------------

\* transfer and transferFrom of USDC; from the contract to itself, nothing moves.
Pays(from, to, amount) ==
  /\ purse[from] >= amount
  /\ purse' = [a \in Addresses |-> purse[a] - (IF a = from THEN amount ELSE 0)
                                          + (IF a = to THEN amount ELSE 0)]

Emit(s, event, to) ==
  log' = [log EXCEPT ![s] = Append(@, [event |-> event, to |-> to, escrow |-> slot'[s]])]

depositV1(caller, s, agent, amount) ==
  /\ amount > 0 /\ slot[s].status \in {"None", "Refunded"}
  /\ SumFunctionOnSet([t \in Slots |-> Len(log[t])], Slots) < MaxEvents
  /\ Pays(caller, Vault, amount)
  /\ slot' = [slot EXCEPT ![s] = [issuer |-> caller, agent |-> agent, amount |-> amount,
                                  status |-> "Funded"]]
  /\ Emit(s, "Deposited", Vault)
  /\ UNCHANGED <<operator, tool, gifts>>

\* jobExists and the require that both pay-outs make
InFundedState(s) == slot[s].status = "Funded"

PayOut(caller, s, status, to) ==
  /\ caller = operator /\ InFundedState(s)
  /\ slot' = [slot EXCEPT ![s].status = status]
  /\ Pays(Vault, to, slot[s].amount)
  /\ Emit(s, status, to)
  /\ UNCHANGED <<operator, gifts>>

releaseV1(caller, s) == PayOut(caller, s, "Released", slot[s].agent)
refundV1(caller, s)  == PayOut(caller, s, "Refunded", slot[s].issuer)

transferOperatorV1(caller, newOperator) ==
  /\ caller = operator /\ operator' = newOperator
  /\ UNCHANGED <<slot, purse, log, tool, gifts>>

\* A transfer of USDC to the contract's address, which it is not told of.
Gives(caller, amount) ==
  /\ amount > 0 /\ gifts + amount <= MaxGifts
  /\ Pays(caller, Vault, amount)
  /\ gifts' = gifts + amount
  /\ UNCHANGED <<slot, operator, log, tool>>

-----------------------------------------------------------------------------

\* --release=JOB_ID and --refund=JOB_ID read the escrow: none stops them, and so
\* does one that is already where they would bring it.
ToolReads(t, j, pc) ==
  LET status == slot[SlotOf[j]].status
  IN  /\ tool[t].pc = "idle" /\ status # "None"
      /\ status # (IF pc = "release" THEN "Released" ELSE "Refunded")
      /\ tool' = [tool EXCEPT ![t] = [pc |-> pc, slot |-> SlotOf[j]]]
      /\ UNCHANGED <<slot, purse, operator, log, gifts>>

\* writeContract on what is in the slot by then.  A call that would revert throws
\* or is mined as a failure: nothing moves.
ToolSends(t) ==
  LET s == tool[t].slot
  IN  /\ tool[t].pc # "idle"
      /\ \/ tool[t].pc = "release" /\ releaseV1(ToolKey, s)
         \/ tool[t].pc = "refund" /\ refundV1(ToolKey, s)
         \/ UNCHANGED <<slot, purse, operator, log, gifts>>
      /\ tool' = [tool EXCEPT ![t].pc = "idle"]

\* The operator key may have been handed on: its new holder calls directly.
V1Next ==
  \/ \E a \in Purses, b \in Addresses, s \in Slots, u \in Units : depositV1(a, s, b, u)
  \/ \E a \in Purses, s \in Slots :
       a # ToolKey /\ (releaseV1(a, s) \/ refundV1(a, s)) /\ UNCHANGED tool
  \/ \E a \in Purses, b \in Addresses : transferOperatorV1(a, b)
  \/ \E a \in Purses, u \in Units : Gives(a, u)
  \/ \E t \in Tools, j \in JobIds, pc \in {"release", "refund"} : ToolReads(t, j, pc)
  \/ \E t \in Tools : ToolSends(t)

V1Spec == V1Init /\ [][V1Next]_v1Vars

-----------------------------------------------------------------------------

\* Every field of the contract and of the processes has a value of its domain.
V1TypeOK ==
  /\ slot \in [Slots -> SlotRow \cup {NoDeposit}]
  /\ purse \in [Addresses -> Nat]
  /\ operator \in Addresses
  /\ gifts \in Nat
  /\ tool \in [Tools -> ToolRow]

\* What the events of a slot say the contract still holds for it: a deposit
\* without a pay-out, or one that was released to the contract itself.
HeldFor(s) ==
  IF log[s] # <<>> /\ log[s][Len(log[s])].to = Vault
  THEN log[s][Len(log[s])].escrow.amount ELSE 0

\* contracts/Escrow.sol, "Events emitted for full off-chain indexing": whatever
\* two operator processes and a change of operator make of a slot, its events are
\* deposits, each followed by at most one pay-out, of the same amount, to the agent
\* or back to the issuer that deposit named; a release ends them; and beside what
\* it was given, the contract holds exactly the deposits without a pay-out and
\* those released to itself.
EventsAccountForDeposits ==
  /\ \A s \in Slots : \A i \in DOMAIN log[s] :
       LET e == log[s][i]
       IN  /\ (e.event = "Deposited") <=> (i % 2 = 1)
           /\ e.event = "Released" => i = Len(log[s]) /\ e.to = log[s][i - 1].escrow.agent
           /\ e.event = "Refunded" => e.to = log[s][i - 1].escrow.issuer
           /\ i % 2 = 0 => e.escrow.amount = log[s][i - 1].escrow.amount
  /\ purse[Vault] = gifts + SumFunctionOnSet([s \in Slots |-> HeldFor(s)], Slots)

=============================================================================
