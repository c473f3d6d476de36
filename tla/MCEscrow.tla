------------------------------ MODULE MCEscrow ------------------------------
(***************************************************************************)
(* Instances of EscrowMarket for TLC.                                      *)
(***************************************************************************)
EXTENDS EscrowMarket, TLC

CONSTANT KeyPurse   \* USDC of the operator's account at first

Everyone == Issuers \cup Agents \cup {DaemonKey}

\* Every issuer starts with two rewards' worth of USDC, the agents with none.
Purses == [a \in Everyone |-> IF a \in Issuers THEN 2
                             ELSE IF a = DaemonKey THEN KeyPurse ELSE 0]

Symmetric == Permutations(Jobs) \cup Permutations(Issuers) \cup Permutations(Agents)
               \cup Permutations(Daemons) \cup Permutations(Desks)
              \cup Permutations(TxIds)

=============================================================================
