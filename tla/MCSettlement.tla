---------------------------- MODULE MCSettlement ----------------------------
(***************************************************************************)
(* Instances of Settlement for TLC: two sub-jobs of one compound job,      *)
(* proved by two agents; remote runners have machines of their own.        *)
(***************************************************************************)
EXTENDS Settlement, TLC

CONSTANTS p1, p2, a1, a2, c1, h1, h2

parentOf == [p \in Proofs |-> c1]
agentOf  == (p1 :> a1) @@ (p2 :> a2)
hostOf   == [r \in Runners |-> IF r \in LocalRunners THEN h1 ELSE h2]

\* Runners of a kind and batch ids are interchangeable.
SettlementSymmetry == Permutations(LocalRunners) \cup Permutations(Batches)

=============================================================================
