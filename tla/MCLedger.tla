------------------------------ MODULE MCLedger ------------------------------
(***************************************************************************)
(* Instances of ProofletLedger for TLC, with any number of request slots.  *)
(***************************************************************************)
EXTENDS LedgerBoard, TLC

Symmetric == Permutations(Agents) \cup Permutations(ClaimIds)
               \cup Permutations(ProofIds) \cup Permutations(Requests)

\* Every agent may work on every job.
AllEligible == Agents \X Jobs

\* A handler may be cut short after any of its statements, or anywhere but
\* between the two UPDATEs of the sweep.
Anywhere      == PCs \ {"idle"}
OutsideReopen == Anywhere \ {"reopening"}

=============================================================================
