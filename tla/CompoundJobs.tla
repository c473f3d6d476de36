---------------------------- MODULE CompoundJobs ----------------------------
(***************************************************************************)
(* Compound jobs (server/compound-jobs.mjs): a parent job split over sub-  *)
(* jobs that different agents prove.  A job takes one proof here, so a     *)
(* proof stands for its sub-job too; how it is claimed and verified is     *)
(* ProofletLedger's.  The verdict on the parent is updated after the proof *)
(* has committed, by the request that submitted it.                        *)
(***************************************************************************)
EXTENDS Integers, FiniteSets

CONSTANTS
  Proofs,      \* proofs, each of a job of its own
  Parents,     \* compound jobs
  ParentOf,    \* jobs.compound_parent_id, by proof
  Batches,     \* settlement batch ids (Settlement)
  MaxCrashes,  \* bound: processes that die
  None

ASSUME CompoundAssumption ==
  /\ ParentOf \in [Proofs -> Parents \cup {None}]
  /\ IsFiniteSet(Proofs) /\ None \notin Parents \cup Batches
  /\ MaxCrashes \in Nat

VARIABLES
  proof,       \* rows of proofs: outcome and funding in one status
  compound,    \* rows of compound_jobs, and the funding of the parent's job
  unchecked,   \* proofs committed by a request that has not looked at the parent yet
  crashes

SubsOf(c)    == {p \in Proofs : ParentOf[p] = c}

ProofRow     == [status : {"absent", "open", "payable", "rejected", "paid"},
                 batch : Batches \cup {None}, tx : Nat]
CompoundRow  == [status : {"absent", "pending", "completed", "failed"},
                 completedSubProofs : Nat]

Accepted(p)  == proof[p].status \in {"payable", "paid"}

CompoundInit ==
  /\ proof = [p \in Proofs |-> [status |-> IF ParentOf[p] = None THEN "open" ELSE "absent",
                                batch |-> None, tx |-> 0]]
  /\ compound = [c \in Parents |-> [status |-> "absent", completedSubProofs |-> 0]]
  /\ unchecked = {} /\ crashes = 0

-----------------------------------------------------------------------------
(* Slips: single definitions below, changed the way a bug would.           *)

AllButOneAccepted(c) == Cardinality({p \in SubsOf(c) : Accepted(p)}) >= Cardinality(SubsOf(c)) - 1

-----------------------------------------------------------------------------

\* POST /jobs/compound: the parent, its sub-jobs and the tracking row, in one
\* transaction; two to four sub-tasks.
createCompoundJob(c) ==
  /\ compound[c].status = "absent"
  /\ Cardinality(SubsOf(c)) \in 2 .. 4
  /\ compound' = [compound EXCEPT ![c].status = "pending"]
  /\ proof' = [p \in Proofs |->
                 IF p \in SubsOf(c) THEN [proof[p] EXCEPT !.status = "open"] ELSE proof[p]]
  /\ UNCHANGED <<unchecked, crashes>>

\* POST /jobs/:jobId/proof up to its commit.
CommitProof(p) ==
  /\ proof[p].status = "open"
  /\ \E s \in {"payable", "rejected"} : proof' = [proof EXCEPT ![p].status = s]
  /\ unchecked' = unchecked \cup {p}
  /\ UNCHANGED <<compound, crashes>>

AllAccepted(c) == Cardinality({p \in SubsOf(c) : Accepted(p)}) >= Cardinality(SubsOf(c))

\* checkCompoundJobCompletion
Completion(c) ==
  compound' = [compound EXCEPT
                 ![c].status = IF AllAccepted(c) THEN "completed" ELSE "pending",
                 ![c].completedSubProofs = Cardinality({p \in SubsOf(c) : Accepted(p)})]

\* checkCompoundJobFailure
Failure(c) == compound' = [compound EXCEPT ![c].status = "failed"]

\* After commit, one or the other; both leave a parent alone that is not pending.
CheckParent(p) ==
  /\ p \in unchecked /\ unchecked' = unchecked \ {p}
  /\ LET c == ParentOf[p]
     IN  IF c = None \/ compound[c].status # "pending" THEN UNCHANGED compound
         ELSE IF Accepted(p) THEN Completion(c) ELSE Failure(c)
  /\ UNCHANGED <<proof, crashes>>

\* The process dies in between: nothing looks at the parent for this proof again.
LoseCheck(p) ==
  /\ p \in unchecked /\ unchecked' = unchecked \ {p}
  /\ crashes < MaxCrashes /\ crashes' = crashes + 1
  /\ UNCHANGED <<proof, compound>>

CompoundNext ==
  \/ \E c \in Parents : createCompoundJob(c)
  \/ \E p \in Proofs : CommitProof(p) \/ CheckParent(p) \/ LoseCheck(p)

-----------------------------------------------------------------------------

\* A parent is completed, and its reward payable, only when the proof of every
\* sub-job was accepted, and failed only when one was rejected; and unless a
\* process died before it looked, it is one or the other once all proofs are in
\* and checked, in whatever order they were.
ParentVerdict ==
  \A c \in Parents :
    /\ compound[c].status = "completed" => \A p \in SubsOf(c) : Accepted(p)
    /\ compound[c].status = "failed" => \E p \in SubsOf(c) : proof[p].status = "rejected"
    /\ compound[c].status = "pending" /\ crashes = 0 /\ SubsOf(c) \cap unchecked = {} =>
         \E p \in SubsOf(c) : proof[p].status = "open"

=============================================================================
