----------------------------- MODULE LedgerBoard -----------------------------
(***************************************************************************)
(* The ledger as a JobBoard: what issuers and agents are promised, read off *)
(* the tables.  A deployment that runs one handler at a time keeps the      *)
(* promise; that is a property of ProofletLedger and a theorem about it.    *)
(***************************************************************************)
EXTENDS ProofletLedger

Phase(row) ==
  IF row.status = "absent" THEN "unposted"
  ELSE IF row.status \in ClosedStatus THEN "closed"
  ELSE IF row.status = "draft" \/ row.funding = "awaiting_wallet_funding" THEN "unfunded"
  ELSE "open"

\* Between the statements of a sweep the claim counts, not the job row.
Holder(j) == IF ActiveOn(j) = {} THEN None
             ELSE claims[CHOOSE c \in ActiveOn(j) : TRUE].agent

ProofsOn(j) == {p \in Recorded : proofs[p].job = j}

VerdictOn(j) == IF ProofsOn(j) = {} THEN None
                ELSE proofs[CHOOSE p \in ProofsOn(j) : TRUE].verdict

phaseBar   == [j \in Jobs |-> Phase(jobs[j])]
holderBar  == [j \in Jobs |-> Holder(j)]
verdictBar == [j \in Jobs |-> VerdictOn(j)]
spentBar   == {proofs[p].payload : p \in {q \in Recorded : proofs[q].verdict = "verified"}}

Board == INSTANCE JobBoard WITH
  phase <- phaseBar, holder <- holderBar, verdict <- verdictBar, spent <- spentBar

\* With one handler at a time the tables implement the job board: every commit
\* is a Claim, an Expire or a Prove of the board or changes nothing it shows.
ImplementsJobBoard == Board!Spec

=============================================================================
