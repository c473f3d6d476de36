------------------------------ MODULE JobBoard ------------------------------
(***************************************************************************)
(* What the ledger promises to issuers and agents, without requests,       *)
(* statements or tables: a funded job is held by at most one agent, a lease*)
(* that runs out frees it, a verdict closes it once and for all, and a     *)
(* payload earns at most one reward.                                       *)
(***************************************************************************)
EXTENDS Naturals, FiniteSets

CONSTANTS Jobs, Agents, Payloads, Verdicts, MaxActiveLeases, None

VARIABLES
  phase,   \* per job: "unposted", "unfunded", "open" or "closed"
  holder,  \* per job: the agent with the lease, or None
  verdict, \* per job: the verdict that closed it, or None
  spent    \* payloads that have earned a reward

vars == <<phase, holder, verdict, spent>>

Leases(a) == {j \in Jobs : holder[j] = a}

Init ==
  /\ phase = [j \in Jobs |-> "unposted"]
  /\ holder = [j \in Jobs |-> None]
  /\ verdict = [j \in Jobs |-> None]
  /\ spent = {}

Post(j) ==
  /\ phase[j] = "unposted"
  /\ \E s \in {"unfunded", "open"} : phase' = [phase EXCEPT ![j] = s]
  /\ UNCHANGED <<holder, verdict, spent>>

Fund(j) ==
  /\ phase[j] = "unfunded"
  /\ phase' = [phase EXCEPT ![j] = "open"]
  /\ UNCHANGED <<holder, verdict, spent>>

Claim(a, j) ==
  /\ phase[j] = "open" /\ holder[j] = None
  /\ Cardinality(Leases(a)) < MaxActiveLeases
  /\ holder' = [holder EXCEPT ![j] = a]
  /\ UNCHANGED <<phase, verdict, spent>>

\* One sweep frees every lease that ran out before it.
Expire(S) ==
  /\ \A j \in S : holder[j] # None
  /\ holder' = [j \in Jobs |-> IF j \in S THEN None ELSE holder[j]]
  /\ UNCHANGED <<phase, verdict, spent>>

\* The holder hands in payload w: the verdict closes the job.
Prove(j, w, v) ==
  /\ phase[j] = "open" /\ holder[j] # None
  /\ v = "verified" => w \notin spent
  /\ phase' = [phase EXCEPT ![j] = "closed"]
  /\ holder' = [holder EXCEPT ![j] = None]
  /\ verdict' = [verdict EXCEPT ![j] = v]
  /\ spent' = IF v = "verified" THEN spent \cup {w} ELSE spent

Next ==
  \/ \E j \in Jobs : Post(j) \/ Fund(j)
  \/ \E a \in Agents, j \in Jobs : Claim(a, j)
  \/ \E S \in SUBSET Jobs : Expire(S)
  \/ \E j \in Jobs, w \in Payloads, v \in Verdicts : Prove(j, w, v)

Spec == Init /\ [][Next]_vars

=============================================================================
