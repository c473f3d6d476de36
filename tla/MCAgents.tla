------------------------------ MODULE MCAgents ------------------------------
(***************************************************************************)
(* What agents meet before the ledger, for TLC: the worker loops, the      *)
(* access fees and the connections requests run on.  They share no         *)
(* variable, so each behaviour runs one of them and the state counts add   *)
(* up instead of multiplying.                                              *)
(***************************************************************************)
EXTENDS AgentWorkers, AccessPayments, ConnectionPool, TLC

CONSTANTS w1, w2, top, essay, a1, a2, a3

VARIABLE service

\* A sentinel that values most a job it can do, and next one it fails; an analyst,
\* started with --once, that wants both and can do only the second.
role    == (w1 :> "sentinel") @@ (w2 :> "analyst")
skills  == [w \in Crew |-> {"link_verification", "content_summary"}]
kind    == (top :> "link_verification") @@ (essay :> "content_summary")
input   == (top :> "url") @@ (essay :> "text")
reward  == (top :> 5) @@ (essay :> 5)
cost    == (top :> 0) @@ (essay :> 4)
ranking == [w \in Crew |-> (top :> 1) @@ (essay :> 2)]

\* The sentinel's record is at times too low for anything, or for the second job; once
\* it has fallen, a lease on the second job is all the leases it may have.
grade   == (top :> 1) @@ (essay :> 2)
ratings == (w1 :> {0, 1, 2}) @@ (w2 :> {2})

\* Two agents are paid at one address, a third at its own.
address == (a1 :> "shared") @@ (a2 :> "shared") @@ (a3 :> "own")

\* Where the crew does not run, no worker has been started.
Init ==
  /\ service \in {"crew", "access", "pool"}
  /\ CrewInit /\ AccessInit /\ PoolInit
  /\ \A w \in Crew : loop[w] = IF service = "crew" THEN Fresh ELSE Stopped
  /\ service # "crew" => /\ \A o \in Offers : board[o] = "unposted"
                         /\ \A w \in Crew : \A n \in Ratings[w] : level[w] <= n
  /\ service # "pool" => dialect = "sqlite"

Next ==
  \/ service = "crew"   /\ CrewNext   /\ UNCHANGED <<accessVars, poolVars, service>>
  \/ service = "access" /\ AccessNext /\ UNCHANGED <<crewVars, poolVars, service>>
  \/ service = "pool"   /\ PoolNext   /\ UNCHANGED <<crewVars, accessVars, service>>

\* Of a service that does not run no fair action is enabled.
Spec == /\ Init /\ [][Next]_<<crewVars, accessVars, poolVars, service>>
        /\ CrewFairness /\ PoolFairness

\* Every variable of the three services has a value of its domain.
TypeOK == CrewTypeOK /\ AccessTypeOK /\ PoolTypeOK

=============================================================================
