---------------------------- MODULE Adjudication ----------------------------
(***************************************************************************)
(* Subjective proofs on their way to a verdict: the manual adjudicator     *)
(* (adjudication/index.mjs), the GenLayer route (adjudication/genlayer.mjs)*)
(* with the contract it asks, and the reputation events of the verdicts    *)
(* (reputation.mjs).  A proof has at most one GenLayer request (proof_id is*)
(* UNIQUE), so requests are named by their proof.                          *)
(* On Postgres every statement is awaited and requests interleave between  *)
(* any two.  On SQLite statements are synchronous: a request runs on until *)
(* it waits for the GenLayer network.  The manual adjudicator reads its    *)
(* rows synchronously and exists on SQLite only.                           *)
(***************************************************************************)
EXTENDS Integers, FiniteSets

CONSTANTS
  Pending,     \* proofs of subjective jobs, committed as pending_adjudication
  Workers, WorkerOf,   \* agents, and whose proof it is
  Requests,    \* requests to the API in progress at a time
  MaxRestarts  \* bound: API processes that die

ASSUME AdjudicationAssumption ==
  /\ WorkerOf \in [Pending -> Workers]
  /\ MaxRestarts \in Nat

VARIABLES
  postgres,   \* which storage the API was started on
  work,       \* columns of proofs: funding_status and adjudication_status
  jobOf,      \* jobs.status of each proof's job
  request,    \* genlayer_adjudication_requests
  ruling,     \* genlayer_adjudication_decisions.decision
  manual,     \* adjudication_decisions.decision
  call,       \* the adjudicate transaction on the GenLayer network
  consensus,  \* decisions of the contract
  events,     \* reputation_events: how many verdict events each proof has
  summary,    \* agent_reputation_summary: the events it was computed from
  handler,    \* the requests in progress
  restarts

adjudicationVars == <<postgres, work, jobOf, request, ruling, manual, call, consensus, events,
                      summary, handler, restarts>>

Verdicts   == {"approved", "rejected"}
WorkRow    == [funding : {"pending", "payable", "rejected"},
               adjudication : {"pending_adjudication", "submitted", "pending", "failed"} \cup Verdicts]
RequestRow == [status : {"none", "prepared", "submitted", "pending", "failed", "finalized"},
               mode : {"mock", "live"}, tx : BOOLEAN]
Network    == {"send", "ask"}
Handler    == [pc : Network \cup {"idle", "record", "flagSubmitted", "fail", "flagFailed", "pend",
                      "flagPending", "decide", "insert", "finalize", "award", "close", "append",
                      "read", "write"},
               proof : Pending \cup {0}, verdict : Verdicts \cup {"none"}, read : SUBSET Pending]

NoRequest == [pc |-> "idle", proof |-> 0, verdict |-> "none", read |-> {}]

AdjudicationInit ==
  /\ postgres \in BOOLEAN
  /\ work = [p \in Pending |-> [funding |-> "pending", adjudication |-> "pending_adjudication"]]
  /\ jobOf = [p \in Pending |-> "pending"]
  /\ request = [p \in Pending |-> [status |-> "none", mode |-> "live", tx |-> FALSE]]
  /\ ruling = [p \in Pending |-> "none"] /\ manual = [p \in Pending |-> "none"]
  /\ call = [p \in Pending |-> "none"] /\ consensus = [p \in Pending |-> "none"]
  /\ events = [p \in Pending |-> 0] /\ summary = [w \in Workers |-> {}]
  /\ handler = [h \in Requests |-> NoRequest]
  /\ restarts = 0

-----------------------------------------------------------------------------
(* Slips: single definitions below, changed the way a bug would.           *)

AlwaysPending(p)     == TRUE
NoDecisionIsRejection(p) == IF consensus[p] = "none" THEN "rejected" ELSE consensus[p]
BackfillAll          == [p \in Pending |-> IF work[p].funding # "pending" THEN events[p] + 1
                                                                          ELSE events[p]]
ManualUnlessDecided(p) == manual[p] = "none"

-----------------------------------------------------------------------------
(* One step of a request.                                                  *)

Waiting(h) == handler[h].pc \in Network \cup {"idle"}

\* On SQLite only one request at a time is anywhere but in a network wait.
Turn(h)    == postgres \/ \A g \in Requests \ {h} : Waiting(g)

At(h, pc)  == handler[h].pc = pc /\ Turn(h)
Goto(h, pc) == handler' = [handler EXCEPT ![h].pc = pc]
Done(h)    == handler' = [handler EXCEPT ![h] = NoRequest]

\* requirePendingProof
IsPending(p) == work[p].funding = "pending"

\* The guarded proof updates of the request's lifecycle.
Flag(p, s) == work' = IF work[p].funding = "pending"
                      THEN [work EXCEPT ![p].adjudication = s] ELSE work

ledgerRows == <<work, jobOf, ruling, manual>>
network    == <<call, consensus>>
reputation == <<events, summary>>

-----------------------------------------------------------------------------
(* submitGenLayerProof: by an operator, or after the proof has committed.  *)

\* finalizeMockRequest: what the evidence looks like, or what the issuer forces
MockVerdicts(mode) == IF mode = "mock" THEN Verdicts ELSE {"none"}

\* The reads before the INSERT see what it sees: only a request changes them.
Prepare(h, p, m) ==
  /\ At(h, "idle") /\ IsPending(p) /\ request[p].status = "none"
  /\ request' = [request EXCEPT ![p] = [status |-> "prepared", mode |-> m, tx |-> FALSE]]
  /\ \E v \in MockVerdicts(m) : handler' = [handler EXCEPT ![h] =
       [NoRequest EXCEPT !.proof = p, !.pc = IF m = "mock" THEN "decide" ELSE "send",
                         !.verdict = v]]
  /\ UNCHANGED <<postgres, ledgerRows, network, reputation, restarts>>

\* writeContract answers, or fails, or times out after it was sent.
SendCall(h) ==
  /\ At(h, "send")
  /\ \E sent, answered \in BOOLEAN :
       /\ answered => sent
       /\ call' = IF sent THEN [call EXCEPT ![handler[h].proof] = "sent"] ELSE call
       /\ Goto(h, IF answered THEN "record" ELSE "fail")
  /\ UNCHANGED <<postgres, ledgerRows, request, consensus, reputation, restarts>>

RecordSubmitted(h) ==
  /\ At(h, "record")
  /\ request' = [request EXCEPT ![handler[h].proof].status = "submitted",
                                ![handler[h].proof].tx = TRUE]
  /\ Goto(h, "flagSubmitted")
  /\ UNCHANGED <<postgres, ledgerRows, network, reputation, restarts>>

FlagSubmitted(h) ==
  /\ At(h, "flagSubmitted") /\ Flag(handler[h].proof, "submitted") /\ Done(h)
  /\ UNCHANGED <<postgres, jobOf, request, ruling, manual, network, reputation, restarts>>

\* The contract's adjudicate: consensus on a verdict, or an execution error.
Adjudicate(p) ==
  /\ call[p] = "sent"
  /\ \/ \E v \in Verdicts : /\ consensus' = [consensus EXCEPT ![p] = v]
                            /\ call' = [call EXCEPT ![p] = "accepted"]
     \/ call' = [call EXCEPT ![p] = "error"] /\ UNCHANGED consensus
  /\ UNCHANGED <<postgres, ledgerRows, request, reputation, handler, restarts>>

-----------------------------------------------------------------------------
(* syncGenLayerRequest.                                                    *)

StartSync(h, p) ==
  /\ At(h, "idle") /\ request[p].status \in {"prepared", "submitted", "pending"}
  /\ \E v \in MockVerdicts(request[p].mode) : handler' = [handler EXCEPT ![h] =
       [NoRequest EXCEPT !.proof = p, !.verdict = v,
          !.pc = IF request[p].mode = "mock" THEN "decide"
                 ELSE IF request[p].tx THEN "ask" ELSE "fail"]]
  /\ UNCHANGED <<postgres, ledgerRows, request, network, reputation, restarts>>

\* parseNetworkDecision of get_decision
NetworkDecision(p) == consensus[p]

\* getTransaction, then readContract: an answer, not yet, or an error.
Ask(h) ==
  /\ At(h, "ask")
  /\ LET p == handler[h].proof  v == NetworkDecision(p)
     IN  \/ call[p] # "error" /\ v \in Verdicts
            /\ handler' = [handler EXCEPT ![h].pc = "decide", ![h].verdict = v]
         \/ call[p] = "sent" /\ Goto(h, "pend")
         \/ Goto(h, "fail")
  /\ UNCHANGED <<postgres, ledgerRows, request, network, reputation, restarts>>

\* updatePending and markFailed: the request whatever its status, then the proof
\* if it is still pending.
Demote(h) ==
  /\ At(h, "pend") \/ At(h, "fail")
  /\ LET failed == handler[h].pc = "fail"
     IN  /\ request' = [request EXCEPT ![handler[h].proof].status =
                          IF failed THEN "failed" ELSE "pending"]
         /\ Goto(h, IF failed THEN "flagFailed" ELSE "flagPending")
  /\ UNCHANGED <<postgres, ledgerRows, network, reputation, restarts>>

FlagDemoted(h) ==
  /\ At(h, "flagPending") \/ At(h, "flagFailed")
  /\ Flag(handler[h].proof, IF handler[h].pc = "flagFailed" THEN "failed" ELSE "pending")
  /\ Done(h)
  /\ UNCHANGED <<postgres, jobOf, request, ruling, manual, network, reputation, restarts>>

-----------------------------------------------------------------------------
(* finalizeDecision.  What it throws is not caught: no request fails here. *)

Decide(h) ==
  /\ At(h, "decide")
  /\ LET p == handler[h].proof
     IN  IF ruling[p] = "none" /\ IsPending(p) THEN Goto(h, "insert") ELSE Done(h)
  /\ UNCHANGED <<postgres, ledgerRows, request, network, reputation, restarts>>

\* request_id and proof_id are UNIQUE
InsertRuling(h) ==
  /\ At(h, "insert")
  /\ LET p == handler[h].proof
     IN  IF ruling[p] = "none"
         THEN ruling' = [ruling EXCEPT ![p] = handler[h].verdict] /\ Goto(h, "finalize")
         ELSE UNCHANGED ruling /\ Done(h)
  /\ UNCHANGED <<postgres, work, jobOf, manual, request, network, reputation, restarts>>

FinalizeRequest(h) ==
  /\ At(h, "finalize")
  /\ request' = [request EXCEPT ![handler[h].proof].status = "finalized"]
  /\ Goto(h, "award")
  /\ UNCHANGED <<postgres, ledgerRows, network, reputation, restarts>>

\* UPDATE proofs ... AND funding_status = 'pending_adjudication' AND tx_hash IS NULL
Award(p, v) ==
  work' = IF IsPending(p)
          THEN [work EXCEPT ![p] = [funding |-> IF v = "approved" THEN "payable" ELSE "rejected",
                                    adjudication |-> v]]
          ELSE work

AwardProof(h) ==
  /\ At(h, "award") /\ Award(handler[h].proof, handler[h].verdict) /\ Goto(h, "close")
  /\ UNCHANGED <<postgres, jobOf, request, ruling, manual, network, reputation, restarts>>

JobAfter(v) == IF v = "approved" THEN "completed" ELSE "rejected"

\* UPDATE jobs, unguarded
CloseJob(h) ==
  /\ At(h, "close")
  /\ jobOf' = [jobOf EXCEPT ![handler[h].proof] = JobAfter(handler[h].verdict)]
  /\ Goto(h, "append")
  /\ UNCHANGED <<postgres, work, request, ruling, manual, network, reputation, restarts>>

\* appendReputationEvent, then rebuildAgentReputation: read the events, write
\* the summary computed from them.
AppendEvent(h) ==
  /\ At(h, "append")
  /\ events' = [events EXCEPT ![handler[h].proof] = @ + 1]
  /\ Goto(h, "read")
  /\ UNCHANGED <<postgres, ledgerRows, request, network, summary, restarts>>

EventsOf(w) == {p \in Pending : WorkerOf[p] = w /\ events[p] > 0}

ReadEvents(h) ==
  /\ At(h, "read")
  /\ handler' = [handler EXCEPT ![h].read = EventsOf(WorkerOf[handler[h].proof]), ![h].pc = "write"]
  /\ UNCHANGED <<postgres, ledgerRows, request, network, reputation, restarts>>

WriteSummary(h) ==
  /\ At(h, "write")
  /\ summary' = [summary EXCEPT ![WorkerOf[handler[h].proof]] = handler[h].read]
  /\ Done(h)
  /\ UNCHANGED <<postgres, ledgerRows, request, network, events, restarts>>

-----------------------------------------------------------------------------

\* decideProof's check: neither paid nor past pending_adjudication
ManualMayDecide(p) == work[p].adjudication = "pending_adjudication" /\ manual[p] = "none"

\* decideProof, one transaction; it asks about adjudication_status only.
DecideManually(p, v) ==
  /\ ~postgres /\ \A h \in Requests : Waiting(h)
  /\ ManualMayDecide(p)
  /\ manual' = [manual EXCEPT ![p] = v]
  /\ work' = [work EXCEPT ![p] = [funding |-> IF v = "approved" THEN "payable" ELSE "rejected",
                                  adjudication |-> v]]
  /\ jobOf' = [jobOf EXCEPT ![p] = JobAfter(v)]
  /\ events' = [events EXCEPT ![p] = @ + 1]
  /\ summary' = [summary EXCEPT ![WorkerOf[p]] = EventsOf(WorkerOf[p]) \cup {p}]
  /\ UNCHANGED <<postgres, request, ruling, network, handler, restarts>>

\* backfillReputation: an event for each decided proof that has none
Backfilled == [p \in Pending |-> IF work[p].funding # "pending" /\ events[p] = 0 THEN 1 ELSE events[p]]

\* The API dies, with what its requests were at, and starts again; on SQLite with
\* demo data it then backfills and rebuilds every summary.
Restart ==
  /\ restarts < MaxRestarts /\ restarts' = restarts + 1
  /\ handler' = [h \in Requests |-> NoRequest]
  /\ \/ UNCHANGED reputation
     \/ /\ ~postgres /\ events' = Backfilled
        /\ summary' = [w \in Workers |-> {p \in Pending : WorkerOf[p] = w /\ Backfilled[p] > 0}]
  /\ UNCHANGED <<postgres, ledgerRows, request, network>>

-----------------------------------------------------------------------------

HandlerStep(h) ==
  \/ (\E p \in Pending, m \in {"mock", "live"} : Prepare(h, p, m))
  \/ SendCall(h) \/ RecordSubmitted(h) \/ FlagSubmitted(h)
  \/ (\E p \in Pending : StartSync(h, p)) \/ Ask(h) \/ Demote(h) \/ FlagDemoted(h)
  \/ Decide(h) \/ InsertRuling(h) \/ FinalizeRequest(h) \/ AwardProof(h) \/ CloseJob(h)
  \/ AppendEvent(h) \/ ReadEvents(h) \/ WriteSummary(h)

AdjudicationNext ==
  \/ \E h \in Requests : HandlerStep(h)
  \/ \E p \in Pending : Adjudicate(p) \/ \E v \in Verdicts : DecideManually(p, v)
  \/ Restart

AdjudicationSpec == AdjudicationInit /\ [][AdjudicationNext]_adjudicationVars

-----------------------------------------------------------------------------

\* Every column and request has a value of its domain.
AdjudicationTypeOK ==
  /\ postgres \in BOOLEAN
  /\ work \in [Pending -> WorkRow]
  /\ jobOf \in [Pending -> {"pending", "completed", "rejected"}]
  /\ request \in [Pending -> RequestRow]
  /\ ruling \in [Pending -> Verdicts \cup {"none"}]
  /\ manual \in [Pending -> Verdicts \cup {"none"}]
  /\ call \in [Pending -> {"none", "sent", "accepted", "error"}]
  /\ consensus \in [Pending -> Verdicts \cup {"none"}]
  /\ events \in [Pending -> Nat]
  /\ summary \in [Workers -> SUBSET Pending]
  /\ handler \in [Requests -> Handler]
  /\ restarts \in 0 .. MaxRestarts

\* A proof is paid or refused only on a recorded decision: a manual one, or one
\* of GenLayer which, on the live network, is the contract's own.
VerdictHasDecision ==
  \A p \in Pending :
    /\ work[p].funding = "payable" => "approved" \in {ruling[p], manual[p]}
    /\ work[p].funding = "rejected" => "rejected" \in {ruling[p], manual[p]}
    /\ ruling[p] # "none" /\ request[p].mode = "live" => ruling[p] = consensus[p]

\* One verdict on a proof: while the API does not die, never a manual and a
\* GenLayer decision both, and its job ends up as its proof did.
Deciding(p) == \E h \in Requests : handler[h].proof = p /\ handler[h].pc \in {"finalize", "award", "close"}

OneVerdict ==
  \A p \in Pending : restarts = 0 =>
    /\ ruling[p] = "none" \/ manual[p] = "none"
    /\ ~Deciding(p) => jobOf[p] = (CASE work[p].funding = "pending" -> "pending"
                                     [] work[p].funding = "payable" -> "completed"
                                     [] work[p].funding = "rejected" -> "rejected")

\* A verdict is never revised, whatever answers arrive late.
VerdictIsFinal ==
  [][\A p \in Pending : work[p].funding # "pending" => work'[p] = work[p]]_adjudicationVars

\* No verdict counts twice for or against an agent, and only verdicts count;
\* on SQLite the summary is that of the events unless the API died.
VerdictCountsOnce ==
  /\ \A p \in Pending : events[p] <= 1 /\ (events[p] = 1 => work[p].funding # "pending")
  /\ ~postgres /\ restarts = 0 /\ (\A h \in Requests : Waiting(h)) =>
       \A w \in Workers : summary[w] = EventsOf(w)

=============================================================================
