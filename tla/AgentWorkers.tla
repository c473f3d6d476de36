---------------------------- MODULE AgentWorkers ----------------------------
(***************************************************************************)
(* The workers that live off the board: link-sentinel, freshness-clerk,    *)
(* context-press and llm-analyst.  Each is a loop: list the open jobs, rank*)
(* them, claim the first that lets itself be claimed, do the work, submit  *)
(* the proof; whatever goes wrong ends the cycle, and an abandoned claim is*)
(* left to its lease.  The API's side is one step per request here; its    *)
(* own races are ProofletLedger's.                                         *)
(***************************************************************************)
EXTENDS Integers, FiniteSets

CONSTANTS
  Crew, Role,     \* worker processes, and which program each runs
  Skills,         \* its capabilities: what it and its registration say it can do
  Once,           \* workers started with --once
  Offers, Kind, Input,  \* jobs, their type, and what their input is like
  Reward, Cost,   \* the reward, and what an LLM call for it is estimated to cost
  Ranking,        \* which job each worker values first, second, ...
  Grade,          \* what a job asks for: 1 starter, 2 standard, 3 trusted, 4 more than any level
  Ratings,        \* levels a worker's record may pass through; 0 is refused every job
  Nobody

ASSUME CrewAssumption ==
  /\ Role \in [Crew -> {"sentinel", "clerk", "press", "analyst"}]
  /\ Input \in [Offers -> {"url", "text", "short"}]
  /\ Reward \in [Offers -> Nat] /\ Cost \in [Offers -> Nat]
  /\ Grade \in [Offers -> 1..4] /\ Ratings \in [Crew -> SUBSET (0..3)]
  /\ \A w \in Crew : Ranking[w] \in [Offers -> Nat]
  /\ Nobody \notin Crew \cup Offers /\ Once \subseteq Crew

VARIABLES
  board,    \* jobs.status: "unfunded" is open but awaits funding, "lapsed" is claimed
            \* under a lease that has run out
  holder,   \* jobs.claimed_by
  access,   \* job_access_payments: who has paid for the right to claim what
  level,    \* agent_reputation_summary.access_level, 0 with a duplicate proof or a block
  loop      \* the workers

crewVars == <<board, holder, access, level, loop>>

Loop    == [pc : {"list", "claim", "perform", "prove", "stopped"},
            queue : SUBSET Offers, job : Offers \cup {Nobody}]
Fresh   == [pc |-> "list", queue |-> {}, job |-> Nobody]
Stopped == [Fresh EXCEPT !.pc = "stopped"]

CrewInit ==
  /\ board \in [Offers -> {"unposted", "open"}]
  /\ holder = [o \in Offers |-> Nobody]
  /\ access = {}
  /\ level \in [Crew -> 0..3] /\ \A w \in Crew : level[w] \in Ratings[w]
  /\ loop \in [Crew -> {Fresh, Stopped}]

-----------------------------------------------------------------------------
(* Slips: single definitions below, changed the way a bug would.           *)

NoSweep == board
KeepsJob(w) == loop' = [loop EXCEPT ![w].pc = IF w \in Once THEN "stopped" ELSE "list"]

-----------------------------------------------------------------------------
(* What each program can do.                                               *)

SentinelTakes(o) == Kind[o] = "link_verification" /\ Input[o] = "url"
ClerkTakes(o)    == Kind[o] = "freshness_check" /\ Input[o] = "url"
PressTakes(o)    == Kind[o] = "context_compression"
AnalystTakes(o)  == Input[o] = "text"

\* performJob gets as far as a result; a failed fetch is a result too.
Takes(w, o) ==
  \/ Role[w] = "sentinel" /\ SentinelTakes(o)
  \/ Role[w] = "clerk"    /\ ClerkTakes(o)
  \/ Role[w] = "press"    /\ PressTakes(o)
  \/ Role[w] = "analyst"  /\ AnalystTakes(o)

\* estimateJobEconomics: a margin of at least a fifth of the reward
Profitable(o) == Reward[o] > Cost[o] /\ 5 * (Reward[o] - Cost[o]) >= Reward[o]

Wanted(w, o) == Kind[o] \in Skills[w] /\ (Role[w] = "analyst" => Profitable(o))

\* The statuses at which a refused claim ends the cycle instead of the candidate.
EndsCycle(w) == IF Role[w] = "analyst" THEN {} ELSE {402}

-----------------------------------------------------------------------------
(* The API.                                                                *)

\* expireLeases
Swept == [o \in Offers |-> IF board[o] = "lapsed" THEN "open" ELSE board[o]]

Listed(o) == Swept[o] \in {"open", "unfunded"}

Leases(w) == {o \in Offers : Swept[o] = "claimed" /\ holder[o] = w}

\* ACCESS_POLICY: the active leases of each level
LeasesOf == <<1, 3, 5>>

\* evaluateJobAccess, but for the leases; a level of 0 is below every grade
MayTake(w, o) == Grade[o] <= level[w]

\* How the API answers a claim of o by w: 409 of a job that is not open or not
\* funded and of a worker that is not eligible, 402 without paid access.
Refused(w, o) == \/ Swept[o] # "open"
                 \/ ~MayTake(w, o)
                 \/ Cardinality(Leases(w)) >= LeasesOf[level[w]]
Answer(w, o) == IF Refused(w, o) THEN 409 ELSE IF <<w, o>> \notin access THEN 402 ELSE 200

\* UPDATE jobs ... AND status = 'open', and the claim's row
Granted(w, o) == /\ board' = [Swept EXCEPT ![o] = "claimed"]
                 /\ holder' = [holder EXCEPT ![o] = w]

\* The proof's row, its claim submitted and its job complete; 409 without a live claim.
Proved(w, o) == IF Swept[o] = "claimed" /\ holder[o] = w THEN [Swept EXCEPT ![o] = "proved"]
                                                         ELSE Swept

Post(o) == /\ board[o] = "unposted" /\ \E b \in {"open", "unfunded"} : board' = [board EXCEPT ![o] = b]
           /\ UNCHANGED <<holder, access, level, loop>>

\* The issuer's deposit is verified.
Fund(o) == /\ board[o] = "unfunded" /\ board' = [board EXCEPT ![o] = "open"]
           /\ UNCHANGED <<holder, access, level, loop>>

\* The record of a worker is rebuilt, after verdicts, payments, lapses and flags.
Rerated(w) == /\ \E n \in Ratings[w] \ {level[w]} : level' = [level EXCEPT ![w] = n]
              /\ UNCHANGED <<board, holder, access, loop>>

\* At any time: a lease need not outlast the answer, the work and the proof together.
LeaseRunsOut(o) == /\ board[o] = "claimed" /\ board' = [board EXCEPT ![o] = "lapsed"]
                   /\ UNCHANGED <<holder, access, level, loop>>

-----------------------------------------------------------------------------
(* The loop.                                                               *)

LoopAt(w, pc) == loop[w].pc = pc

\* The candidates are sorted once and tried in that order.
Attempts(w, o) == /\ LoopAt(w, "claim") /\ o \in loop[w].queue
                  /\ \A p \in loop[w].queue : Ranking[w][o] <= Ranking[w][p]

EndCycle(w) == loop' = [loop EXCEPT ![w] = IF w \in Once THEN Stopped ELSE Fresh]

\* GET /jobs; without a candidate the worker sleeps and lists again.
List(w) ==
  /\ LoopAt(w, "list")
  /\ board' = Swept
  /\ LET found == {o \in Offers : Listed(o) /\ Wanted(w, o)}
     IN  IF found = {} THEN EndCycle(w)
         ELSE loop' = [loop EXCEPT ![w] = [pc |-> "claim", queue |-> found, job |-> Nobody]]
  /\ UNCHANGED <<holder, access, level>>

\* The analyst pays the access fee before every claim, if it can.
PayBefore(w, o) == /\ Role[w] = "analyst" /\ Attempts(w, o)
                   /\ <<w, o>> \notin access
                   /\ access' = access \cup {<<w, o>>}
                   /\ UNCHANGED <<board, holder, level, loop>>

\* pay-job-access, run by whoever operates the worker.
PayAccess(w, o) == /\ Role[w] # "analyst" /\ Wanted(w, o) /\ <<w, o>> \notin access
                   /\ access' = access \cup {<<w, o>>}
                   /\ UNCHANGED <<board, holder, level, loop>>

\* The API grants the claim; the answer may be lost, or come after the timeout.
Claim(w, o, answered) ==
  /\ Attempts(w, o) /\ Answer(w, o) = 200
  /\ Granted(w, o)
  /\ IF answered THEN loop' = [loop EXCEPT ![w] = [pc |-> "perform", queue |-> {}, job |-> o]]
                 ELSE EndCycle(w)
  /\ UNCHANGED <<access, level>>

\* SQLite rolls the sweep of a refused claim back, Postgres does not.
ClaimRefused(w, o) ==
  /\ Attempts(w, o)
  /\ LET rest == loop[w].queue \ {o}
     IN  /\ Answer(w, o) # 200
         /\ IF Answer(w, o) \in EndsCycle(w) \/ rest = {} THEN EndCycle(w)
            ELSE loop' = [loop EXCEPT ![w].queue = rest]
  /\ board' \in {board, Swept}
  /\ UNCHANGED <<holder, access, level>>

\* A request that does not reach the API.
RequestLost(w) == /\ loop[w].pc \in {"list", "claim", "prove"} /\ EndCycle(w)
                  /\ UNCHANGED <<board, holder, access, level>>

\* performJob throws on a job it cannot do; the LLM may fail on any.
Perform(w) ==
  /\ LoopAt(w, "perform")
  /\ \/ Takes(w, loop[w].job) /\ loop' = [loop EXCEPT ![w].pc = "prove"]
     \/ (Role[w] = "analyst" \/ ~Takes(w, loop[w].job)) /\ EndCycle(w)
  /\ UNCHANGED <<board, holder, access, level>>

\* POST proof, whether the answer arrives or not
SubmitProof(w) ==
  /\ LoopAt(w, "prove")
  /\ board' = Proved(w, loop[w].job)
  /\ EndCycle(w)
  /\ UNCHANGED <<holder, access, level>>

WorkerStep(w) ==
  \/ List(w) \/ RequestLost(w) \/ Perform(w) \/ SubmitProof(w)
  \/ \E o \in Offers : \/ PayBefore(w, o) \/ ClaimRefused(w, o)
                       \/ \E answered \in BOOLEAN : Claim(w, o, answered)

CrewNext ==
  \/ \E w \in Crew : WorkerStep(w) \/ Rerated(w) \/ \E o \in Offers : PayAccess(w, o)
  \/ \E o \in Offers : Post(o) \/ Fund(o) \/ LeaseRunsOut(o)

\* Loops run on, time passes, and no request is lost for ever.
CrewFairness ==
  /\ \A w \in Crew : /\ WF_crewVars(Perform(w))
                     /\ WF_crewVars(\E o \in Offers : ClaimRefused(w, o))
                     /\ SF_crewVars(List(w)) /\ SF_crewVars(SubmitProof(w))
                     /\ \A o \in Offers : SF_crewVars(Claim(w, o, TRUE))
  /\ \A o \in Offers : WF_crewVars(LeaseRunsOut(o))

-----------------------------------------------------------------------------
(* Properties.                                                             *)

CrewTypeOK ==
  /\ board \in [Offers -> {"unposted", "unfunded", "open", "claimed", "lapsed", "proved"}]
  /\ holder \in [Offers -> Crew \cup {Nobody}]
  /\ access \subseteq Crew \X Offers
  /\ level \in [Crew -> 0..3] /\ \A w \in Crew : level[w] \in Ratings[w]
  /\ loop \in [Crew -> Loop]
  /\ \A w \in Crew : /\ LoopAt(w, "claim") <=> loop[w].queue # {}
                     /\ loop[w].pc \in {"perform", "prove"} <=> loop[w].job # Nobody

\* The lease of the job a worker is at ends before its proof is in.
Overtaken(w, o) == loop[w].job = o /\ holder[o] = w /\ LeaseRunsOut(o)

\* A funded job that a running worker can do, has paid for and values most is proved if
\* the worker's record admits it to the job for good and its leases end before its proofs
\* only finitely often: whatever jobs below it are refused, fail, stay unpaid or hold the
\* worker's leases, and however often answers are lost (rankAndClaim, pollForever).
BestJobServed ==
  \A w \in {x \in Crew \ Once : Role[x] # "analyst"} :
  \A o \in {p \in Offers : Ranking[w][p] = 1 /\ Wanted(w, p) /\ Takes(w, p)} :
    <>[]MayTake(w, o) /\ <>[][~Overtaken(w, o)]_crewVars
      => ((~LoopAt(w, "stopped") /\ board[o] = "open" /\ <<w, o>> \in access)
            ~> board[o] = "proved")

=============================================================================
