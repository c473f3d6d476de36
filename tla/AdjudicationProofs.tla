------------------------- MODULE AdjudicationProofs -------------------------
(***************************************************************************)
(* For any number of proofs, requests and restarts, on either storage: a   *)
(* verdict rests on a recorded decision and is never revised, no proof has *)
(* two while the API lives, and none counts twice.                         *)
(***************************************************************************)
EXTENDS Adjudication, TLAPS

-----------------------------------------------------------------------------
(* The inductive invariant, in parts.                                      *)

\* After its decision row, until its event.
Chain == {"finalize", "award", "close", "append"}

\* With a verdict in hand.
Decider == {"decide", "insert"} \cup Chain \cup {"read", "write"}

FundingAfter(v) == IF v = "approved" THEN "payable" ELSE "rejected"

\* What a request in progress may rely on, from where it is.
HandlerInv(h) ==
  LET p == handler[h].proof  v == handler[h].verdict  pc == handler[h].pc
  IN  /\ pc # "idle" => p \in Pending /\ request[p].status # "none"
      /\ pc = "send" => call[p] = "none"
      /\ pc \in Decider => v \in Verdicts
      /\ pc \in {"decide", "insert"} /\ request[p].mode = "live" => v = consensus[p]
      /\ pc = "insert" /\ ~postgres => IsPending(p)
      /\ pc \in Chain => ruling[p] = v /\ events[p] = 0
      /\ pc \in {"close", "append"} => ~IsPending(p)
      /\ restarts = 0 /\ pc \in {"finalize", "award"} => IsPending(p)
      /\ restarts = 0 /\ pc = "close" => work[p].funding = FundingAfter(v)
      /\ ~postgres /\ pc = "write" => handler[h].read = EventsOf(WorkerOf[p])

\* Who has a decision row and no verdict on the proof yet.
Awarding(p) == \E h \in Requests : handler[h].proof = p /\ handler[h].pc \in {"finalize", "award"}

\* What the rows of one proof have to do with each other.
ProofInv(p) ==
  /\ ~IsPending(p) => work[p].adjudication \in Verdicts
  /\ work[p].funding = "payable" => "approved" \in {ruling[p], manual[p]}
  /\ work[p].funding = "rejected" => "rejected" \in {ruling[p], manual[p]}
  /\ ruling[p] # "none" => request[p].status # "none"
  /\ ruling[p] # "none" /\ request[p].mode = "live" => ruling[p] = consensus[p]
  /\ consensus[p] # "none" => call[p] = "accepted"
  /\ call[p] # "none" => request[p].status # "none"
  /\ manual[p] # "none" => ~postgres /\ ~IsPending(p)
  /\ events[p] <= 1 /\ (events[p] = 1 => ~IsPending(p))
  /\ restarts = 0 => ruling[p] = "none" \/ manual[p] = "none"
  /\ restarts = 0 /\ ruling[p] # "none" /\ IsPending(p) => Awarding(p)
  /\ restarts = 0 /\ ~Deciding(p) =>
       jobOf[p] = IF IsPending(p) THEN "pending"
                  ELSE IF work[p].funding = "payable" THEN "completed" ELSE "rejected"

\* One request sends the call of a proof, and one has inserted its decision.
OneEach ==
  \A h, g \in Requests : h # g /\ handler[h].proof = handler[g].proof =>
    /\ ~(handler[h].pc = "send" /\ handler[g].pc = "send")
    /\ ~(handler[h].pc \in Chain /\ handler[g].pc \in Chain)

\* On SQLite requests take turns.
Serial == ~postgres => \A h, g \in Requests : ~Waiting(h) /\ ~Waiting(g) => h = g

SummariesFollow ==
  ~postgres /\ restarts = 0 => \A w \in Workers :
    \/ summary[w] = EventsOf(w)
    \/ \E h \in Requests : /\ handler[h].pc \in {"read", "write"}
                           /\ WorkerOf[handler[h].proof] = w

AdjudicationInv ==
  /\ AdjudicationTypeOK
  /\ \A h \in Requests : HandlerInv(h)
  /\ \A p \in Pending : ProofInv(p)
  /\ OneEach /\ Serial /\ SummariesFollow

-----------------------------------------------------------------------------
(* The type invariant.                                                     *)

\* The rows a request may be given.
LEMMA RowsOfRequests ==
  ASSUME AdjudicationTypeOK, NEW h \in Requests, NEW row \in Handler,
         handler' = [handler EXCEPT ![h] = row]
  PROVE  handler' \in [Requests -> Handler]
BY DEF AdjudicationTypeOK

\* Requests that wait for the network, or for nothing, or are at work.
LEMMA PcsAreTyped ==
  ASSUME AdjudicationTypeOK, NEW h \in Requests,
         NEW pc \in {"record", "flagSubmitted", "fail", "flagFailed", "pend", "flagPending",
                     "decide", "insert", "finalize", "award", "close", "append", "read", "write"},
         Goto(h, pc)
  PROVE  handler' \in [Requests -> Handler]
<1>1. handler \in [Requests -> Handler] /\ handler[h] \in Handler
  BY DEF AdjudicationTypeOK
<1>2. \A row \in Handler : [row EXCEPT !.pc = pc] \in Handler
  BY DEF Handler, Network
<1> DEFINE row == [handler[h] EXCEPT !.pc = pc]
<1>3. row \in Handler
  BY <1>1, <1>2
<1>4. handler' = [handler EXCEPT ![h] = row]
  BY <1>1 DEF Goto
<1> QED
  <2> HIDE DEF row
  <2> QED
    BY <1>1, <1>3, <1>4

LEMMA DoneIsTyped ==
  ASSUME AdjudicationTypeOK, NEW h \in Requests, Done(h)
  PROVE  handler' \in [Requests -> Handler]
BY DEF AdjudicationTypeOK, Done, NoRequest, Handler, Network

\* A request that learns a verdict, or reads the events of an agent.
LEMMA AnswersAreTyped ==
  ASSUME NEW row \in Handler, NEW v \in Verdicts, NEW ps \in SUBSET Pending
  PROVE  /\ [row EXCEPT !.pc = "decide", !.verdict = v] \in Handler
         /\ [row EXCEPT !.read = ps, !.pc = "write"] \in Handler
<1>1. ASSUME NEW r \in Handler
      PROVE  /\ \A pc \in {"decide", "write"} : [r EXCEPT !.pc = pc] \in Handler
             /\ [r EXCEPT !.verdict = v] \in Handler /\ [r EXCEPT !.read = ps] \in Handler
  BY DEF Handler
<1> DEFINE asked == [row EXCEPT !.pc = "decide"]  seen == [row EXCEPT !.read = ps]
<1>2. asked \in Handler /\ seen \in Handler
  BY <1>1
<1>3. [asked EXCEPT !.verdict = v] \in Handler /\ [seen EXCEPT !.pc = "write"] \in Handler
  <2> HIDE DEF asked, seen
  <2> QED
    BY <1>1, <1>2
<1> QED
  BY <1>3, Zenon

\* The domains of the rows, by themselves.
VerdictRowsTyped ==
  /\ postgres \in BOOLEAN /\ work \in [Pending -> WorkRow]
  /\ jobOf \in [Pending -> {"pending", "completed", "rejected"}]
  /\ request \in [Pending -> RequestRow]
  /\ ruling \in [Pending -> Verdicts \cup {"none"}] /\ manual \in [Pending -> Verdicts \cup {"none"}]
  /\ call \in [Pending -> {"none", "sent", "accepted", "error"}]
  /\ consensus \in [Pending -> Verdicts \cup {"none"}]
  /\ events \in [Pending -> Nat] /\ summary \in [Workers -> SUBSET Pending]
  /\ restarts \in 0 .. MaxRestarts

\* A request in progress is about a proof.
ProofOf(h) == handler[h].pc # "idle" => handler[h].proof \in Pending

LEMMA TypeOfRequest ==
  ASSUME AdjudicationTypeOK, NEW h \in Requests
  PROVE  /\ handler[h] \in Handler /\ handler[h].verdict \in Verdicts \cup {"none"}
         /\ handler[h].read \in SUBSET Pending
BY DEF AdjudicationTypeOK, Handler

LEMMA ChangesAreTyped ==
  ASSUME AdjudicationTypeOK, NEW p \in Pending
  PROVE  /\ \A s \in {"submitted", "pending", "failed"} : Flag(p, s) => work' \in [Pending -> WorkRow]
         /\ \A v \in Verdicts : Award(p, v) => work' \in [Pending -> WorkRow]
<1> USE DEF AdjudicationTypeOK, WorkRow, Verdicts
<1>1. \A s \in {"submitted", "pending", "failed"} : Flag(p, s) => work' \in [Pending -> WorkRow]
  BY DEF Flag
<1>2. \A v \in Verdicts : Award(p, v) => work' \in [Pending -> WorkRow]
  BY DEF Award
<1> QED
  BY <1>1, <1>2

LEMMA TypeKeptByRequests ==
  ASSUME AdjudicationInv, NEW h \in Requests, HandlerStep(h)
  PROVE  AdjudicationTypeOK'
<1> DEFINE p == handler[h].proof
<1> USE DEF VerdictRowsTyped
<1>1. VerdictRowsTyped /\ AdjudicationTypeOK /\ handler \in [Requests -> Handler] /\ HandlerInv(h)
  BY DEF AdjudicationInv, AdjudicationTypeOK
<1>2. ASSUME VerdictRowsTyped', handler' \in [Requests -> Handler]
      PROVE  AdjudicationTypeOK'
  BY <1>2 DEF AdjudicationTypeOK
<1>3. /\ handler[h].pc # "idle" => p \in Pending
      /\ handler[h].pc \in Decider => handler[h].verdict \in Verdicts
      /\ handler[h].verdict \in Verdicts \cup {"none"} /\ handler[h].read \in SUBSET Pending
  BY <1>1, TypeOfRequest DEF HandlerInv
<1>4. ASSUME NEW q \in Pending, NEW m \in {"mock", "live"}, Prepare(h, q, m)
      PROVE  AdjudicationTypeOK'
  <2>1. PICK v \in MockVerdicts(m) : handler' = [handler EXCEPT ![h] =
          [NoRequest EXCEPT !.proof = q, !.pc = IF m = "mock" THEN "decide" ELSE "send",
                            !.verdict = v]]
    BY <1>4 DEF Prepare
  <2>2. [NoRequest EXCEPT !.proof = q, !.pc = IF m = "mock" THEN "decide" ELSE "send",
                          !.verdict = v] \in Handler
    BY <2>1 DEF NoRequest, Handler, Network, MockVerdicts, Verdicts
  <2>3. handler' \in [Requests -> Handler]
    BY <1>1, <2>1, <2>2
  <2>4. request' \in [Pending -> RequestRow]
    BY <1>1, <1>4 DEF Prepare, RequestRow
  <2> QED
    BY <1>1, <1>2, <1>4, <2>3, <2>4 DEF Prepare, ledgerRows, network, reputation
<1>5. ASSUME NEW q \in Pending, StartSync(h, q)
      PROVE  AdjudicationTypeOK'
  <2>1. PICK v \in MockVerdicts(request[q].mode) : handler' = [handler EXCEPT ![h] =
          [NoRequest EXCEPT !.proof = q, !.verdict = v,
             !.pc = IF request[q].mode = "mock" THEN "decide"
                    ELSE IF request[q].tx THEN "ask" ELSE "fail"]]
    BY <1>5 DEF StartSync
  <2>2. [NoRequest EXCEPT !.proof = q, !.verdict = v,
             !.pc = IF request[q].mode = "mock" THEN "decide"
                    ELSE IF request[q].tx THEN "ask" ELSE "fail"] \in Handler
    BY <2>1 DEF NoRequest, Handler, Network, MockVerdicts, Verdicts
  <2>3. handler' \in [Requests -> Handler]
    BY <1>1, <2>1, <2>2
  <2> QED
    BY <1>1, <1>2, <1>5, <2>3 DEF StartSync, ledgerRows, network, reputation
<1>6. CASE SendCall(h)
  <2>1. handler' \in [Requests -> Handler]
    BY <1>1, <1>6, PcsAreTyped DEF SendCall
  <2>2. call' \in [Pending -> {"none", "sent", "accepted", "error"}]
    BY <1>1, <1>6 DEF SendCall
  <2> QED
    BY <1>1, <1>2, <1>6, <2>1, <2>2 DEF SendCall, ledgerRows, reputation
<1>7. CASE RecordSubmitted(h) \/ FinalizeRequest(h)
  <2>1. handler' \in [Requests -> Handler]
    BY <1>1, <1>7, PcsAreTyped DEF RecordSubmitted, FinalizeRequest
  <2>2. request' \in [Pending -> RequestRow]
    <3>1. CASE RecordSubmitted(h)
      <4> DEFINE marked == [request[p] EXCEPT !.status = "submitted"]
      <4>1. \A row \in RequestRow : /\ [row EXCEPT !.status = "submitted"] \in RequestRow
                                   /\ [row EXCEPT !.tx = TRUE] \in RequestRow
        BY DEF RequestRow
      <4>2. p \in Pending /\ request[p] \in RequestRow
        BY <1>1, <1>3, <3>1 DEF RecordSubmitted, At
      <4>3. [marked EXCEPT !.tx = TRUE] \in RequestRow
        <5>1. marked \in RequestRow
          BY <4>1, <4>2
        <5> HIDE DEF marked
        <5> QED
          BY <4>1, <5>1
      <4>4. request' = [request EXCEPT ![p] = [marked EXCEPT !.tx = TRUE]]
        BY <1>1, <3>1, <4>2 DEF RecordSubmitted
      <4> HIDE DEF marked
      <4> QED
        BY <1>1, <4>2, <4>3, <4>4
    <3>2. CASE FinalizeRequest(h)
      BY <1>1, <3>2 DEF FinalizeRequest, RequestRow
    <3> QED
      BY <1>7, <3>1, <3>2
  <2> QED
    BY <1>1, <1>2, <1>7, <2>1, <2>2 DEF RecordSubmitted, FinalizeRequest, ledgerRows, network, reputation
<1>8. CASE Demote(h)
  <2>1. handler' \in [Requests -> Handler]
    BY <1>1, <1>8, PcsAreTyped DEF Demote
  <2>2. PICK s \in {"failed", "pending"} : request' = [request EXCEPT ![p].status = s]
    BY <1>8 DEF Demote
  <2>3. \A row \in RequestRow : [row EXCEPT !.status = s] \in RequestRow
    BY DEF RequestRow
  <2>4. request' \in [Pending -> RequestRow]
    BY <1>1, <2>2, <2>3
  <2> QED
    BY <1>1, <1>2, <1>8, <2>1, <2>4 DEF Demote, ledgerRows, network, reputation
<1>9. CASE FlagSubmitted(h) \/ FlagDemoted(h)
  <2>1. handler' \in [Requests -> Handler]
    BY <1>1, <1>9, DoneIsTyped DEF FlagSubmitted, FlagDemoted
  <2>2. work' \in [Pending -> WorkRow]
    BY <1>1, <1>3, <1>9, ChangesAreTyped DEF FlagSubmitted, FlagDemoted, At
  <2> QED
    BY <1>1, <1>2, <1>9, <2>1, <2>2 DEF FlagSubmitted, FlagDemoted, network, reputation
<1>10. CASE Ask(h)
  <2>1. ASSUME NEW v \in Verdicts, handler' = [handler EXCEPT ![h].pc = "decide", ![h].verdict = v]
        PROVE  handler' \in [Requests -> Handler]
    <3>1. [handler[h] EXCEPT !.pc = "decide", !.verdict = v] \in Handler
      BY <1>1, AnswersAreTyped
    <3>2. handler' = [handler EXCEPT ![h] = [handler[h] EXCEPT !.pc = "decide", !.verdict = v]]
      BY <1>1, <2>1
    <3> QED
      BY <1>1, <3>1, <3>2
  <2>2. handler' \in [Requests -> Handler]
    BY <1>1, <1>10, <2>1, PcsAreTyped DEF Ask
  <2> QED
    BY <1>1, <1>2, <1>10, <2>2 DEF Ask, ledgerRows, network, reputation
<1>11. CASE Decide(h)
  <2>1. handler' \in [Requests -> Handler]
    BY <1>1, <1>11, PcsAreTyped, DoneIsTyped DEF Decide
  <2> QED
    BY <1>1, <1>2, <1>11, <2>1 DEF Decide, ledgerRows, network, reputation
<1>12. CASE InsertRuling(h)
  <2>1. handler' \in [Requests -> Handler]
    BY <1>1, <1>12, PcsAreTyped, DoneIsTyped DEF InsertRuling
  <2>2. ruling' \in [Pending -> Verdicts \cup {"none"}]
    BY <1>1, <1>3, <1>12 DEF InsertRuling
  <2> QED
    BY <1>1, <1>2, <1>12, <2>1, <2>2 DEF InsertRuling, network, reputation
<1>13. CASE AwardProof(h)
  <2>1. handler' \in [Requests -> Handler]
    BY <1>1, <1>13, PcsAreTyped DEF AwardProof
  <2>2. work' \in [Pending -> WorkRow]
    BY <1>1, <1>3, <1>13, ChangesAreTyped DEF AwardProof, At, Decider, Chain
  <2> QED
    BY <1>1, <1>2, <1>13, <2>1, <2>2 DEF AwardProof, network, reputation
<1>14. CASE CloseJob(h)
  <2>1. handler' \in [Requests -> Handler]
    BY <1>1, <1>14, PcsAreTyped DEF CloseJob
  <2>2. jobOf' \in [Pending -> {"pending", "completed", "rejected"}]
    BY <1>1, <1>14 DEF CloseJob, JobAfter
  <2> QED
    BY <1>1, <1>2, <1>14, <2>1, <2>2 DEF CloseJob, network, reputation
<1>15. CASE AppendEvent(h)
  <2>1. handler' \in [Requests -> Handler]
    BY <1>1, <1>15, PcsAreTyped DEF AppendEvent
  <2>2. events' \in [Pending -> Nat]
    BY <1>1, <1>3, <1>15 DEF AppendEvent, At
  <2> QED
    BY <1>1, <1>2, <1>15, <2>1, <2>2 DEF AppendEvent, ledgerRows, network
<1>16. CASE ReadEvents(h)
  <2>1. EventsOf(WorkerOf[p]) \in SUBSET Pending
    BY DEF EventsOf
  <2>2. handler' \in [Requests -> Handler]
    <3> DEFINE row == [handler[h] EXCEPT !.read = EventsOf(WorkerOf[p]), !.pc = "write"]
    <3>1. row \in Handler
      BY <1>1, <2>1, AnswersAreTyped DEF Verdicts
    <3>2. handler' = [handler EXCEPT ![h] = row]
      BY <1>1, <1>16 DEF ReadEvents
    <3> HIDE DEF row
    <3> QED
      BY <1>1, <3>1, <3>2
  <2> QED
    BY <1>1, <1>2, <1>16, <2>2 DEF ReadEvents, ledgerRows, network, reputation
<1>17. CASE WriteSummary(h)
  <2>1. handler' \in [Requests -> Handler]
    BY <1>1, <1>17, DoneIsTyped DEF WriteSummary
  <2>2. summary' \in [Workers -> SUBSET Pending]
    BY <1>1, <1>3, <1>17 DEF WriteSummary
  <2> QED
    BY <1>1, <1>2, <1>17, <2>1, <2>2 DEF WriteSummary, ledgerRows, network
<1> QED
  BY <1>4, <1>5, <1>6, <1>7, <1>8, <1>9, <1>10, <1>11, <1>12, <1>13, <1>14, <1>15, <1>16, <1>17
  DEF HandlerStep

LEMMA TypeKeptByOthers ==
  ASSUME AdjudicationInv
  PROVE  /\ \A p \in Pending : Adjudicate(p) => AdjudicationTypeOK'
         /\ \A p \in Pending, v \in Verdicts : DecideManually(p, v) => AdjudicationTypeOK'
         /\ Restart => AdjudicationTypeOK'
<1> USE DEF AdjudicationInv, AdjudicationTypeOK
<1>1. ASSUME NEW p \in Pending, Adjudicate(p) PROVE AdjudicationTypeOK'
  BY <1>1 DEF Adjudicate, ledgerRows, reputation
<1>2. ASSUME NEW p \in Pending, NEW v \in Verdicts, DecideManually(p, v) PROVE AdjudicationTypeOK'
  <2>1. work' \in [Pending -> WorkRow] /\ jobOf' \in [Pending -> {"pending", "completed", "rejected"}]
    BY <1>2 DEF DecideManually, WorkRow, JobAfter
  <2>2. manual' \in [Pending -> Verdicts \cup {"none"}] /\ events' \in [Pending -> Nat]
    BY <1>2 DEF DecideManually
  <2>3. summary' \in [Workers -> SUBSET Pending]
    BY <1>2 DEF DecideManually, EventsOf
  <2> QED
    BY <1>2, <2>1, <2>2, <2>3 DEF DecideManually, network
<1>3. ASSUME Restart PROVE AdjudicationTypeOK'
  <2>1. handler' \in [Requests -> Handler]
    BY <1>3 DEF Restart, NoRequest, Handler, Network
  <2>2. Backfilled \in [Pending -> Nat]
    BY DEF Backfilled
  <2>3. events' \in [Pending -> Nat] /\ summary' \in [Workers -> SUBSET Pending]
    BY <1>3, <2>2 DEF Restart, reputation
  <2>4. restarts' \in 0 .. MaxRestarts
    BY <1>3, AdjudicationAssumption DEF Restart
  <2> QED
    BY <1>3, <2>1, <2>3, <2>4 DEF Restart, ledgerRows, network
<1> QED
  BY <1>1, <1>2, <1>3

-----------------------------------------------------------------------------
(* Steps of a request before its decision row, or without one.             *)

LEMMA StepFrame ==
  ASSUME AdjudicationTypeOK, NEW h \in Requests, HandlerStep(h)
  PROVE  /\ \A g \in Requests \ {h} : handler'[g] = handler[g]
         /\ Turn(h) /\ postgres' = postgres /\ restarts' = restarts
<1>1. ASSUME NEW row, handler' = [handler EXCEPT ![h] = row]
      PROVE  \A g \in Requests \ {h} : handler'[g] = handler[g]
  BY <1>1 DEF AdjudicationTypeOK
<1>2. ASSUME NEW pc, Goto(h, pc)
      PROVE  \A g \in Requests \ {h} : handler'[g] = handler[g]
  BY <1>2 DEF AdjudicationTypeOK, Goto
<1>3. ASSUME Done(h)
      PROVE  \A g \in Requests \ {h} : handler'[g] = handler[g]
  BY <1>3 DEF AdjudicationTypeOK, Done
<1>4. Turn(h) /\ postgres' = postgres /\ restarts' = restarts
  BY DEF HandlerStep, At, Prepare, SendCall, RecordSubmitted, FlagSubmitted, StartSync, Ask, Demote,
         FlagDemoted, Decide, InsertRuling, FinalizeRequest, AwardProof, CloseJob, AppendEvent,
         ReadEvents, WriteSummary
<1>5. CASE \E p \in Pending, m \in {"mock", "live"} : Prepare(h, p, m)
  BY <1>1, <1>4, <1>5 DEF Prepare
<1>6. CASE \E p \in Pending : StartSync(h, p)
  BY <1>1, <1>4, <1>6 DEF StartSync
<1>7. CASE Ask(h)
  <2>1. ASSUME NEW v, handler' = [handler EXCEPT ![h].pc = "decide", ![h].verdict = v]
        PROVE  \A g \in Requests \ {h} : handler'[g] = handler[g]
    BY <2>1 DEF AdjudicationTypeOK
  <2> QED
    BY <1>2, <1>4, <1>7, <2>1 DEF Ask
<1>8. CASE ReadEvents(h)
  BY <1>4, <1>8 DEF ReadEvents, AdjudicationTypeOK
<1>9. CASE SendCall(h) \/ Demote(h)
  BY <1>2, <1>4, <1>9 DEF SendCall, Demote
<1>10. CASE Decide(h) \/ InsertRuling(h)
  BY <1>2, <1>3, <1>4, <1>10 DEF Decide, InsertRuling
<1>11. CASE FlagSubmitted(h) \/ FlagDemoted(h) \/ WriteSummary(h)
  BY <1>3, <1>4, <1>11 DEF FlagSubmitted, FlagDemoted, WriteSummary
<1>12. CASE RecordSubmitted(h) \/ FinalizeRequest(h) \/ AwardProof(h) \/ CloseJob(h) \/ AppendEvent(h)
  BY <1>2, <1>4, <1>12 DEF RecordSubmitted, FinalizeRequest, AwardProof, CloseJob, AppendEvent
<1> QED
  BY <1>5, <1>6, <1>7, <1>8, <1>9, <1>10, <1>11, <1>12 DEF HandlerStep

LEMMA SerialKept ==
  ASSUME NEW h \in Requests, Turn(h), postgres' = postgres,
         \A g \in Requests \ {h} : handler'[g] = handler[g]
  PROVE  Serial'
<1> SUFFICES ASSUME ~postgres', NEW f \in Requests, NEW g \in Requests, ~Waiting(f)', ~Waiting(g)'
             PROVE  f = g
  BY DEF Serial
<1>1. \A k \in Requests \ {h} : Waiting(k)'
  BY DEF Turn, Waiting
<1> QED
  BY <1>1

\* The conjuncts a step of a request may disturb.
RestInv ==
  /\ \A h \in Requests : HandlerInv(h)
  /\ \A p \in Pending : ProofInv(p)
  /\ OneEach /\ SummariesFollow

\* A request that neither had a decision row nor gets one: no verdict changes.
QuietStep(h) ==
  /\ \A g \in Requests \ {h} : handler'[g] = handler[g]
  /\ handler[h].pc \notin Chain \cup {"read", "write"}
  /\ handler'[h].pc \notin Chain \cup {"read", "write"}
  /\ UNCHANGED <<postgres, jobOf, ruling, manual, consensus, events, summary, restarts>>
  /\ \A p \in Pending : work'[p].funding = work[p].funding /\ (~IsPending(p) => work'[p] = work[p])
  /\ \A p \in Pending : request[p].status # "none" =>
       request'[p].status # "none" /\ request'[p].mode = request[p].mode
  /\ \A p \in Pending : call'[p] = call[p] \/ (handler[h].pc = "send" /\ handler[h].proof = p)
  /\ handler'[h].pc = "send" => request[handler'[h].proof].status = "none"
  /\ HandlerInv(h)'

LEMMA QuietRequestKeeps ==
  ASSUME AdjudicationInv, NEW h \in Requests, QuietStep(h)
  PROVE  RestInv'
<1>1. /\ \A g \in Requests : HandlerInv(g)
      /\ \A p \in Pending : ProofInv(p)
      /\ OneEach /\ SummariesFollow
  BY DEF AdjudicationInv
<1>2. \A w : EventsOf(w)' = EventsOf(w)
  BY DEF QuietStep, EventsOf
<1>3. ASSUME NEW g \in Requests \ {h}
      PROVE  HandlerInv(g)'
  <2>1. handler'[g] = handler[g] /\ HandlerInv(g)
    BY <1>1 DEF QuietStep
  <2>2. CASE handler[g].pc = "idle"
    BY <2>1, <2>2 DEF HandlerInv, Decider, Chain
  <2>3. CASE handler[g].pc # "idle"
    <3>1. PICK p \in Pending : p = handler[g].proof
      BY <2>1, <2>3 DEF HandlerInv
    <3>2. request[p].status # "none" /\ request'[p].status # "none" /\ request'[p].mode = request[p].mode
      BY <2>1, <2>3, <3>1 DEF HandlerInv, QuietStep
    <3>3. handler[g].pc = "send" => call'[p] = "none"
      BY <1>1, <2>1, <3>1 DEF HandlerInv, QuietStep, OneEach
    <3>4. /\ IsPending(p)' <=> IsPending(p)
          /\ work'[p].funding = work[p].funding
      BY DEF QuietStep, IsPending
    <3> QED
      BY <1>2, <2>1, <2>3, <3>1, <3>2, <3>3, <3>4 DEF HandlerInv, QuietStep
  <2> QED
    BY <2>2, <2>3
<1>4. ASSUME NEW p \in Pending
      PROVE  ProofInv(p)'
  <2>1. ProofInv(p)
    BY <1>1
  <2>2. /\ Awarding(p)' <=> Awarding(p)
        /\ Deciding(p)' <=> Deciding(p)
    BY DEF Awarding, Deciding, QuietStep, Chain
  <2>3. /\ work'[p].funding = work[p].funding
        /\ IsPending(p)' <=> IsPending(p)
        /\ ~IsPending(p) => work'[p] = work[p]
    BY DEF QuietStep, IsPending
  <2>4. ruling[p] # "none" => request'[p].status # "none" /\ request'[p].mode = request[p].mode
    BY <2>1 DEF ProofInv, QuietStep
  <2>5. consensus[p] # "none" => call'[p] = "accepted"
    BY <1>1, <2>1 DEF ProofInv, QuietStep, HandlerInv
  <2>6. call'[p] # "none" => request'[p].status # "none"
    BY <1>1, <2>1 DEF ProofInv, QuietStep, HandlerInv
  <2> QED
    BY <2>1, <2>2, <2>3, <2>4, <2>5, <2>6 DEF ProofInv, QuietStep
<1>5. OneEach'
  <2> SUFFICES ASSUME NEW f \in Requests, NEW g \in Requests, f # g, handler'[f].proof = handler'[g].proof
               PROVE  /\ ~(handler'[f].pc = "send" /\ handler'[g].pc = "send")
                      /\ ~(handler'[f].pc \in Chain /\ handler'[g].pc \in Chain)
    BY DEF OneEach
  <2>1. ASSUME NEW k \in Requests \ {h}, handler'[k].pc = "send"
        PROVE  request[handler'[k].proof].status # "none"
    BY <1>1, <2>1 DEF QuietStep, HandlerInv
  <2>2. ~(handler'[f].pc = "send" /\ handler'[g].pc = "send")
    BY <1>1, <2>1 DEF OneEach, QuietStep
  <2>3. ~(handler'[f].pc \in Chain /\ handler'[g].pc \in Chain)
    BY <1>1 DEF OneEach, QuietStep
  <2> QED
    BY <2>2, <2>3
<1>6. SummariesFollow'
  BY <1>1, <1>2 DEF SummariesFollow, QuietStep
<1> QED
  BY <1>3, <1>4, <1>5, <1>6 DEF RestInv, QuietStep

\* The steps that are quiet, one by one.
LEMMA QuietRequestSteps ==
  ASSUME AdjudicationInv, NEW h \in Requests, HandlerStep(h)
  PROVE  /\ \A q \in Pending, m \in {"mock", "live"} : Prepare(h, q, m) => QuietStep(h)
         /\ \A q \in Pending : StartSync(h, q) => QuietStep(h)
         /\ SendCall(h) \/ RecordSubmitted(h) \/ FlagSubmitted(h) => QuietStep(h)
         /\ Ask(h) \/ Demote(h) \/ FlagDemoted(h) \/ Decide(h) => QuietStep(h)
<1>1. /\ AdjudicationTypeOK /\ HandlerInv(h) /\ handler[h] \in Handler
      /\ \A g \in Requests \ {h} : handler'[g] = handler[g]
      /\ postgres' = postgres /\ restarts' = restarts
  BY StepFrame, TypeOfRequest DEF AdjudicationInv
<1>2. ASSUME NEW pc, Goto(h, pc)
      PROVE  /\ handler'[h].pc = pc /\ handler'[h].proof = handler[h].proof
             /\ handler'[h].verdict = handler[h].verdict
  BY <1>1, <1>2 DEF Goto, AdjudicationTypeOK, Handler
<1>3. ASSUME Done(h)
      PROVE  handler'[h].pc = "idle"
  BY <1>1, <1>3 DEF Done, AdjudicationTypeOK, NoRequest
<1>4. ASSUME NEW p \in Pending, NEW s, Flag(p, s)
      PROVE  \A q \in Pending : work'[q].funding = work[q].funding /\ (~IsPending(q) => work'[q] = work[q])
  <2> SUFFICES ASSUME NEW q \in Pending
               PROVE  work'[q].funding = work[q].funding /\ (~IsPending(q) => work'[q] = work[q])
    OBVIOUS
  <2>1. CASE work[p].funding = "pending" /\ q = p
    BY <1>1, <1>4, <2>1 DEF Flag, AdjudicationTypeOK, WorkRow, IsPending
  <2>2. CASE ~(work[p].funding = "pending" /\ q = p)
    BY <1>1, <1>4, <2>2 DEF Flag, AdjudicationTypeOK, IsPending
  <2> QED
    BY <2>1, <2>2
<1>5. ASSUME NEW q \in Pending, NEW m \in {"mock", "live"}, Prepare(h, q, m)
      PROVE  QuietStep(h)
  <2>1. PICK v \in MockVerdicts(m) : handler' = [handler EXCEPT ![h] =
          [NoRequest EXCEPT !.proof = q, !.pc = IF m = "mock" THEN "decide" ELSE "send",
                            !.verdict = v]]
    BY <1>5 DEF Prepare
  <2>2. handler'[h] = [NoRequest EXCEPT !.proof = q, !.pc = IF m = "mock" THEN "decide" ELSE "send",
                                        !.verdict = v]
    BY <1>1, <2>1 DEF AdjudicationTypeOK
  <2>3. handler'[h].proof = q /\ handler'[h].verdict = v
        /\ handler'[h].pc = IF m = "mock" THEN "decide" ELSE "send"
    BY <2>2 DEF NoRequest
  <2>4. request'[q] = [status |-> "prepared", mode |-> m, tx |-> FALSE]
        /\ \A p \in Pending \ {q} : request'[p] = request[p]
    BY <1>1, <1>5 DEF Prepare, AdjudicationTypeOK
  <2>5. handler[h].pc = "idle" /\ request[q].status = "none" /\ m = "mock" => v \in Verdicts
    BY <1>5, <2>1 DEF Prepare, At, MockVerdicts
  <2>6. request[q].status = "none" /\ IsPending(q) /\ handler[h].pc = "idle"
        /\ UNCHANGED <<jobOf, ruling, manual, consensus, events, summary, work, call>>
    BY <1>5 DEF Prepare, At, ledgerRows, network, reputation
  <2>7. call[q] = "none"
    BY <1>1, <2>6 DEF AdjudicationInv, AdjudicationTypeOK, ProofInv
  <2> QED
    BY <1>1, <2>3, <2>4, <2>5, <2>6, <2>7 DEF QuietStep, HandlerInv, IsPending, Decider, Chain
<1>6. ASSUME NEW q \in Pending, StartSync(h, q)
      PROVE  QuietStep(h)
  <2>1. PICK v \in MockVerdicts(request[q].mode) : handler' = [handler EXCEPT ![h] =
          [NoRequest EXCEPT !.proof = q, !.verdict = v,
             !.pc = IF request[q].mode = "mock" THEN "decide"
                    ELSE IF request[q].tx THEN "ask" ELSE "fail"]]
    BY <1>6 DEF StartSync
  <2>2. handler'[h] = [NoRequest EXCEPT !.proof = q, !.verdict = v,
             !.pc = IF request[q].mode = "mock" THEN "decide"
                    ELSE IF request[q].tx THEN "ask" ELSE "fail"]
    BY <1>1, <2>1 DEF AdjudicationTypeOK
  <2>3. /\ handler'[h].proof = q /\ handler'[h].verdict = v
        /\ handler'[h].pc \in {"decide", "ask", "fail"}
        /\ handler'[h].pc = "decide" => request[q].mode = "mock"
    BY <2>2 DEF NoRequest
  <2>4. request[q].mode = "mock" => v \in Verdicts
    BY <2>1 DEF MockVerdicts
  <2>5. /\ request[q].status # "none" /\ handler[h].pc = "idle"
        /\ UNCHANGED <<request, jobOf, ruling, manual, consensus, events, summary, work, call>>
    BY <1>6 DEF StartSync, At, ledgerRows, network, reputation
  <2> QED
    BY <1>1, <2>3, <2>4, <2>5 DEF QuietStep, HandlerInv, IsPending, Decider, Chain
<1>7. CASE SendCall(h)
  <2>1. /\ handler[h].pc = "send"
        /\ UNCHANGED <<request, jobOf, ruling, manual, consensus, events, summary, work>>
        /\ \A q \in Pending : call'[q] = call[q] \/ handler[h].proof = q
    BY <1>1, <1>7 DEF SendCall, At, ledgerRows, reputation, AdjudicationTypeOK
  <2>2. handler'[h].pc \in {"record", "fail"} /\ handler'[h].proof = handler[h].proof
    BY <1>2, <1>7 DEF SendCall
  <2> QED
    BY <1>1, <2>1, <2>2 DEF QuietStep, HandlerInv, IsPending, Decider, Chain
<1>8. CASE RecordSubmitted(h)
  <2>1. /\ handler[h].pc = "record" /\ handler'[h].pc = "flagSubmitted"
        /\ handler'[h].proof = handler[h].proof
        /\ UNCHANGED <<jobOf, ruling, manual, consensus, events, summary, work, call>>
    BY <1>2, <1>8 DEF RecordSubmitted, At, ledgerRows, network, reputation
  <2>2. \A q \in Pending : request'[q].mode = request[q].mode
                           /\ (request[q].status # "none" => request'[q].status # "none")
    BY <1>1, <1>8 DEF RecordSubmitted, AdjudicationTypeOK, RequestRow
  <2> QED
    BY <1>1, <2>1, <2>2 DEF QuietStep, HandlerInv, IsPending, Decider, Chain
<1>9. CASE Demote(h)
  <2>1. /\ handler[h].pc \in {"pend", "fail"} /\ handler'[h].pc \in {"flagFailed", "flagPending"}
        /\ handler'[h].proof = handler[h].proof
        /\ UNCHANGED <<jobOf, ruling, manual, consensus, events, summary, work, call>>
    BY <1>2, <1>9 DEF Demote, At, ledgerRows, network, reputation
  <2>2. PICK s \in {"failed", "pending"} : request' = [request EXCEPT ![handler[h].proof].status = s]
    BY <1>9 DEF Demote
  <2>3. \A q \in Pending : request'[q].mode = request[q].mode
                           /\ (request[q].status # "none" => request'[q].status # "none")
    BY <1>1, <2>2 DEF AdjudicationTypeOK, RequestRow
  <2> QED
    BY <1>1, <2>1, <2>3 DEF QuietStep, HandlerInv, IsPending, Decider, Chain
<1>10. CASE FlagSubmitted(h) \/ FlagDemoted(h)
  <2>1. /\ handler[h].pc \in {"flagSubmitted", "flagPending", "flagFailed"} /\ handler'[h].pc = "idle"
        /\ UNCHANGED <<jobOf, request, ruling, manual, consensus, events, summary, call>>
    BY <1>3, <1>10 DEF FlagSubmitted, FlagDemoted, At, network, reputation
  <2>2. handler[h].proof \in Pending /\ \E s : Flag(handler[h].proof, s)
    BY <1>1, <1>10, <2>1 DEF FlagSubmitted, FlagDemoted, HandlerInv
  <2> QED
    BY <1>1, <1>4, <2>1, <2>2 DEF QuietStep, HandlerInv, IsPending, Decider, Chain
<1>11. CASE Ask(h)
  <2>1. /\ handler[h].pc = "ask"
        /\ UNCHANGED <<request, jobOf, ruling, manual, consensus, events, summary, work, call>>
    BY <1>11 DEF Ask, At, ledgerRows, network, reputation
  <2>2. CASE \E v \in Verdicts : v = consensus[handler[h].proof]
                                 /\ handler' = [handler EXCEPT ![h].pc = "decide", ![h].verdict = v]
    <3>1. PICK v \in Verdicts : v = consensus[handler[h].proof]
                                /\ handler' = [handler EXCEPT ![h].pc = "decide", ![h].verdict = v]
      BY <2>2
    <3>2. handler'[h].pc = "decide" /\ handler'[h].verdict = v /\ handler'[h].proof = handler[h].proof
      BY <1>1, <3>1 DEF AdjudicationTypeOK, Handler
    <3> QED
      BY <1>1, <2>1, <3>1, <3>2 DEF QuietStep, HandlerInv, IsPending, Decider, Chain
  <2>3. CASE \E pc \in {"pend", "fail"} : Goto(h, pc)
    <3>1. handler'[h].pc \in {"pend", "fail"} /\ handler'[h].proof = handler[h].proof
      BY <1>2, <2>3
    <3> QED
      BY <1>1, <2>1, <3>1 DEF QuietStep, HandlerInv, IsPending, Decider, Chain
  <2> QED
    BY <1>11, <2>2, <2>3 DEF Ask, NetworkDecision
<1>12. CASE Decide(h)
  <2>1. /\ handler[h].pc = "decide"
        /\ UNCHANGED <<request, jobOf, ruling, manual, consensus, events, summary, work, call>>
    BY <1>12 DEF Decide, At, ledgerRows, network, reputation
  <2>2. CASE Done(h)
    BY <1>1, <1>3, <2>1, <2>2 DEF QuietStep, HandlerInv, IsPending, Decider, Chain
  <2>3. CASE IsPending(handler[h].proof) /\ Goto(h, "insert")
    <3>1. /\ handler'[h].pc = "insert" /\ handler'[h].proof = handler[h].proof
          /\ handler'[h].verdict = handler[h].verdict
      BY <1>2, <2>3
    <3> QED
      BY <1>1, <2>1, <2>3, <3>1 DEF QuietStep, HandlerInv, IsPending, Decider, Chain
  <2> QED
    BY <1>12, <2>2, <2>3 DEF Decide
<1> QED
  BY <1>5, <1>6, <1>7, <1>8, <1>9, <1>10, <1>11, <1>12

-----------------------------------------------------------------------------
(* Steps of a request with a verdict in hand.                              *)

\* Such a request changes the rows of its own proof only, and those that the
\* others rely on only while it is the one with the decision row.
VerdictStep(h) ==
  /\ \A g \in Requests \ {h} : handler'[g] = handler[g]
  /\ handler'[h].pc # "send" /\ (handler'[h].pc # "idle" => handler'[h].proof = handler[h].proof)
  /\ UNCHANGED <<postgres, manual, call, consensus, restarts>>
  /\ \A q \in Pending : request'[q].mode = request[q].mode
                        /\ (request[q].status # "none" => request'[q].status # "none")
  /\ \A q \in Pending \ {handler[h].proof} :
       /\ work'[q] = work[q] /\ jobOf'[q] = jobOf[q] /\ ruling'[q] = ruling[q]
       /\ events'[q] = events[q]
  /\ LET p == handler[h].proof
     IN  /\ ruling[p] = "none" \/ ruling'[p] = ruling[p]
         /\ handler[h].pc \notin Chain => work'[p] = work[p] /\ events'[p] = events[p]
         /\ handler'[h].pc \in Chain => handler[h].pc \in Chain \/ ruling[p] = "none"

LEMMA VerdictStepKeeps ==
  ASSUME AdjudicationInv, NEW h \in Requests, Turn(h), VerdictStep(h),
         NEW p \in Pending, p = handler[h].proof
  PROVE  /\ \A g \in Requests \ {h} : HandlerInv(g)'
         /\ \A q \in Pending \ {p} : ProofInv(q)'
         /\ OneEach'
<1>1. /\ \A g \in Requests : HandlerInv(g)
      /\ \A q \in Pending : ProofInv(q)
      /\ OneEach /\ AdjudicationTypeOK
  BY DEF AdjudicationInv
<1>2. ASSUME NEW g \in Requests \ {h}
      PROVE  HandlerInv(g)'
  <2>1. handler'[g] = handler[g] /\ HandlerInv(g)
    BY <1>1 DEF VerdictStep
  <2>2. CASE handler[g].pc = "idle"
    BY <2>1, <2>2 DEF HandlerInv, Decider, Chain
  <2>3. CASE handler[g].pc # "idle"
    <3>1. PICK q \in Pending : q = handler[g].proof
      BY <2>1, <2>3 DEF HandlerInv
    <3>2. request[q].status # "none" /\ request'[q].status # "none" /\ request'[q].mode = request[q].mode
      BY <2>1, <2>3, <3>1 DEF HandlerInv, VerdictStep
    <3>3. ~postgres => handler[g].pc \notin {"insert", "write"}
      BY DEF Turn, Waiting, Network
    <3>4. ASSUME handler[g].pc \in Chain
          PROVE  /\ ruling'[q] = ruling[q] /\ events'[q] = events[q]
                 /\ work'[q] = work[q]
      <4>1. ruling[q] # "none"
        BY <2>1, <3>1, <3>4 DEF HandlerInv, Decider, Verdicts
      <4>2. CASE q = p
        BY <1>1, <3>1, <3>4, <4>1, <4>2 DEF VerdictStep, OneEach
      <4>3. CASE q # p
        BY <3>1, <4>3 DEF VerdictStep
      <4> QED
        BY <4>2, <4>3
    <3>5. /\ handler[g].pc = "send" => call'[q] = "none"
          /\ handler[g].pc \in Decider => handler[g].verdict \in Verdicts
          /\ handler[g].pc \in {"decide", "insert"} /\ request'[q].mode = "live" =>
               handler[g].verdict = consensus'[q]
      BY <2>1, <3>1, <3>2 DEF HandlerInv, VerdictStep
    <3>6. handler[g].pc \in Chain => ruling'[q] = handler[g].verdict /\ events'[q] = 0
      BY <2>1, <3>1, <3>4 DEF HandlerInv
    <3>7. /\ handler[g].pc \in {"close", "append"} => ~IsPending(q)'
          /\ restarts' = 0 /\ handler[g].pc \in {"finalize", "award"} => IsPending(q)'
          /\ restarts' = 0 /\ handler[g].pc = "close" => work'[q].funding = FundingAfter(handler[g].verdict)
      BY <2>1, <3>1, <3>4 DEF HandlerInv, IsPending, Chain, VerdictStep
    <3> QED
      BY <2>1, <2>3, <3>1, <3>2, <3>3, <3>5, <3>6, <3>7 DEF HandlerInv, VerdictStep
  <2> QED
    BY <2>2, <2>3
<1>3. ASSUME NEW q \in Pending \ {p}
      PROVE  ProofInv(q)'
  <2>1. /\ Awarding(q)' <=> Awarding(q)
        /\ Deciding(q)' <=> Deciding(q)
    BY DEF Awarding, Deciding, VerdictStep
  <2>2. IsPending(q)' <=> IsPending(q)
    BY DEF VerdictStep, IsPending
  <2> QED
    BY <1>1, <2>1, <2>2 DEF ProofInv, VerdictStep
<1>4. OneEach'
  <2>1. ASSUME NEW g \in Requests \ {h}, handler'[g].pc \in Chain, handler'[h].pc \in Chain
        PROVE  handler'[g].proof # handler'[h].proof
    <3>1. handler'[h].proof = p /\ handler[g].pc \in Chain
      BY <2>1 DEF VerdictStep, Chain
    <3>2. CASE handler[h].pc \in Chain
      BY <1>1, <2>1, <3>1, <3>2 DEF VerdictStep, OneEach
    <3>3. CASE ruling[p] = "none"
      BY <1>1, <2>1, <3>1, <3>3 DEF VerdictStep, HandlerInv, Decider, Verdicts
    <3> QED
      BY <2>1, <3>2, <3>3 DEF VerdictStep
  <2> SUFFICES ASSUME NEW f \in Requests, NEW g \in Requests, f # g, handler'[f].proof = handler'[g].proof
               PROVE  /\ ~(handler'[f].pc = "send" /\ handler'[g].pc = "send")
                      /\ ~(handler'[f].pc \in Chain /\ handler'[g].pc \in Chain)
    BY DEF OneEach
  <2>2. CASE f # h /\ g # h
    BY <1>1, <2>2 DEF VerdictStep, OneEach
  <2>3. CASE f = h \/ g = h
    BY <2>1, <2>3 DEF VerdictStep
  <2> QED
    BY <2>2, <2>3
<1> QED
  BY <1>2, <1>3, <1>4

LEMMA RequestMoves ==
  ASSUME AdjudicationTypeOK, NEW h \in Requests
  PROVE  /\ \A pc : Goto(h, pc) => /\ handler'[h].pc = pc /\ handler'[h].proof = handler[h].proof
                                   /\ handler'[h].verdict = handler[h].verdict
         /\ Done(h) => handler'[h].pc = "idle"
BY DEF Goto, Done, NoRequest, AdjudicationTypeOK, Handler

\* What a request with a verdict in hand starts from.
LEMMA DeciderFacts ==
  ASSUME AdjudicationInv, NEW h \in Requests, handler[h].pc \in Decider
  PROVE  /\ AdjudicationTypeOK /\ HandlerInv(h) /\ handler[h].verdict \in Verdicts
         /\ handler[h].proof \in Pending /\ request[handler[h].proof].status # "none"
         /\ ProofInv(handler[h].proof)
BY DEF AdjudicationInv, HandlerInv, Decider, Chain

LEMMA InsertRulingKeeps ==
  ASSUME AdjudicationInv, NEW h \in Requests, HandlerStep(h), InsertRuling(h)
  PROVE  RestInv'
<1>1. /\ handler[h].pc = "insert"
      /\ UNCHANGED <<postgres, work, jobOf, manual, request, call, consensus, events, summary, restarts>>
  BY DEF InsertRuling, At, network, reputation
<1>2. PICK p \in Pending : p = handler[h].proof
  BY <1>1, DeciderFacts DEF Decider
<1>3. /\ AdjudicationTypeOK /\ HandlerInv(h) /\ ProofInv(p) /\ handler[h].verdict \in Verdicts
      /\ request[p].status # "none"
  BY <1>1, <1>2, DeciderFacts DEF Decider
<1>4. /\ Turn(h) /\ \A g \in Requests \ {h} : handler'[g] = handler[g]
  BY <1>3, StepFrame
<1>5. CASE Done(h) /\ ruling' = ruling
  <2>1. handler'[h].pc = "idle"
    BY <1>3, <1>5, RequestMoves
  <2>2. QuietStep(h)
    BY <1>1, <1>4, <1>5, <2>1 DEF QuietStep, HandlerInv, Decider, Chain
  <2> QED
    BY <2>2, QuietRequestKeeps
<1>6. CASE /\ ruling[p] = "none" /\ ruling' = [ruling EXCEPT ![p] = handler[h].verdict]
           /\ Goto(h, "finalize")
  <2>1. /\ handler'[h].pc = "finalize" /\ handler'[h].proof = p
        /\ handler'[h].verdict = handler[h].verdict
    BY <1>2, <1>3, <1>6, RequestMoves
  <2>2. ruling'[p] = handler[h].verdict /\ \A q \in Pending \ {p} : ruling'[q] = ruling[q]
    BY <1>3, <1>6 DEF AdjudicationTypeOK
  <2>3. VerdictStep(h)
    BY <1>1, <1>2, <1>4, <1>6, <2>1, <2>2 DEF VerdictStep, Chain
  <2>4. IsPending(p) /\ events[p] = 0 /\ manual[p] = "none"
    <3>1. manual[p] = "none"
      BY <1>1, <1>2, <1>3 DEF HandlerInv, ProofInv
    <3>2. work[p].funding \in {"pending", "payable", "rejected"} /\ events[p] \in Nat
      BY <1>3 DEF AdjudicationTypeOK, WorkRow
    <3>3. IsPending(p)
      BY <1>3, <1>6, <3>1, <3>2 DEF ProofInv, IsPending
    <3> QED
      BY <1>3, <3>1, <3>2, <3>3 DEF ProofInv
  <2>5. HandlerInv(h)'
    BY <1>1, <1>2, <1>3, <2>1, <2>2, <2>4 DEF HandlerInv, Decider, Chain, IsPending
  <2>6. ProofInv(p)'
    <3>1. Awarding(p)' /\ Deciding(p)'
      BY <2>1 DEF Awarding, Deciding
    <3>2. request[p].mode = "live" => handler[h].verdict = consensus[p]
      BY <1>1, <1>2, <1>3 DEF HandlerInv
    <3> QED
      BY <1>1, <1>3, <2>2, <2>4, <3>1, <3>2 DEF ProofInv, IsPending
  <2>7. SummariesFollow'
    <3>1. SummariesFollow
      BY DEF AdjudicationInv
    <3>2. \A w : EventsOf(w)' = EventsOf(w)
      BY <1>1 DEF EventsOf
    <3> QED
      BY <1>1, <1>4, <3>1, <3>2 DEF SummariesFollow
  <2> QED
    BY <1>2, <1>4, <2>3, <2>5, <2>6, <2>7, VerdictStepKeeps DEF RestInv
<1> QED
  BY <1>2, <1>5, <1>6 DEF InsertRuling

LEMMA FinalizeRequestKeeps ==
  ASSUME AdjudicationInv, NEW h \in Requests, HandlerStep(h), FinalizeRequest(h)
  PROVE  RestInv'
<1>1. /\ handler[h].pc = "finalize"
      /\ UNCHANGED <<postgres, work, jobOf, ruling, manual, call, consensus, events, summary, restarts>>
  BY DEF FinalizeRequest, At, ledgerRows, network, reputation
<1>2. PICK p \in Pending : p = handler[h].proof
  BY <1>1, DeciderFacts DEF Decider, Chain
<1>3. /\ AdjudicationTypeOK /\ HandlerInv(h) /\ ProofInv(p) /\ handler[h].verdict \in Verdicts
      /\ request[p].status # "none"
  BY <1>1, <1>2, DeciderFacts DEF Decider, Chain
<1>4. /\ Turn(h) /\ \A g \in Requests \ {h} : handler'[g] = handler[g]
  BY <1>3, StepFrame
<1>5. /\ handler'[h].pc = "award" /\ handler'[h].proof = p
      /\ handler'[h].verdict = handler[h].verdict
  BY <1>2, <1>3, RequestMoves DEF FinalizeRequest
<1>6. \A q \in Pending : request'[q].mode = request[q].mode
                         /\ (request[q].status # "none" => request'[q].status # "none")
  BY <1>3 DEF FinalizeRequest, AdjudicationTypeOK, RequestRow
<1>7. VerdictStep(h)
  BY <1>1, <1>2, <1>4, <1>5, <1>6 DEF VerdictStep, Chain
<1>8. HandlerInv(h)'
  BY <1>1, <1>2, <1>3, <1>5, <1>6 DEF HandlerInv, Decider, Chain, IsPending
<1>9. ProofInv(p)'
  <2>1. Awarding(p)' /\ Deciding(p)'
    BY <1>5 DEF Awarding, Deciding
  <2> QED
    BY <1>1, <1>3, <1>6, <2>1 DEF ProofInv, IsPending
<1>10. SummariesFollow'
  <2>1. SummariesFollow /\ \A w : EventsOf(w)' = EventsOf(w)
    BY <1>1 DEF AdjudicationInv, EventsOf
  <2> QED
    BY <1>1, <1>4, <2>1 DEF SummariesFollow
<1> QED
  BY <1>2, <1>4, <1>7, <1>8, <1>9, <1>10, VerdictStepKeeps DEF RestInv

LEMMA AwardProofKeeps ==
  ASSUME AdjudicationInv, NEW h \in Requests, HandlerStep(h), AwardProof(h)
  PROVE  RestInv'
<1>1. /\ handler[h].pc = "award"
      /\ UNCHANGED <<postgres, jobOf, request, ruling, manual, call, consensus, events, summary, restarts>>
  BY DEF AwardProof, At, network, reputation
<1>2. PICK p \in Pending : p = handler[h].proof
  BY <1>1, DeciderFacts DEF Decider, Chain
<1>3. /\ AdjudicationTypeOK /\ HandlerInv(h) /\ ProofInv(p) /\ handler[h].verdict \in Verdicts
      /\ request[p].status # "none"
  BY <1>1, <1>2, DeciderFacts DEF Decider, Chain
<1>4. /\ Turn(h) /\ \A g \in Requests \ {h} : handler'[g] = handler[g]
  BY <1>3, StepFrame
<1> DEFINE v == handler[h].verdict
<1>5. handler'[h].pc = "close" /\ handler'[h].proof = p /\ handler'[h].verdict = v
  BY <1>2, <1>3, RequestMoves DEF AwardProof
<1>6. /\ IsPending(p) => work'[p] = [funding |-> FundingAfter(v), adjudication |-> v]
      /\ ~IsPending(p) => work'[p] = work[p]
      /\ \A q \in Pending \ {p} : work'[q] = work[q]
  BY <1>2, <1>3 DEF AwardProof, Award, AdjudicationTypeOK, FundingAfter
<1>7. ruling[p] = v /\ events[p] = 0
  BY <1>1, <1>2, <1>3 DEF HandlerInv, Chain
<1>8. /\ ~IsPending(p)' /\ (restarts = 0 => work'[p].funding = FundingAfter(v))
  BY <1>1, <1>2, <1>3, <1>6 DEF HandlerInv, IsPending, FundingAfter
<1>9. VerdictStep(h)
  BY <1>1, <1>2, <1>4, <1>5, <1>6 DEF VerdictStep, Chain
<1>10. HandlerInv(h)'
  BY <1>1, <1>2, <1>3, <1>5, <1>7, <1>8 DEF HandlerInv, Decider, Chain
<1>11. ProofInv(p)'
  <2>1. Deciding(p)'
    BY <1>5 DEF Deciding
  <2>2. work'[p].adjudication \in Verdicts
    BY <1>3, <1>6 DEF ProofInv
  <2>3. /\ work'[p].funding = "payable" => "approved" \in {ruling[p], manual[p]}
        /\ work'[p].funding = "rejected" => "rejected" \in {ruling[p], manual[p]}
    <3>1. CASE IsPending(p)
      BY <1>3, <1>6, <1>7, <3>1 DEF FundingAfter, Verdicts
    <3>2. CASE ~IsPending(p)
      BY <1>3, <1>6, <3>2 DEF ProofInv
    <3> QED
      BY <3>1, <3>2
  <2> QED
    BY <1>1, <1>3, <1>7, <1>8, <2>1, <2>2, <2>3 DEF ProofInv
<1>12. SummariesFollow'
  <2>1. SummariesFollow /\ \A w : EventsOf(w)' = EventsOf(w)
    BY <1>1 DEF AdjudicationInv, EventsOf
  <2> QED
    BY <1>1, <1>4, <2>1 DEF SummariesFollow
<1> QED
  BY <1>2, <1>4, <1>9, <1>10, <1>11, <1>12, VerdictStepKeeps DEF RestInv

LEMMA CloseJobKeeps ==
  ASSUME AdjudicationInv, NEW h \in Requests, HandlerStep(h), CloseJob(h)
  PROVE  RestInv'
<1>1. /\ handler[h].pc = "close"
      /\ UNCHANGED <<postgres, work, request, ruling, manual, call, consensus, events, summary, restarts>>
  BY DEF CloseJob, At, network, reputation
<1>2. PICK p \in Pending : p = handler[h].proof
  BY <1>1, DeciderFacts DEF Decider, Chain
<1>3. /\ AdjudicationTypeOK /\ HandlerInv(h) /\ ProofInv(p) /\ handler[h].verdict \in Verdicts
      /\ request[p].status # "none"
  BY <1>1, <1>2, DeciderFacts DEF Decider, Chain
<1>4. /\ Turn(h) /\ \A g \in Requests \ {h} : handler'[g] = handler[g]
  BY <1>3, StepFrame
<1>5. /\ handler'[h].pc = "append" /\ handler'[h].proof = p
      /\ handler'[h].verdict = handler[h].verdict
  BY <1>2, <1>3, RequestMoves DEF CloseJob
<1>6. jobOf'[p] = JobAfter(handler[h].verdict) /\ \A q \in Pending \ {p} : jobOf'[q] = jobOf[q]
  BY <1>2, <1>3 DEF CloseJob, AdjudicationTypeOK
<1>7. VerdictStep(h)
  BY <1>1, <1>2, <1>4, <1>5, <1>6 DEF VerdictStep, Chain
<1>8. HandlerInv(h)'
  BY <1>1, <1>2, <1>3, <1>5 DEF HandlerInv, Decider, Chain, IsPending
<1>9. ProofInv(p)'
  <2>1. /\ ~IsPending(p) /\ (restarts = 0 => work[p].funding = FundingAfter(handler[h].verdict))
    BY <1>1, <1>2, <1>3 DEF HandlerInv
  <2>2. restarts = 0 => jobOf'[p] = IF work[p].funding = "payable" THEN "completed" ELSE "rejected"
    BY <1>3, <1>6, <2>1 DEF JobAfter, FundingAfter, Verdicts
  <2> QED
    BY <1>1, <1>3, <2>1, <2>2 DEF ProofInv, IsPending
<1>10. SummariesFollow'
  <2>1. SummariesFollow /\ \A w : EventsOf(w)' = EventsOf(w)
    BY <1>1 DEF AdjudicationInv, EventsOf
  <2> QED
    BY <1>1, <1>4, <2>1 DEF SummariesFollow
<1> QED
  BY <1>2, <1>4, <1>7, <1>8, <1>9, <1>10, VerdictStepKeeps DEF RestInv

LEMMA AppendEventKeeps ==
  ASSUME AdjudicationInv, NEW h \in Requests, HandlerStep(h), AppendEvent(h)
  PROVE  RestInv'
<1>1. /\ handler[h].pc = "append"
      /\ UNCHANGED <<postgres, work, jobOf, request, ruling, manual, call, consensus, summary, restarts>>
  BY DEF AppendEvent, At, ledgerRows, network
<1>2. PICK p \in Pending : p = handler[h].proof
  BY <1>1, DeciderFacts DEF Decider, Chain
<1>3. /\ AdjudicationTypeOK /\ HandlerInv(h) /\ ProofInv(p) /\ handler[h].verdict \in Verdicts
      /\ request[p].status # "none"
  BY <1>1, <1>2, DeciderFacts DEF Decider, Chain
<1>4. /\ Turn(h) /\ \A g \in Requests \ {h} : handler'[g] = handler[g]
  BY <1>3, StepFrame
<1>5. /\ handler'[h].pc = "read" /\ handler'[h].proof = p
      /\ handler'[h].verdict = handler[h].verdict
  BY <1>2, <1>3, RequestMoves DEF AppendEvent
<1>6. events[p] = 0 /\ ~IsPending(p)
  BY <1>1, <1>2, <1>3 DEF HandlerInv, Chain
<1>7. events'[p] = 1 /\ \A q \in Pending \ {p} : events'[q] = events[q]
  BY <1>2, <1>3, <1>6 DEF AppendEvent, AdjudicationTypeOK
<1>8. VerdictStep(h)
  BY <1>1, <1>2, <1>4, <1>5, <1>7 DEF VerdictStep, Chain
<1>9. HandlerInv(h)'
  BY <1>1, <1>2, <1>3, <1>5 DEF HandlerInv, Decider, Chain
<1>10. ProofInv(p)'
  <2>1. /\ Awarding(p)' <=> Awarding(p)
        /\ Deciding(p)' <=> Deciding(p)
    BY <1>1, <1>4, <1>5 DEF Awarding, Deciding
  <2> QED
    BY <1>1, <1>3, <1>6, <1>7, <2>1 DEF ProofInv, IsPending
<1>11. SummariesFollow'
  <2>1. SummariesFollow
    BY DEF AdjudicationInv
  <2> SUFFICES ASSUME ~postgres, restarts = 0, NEW w \in Workers
               PROVE  \/ summary'[w] = EventsOf(w)'
                      \/ \E g \in Requests : /\ handler'[g].pc \in {"read", "write"}
                                             /\ WorkerOf[handler'[g].proof] = w
    BY <1>1 DEF SummariesFollow
  <2>2. CASE w = WorkerOf[p]
    BY <1>5, <2>2
  <2>3. CASE w # WorkerOf[p]
    <3>1. EventsOf(w)' = EventsOf(w)
      BY <1>7, <2>3 DEF EventsOf
    <3> QED
      BY <1>1, <1>4, <2>1, <3>1 DEF SummariesFollow
  <2> QED
    BY <2>2, <2>3
<1> QED
  BY <1>2, <1>4, <1>8, <1>9, <1>10, <1>11, VerdictStepKeeps DEF RestInv

LEMMA SummaryStepsKeep ==
  ASSUME AdjudicationInv, NEW h \in Requests, HandlerStep(h), ReadEvents(h) \/ WriteSummary(h)
  PROVE  RestInv'
<1>1. /\ handler[h].pc \in {"read", "write"}
      /\ UNCHANGED <<postgres, work, jobOf, request, ruling, manual, call, consensus, events, restarts>>
  BY DEF ReadEvents, WriteSummary, At, ledgerRows, network, reputation
<1>2. PICK p \in Pending : p = handler[h].proof
  BY <1>1, DeciderFacts DEF Decider, Chain
<1>3. /\ AdjudicationTypeOK /\ HandlerInv(h) /\ ProofInv(p) /\ handler[h].verdict \in Verdicts
      /\ request[p].status # "none"
  BY <1>1, <1>2, DeciderFacts DEF Decider, Chain
<1>4. /\ Turn(h) /\ \A g \in Requests \ {h} : handler'[g] = handler[g]
  BY <1>3, StepFrame
<1>5. \A w : EventsOf(w)' = EventsOf(w)
  BY <1>1 DEF EventsOf
<1>6. SummariesFollow
  BY DEF AdjudicationInv
<1>7. CASE ReadEvents(h)
  <2>1. /\ handler'[h].pc = "write" /\ handler'[h].proof = p
        /\ handler'[h].verdict = handler[h].verdict /\ handler'[h].read = EventsOf(WorkerOf[p])
    BY <1>2, <1>3, <1>7 DEF ReadEvents, AdjudicationTypeOK, Handler
  <2>2. /\ handler[h].pc = "read" /\ summary' = summary
    BY <1>7 DEF ReadEvents, At, reputation
  <2>3. VerdictStep(h)
    BY <1>1, <1>2, <1>4, <2>1, <2>2 DEF VerdictStep, Chain
  <2>4. HandlerInv(h)'
    BY <1>1, <1>2, <1>3, <1>5, <2>1 DEF HandlerInv, Decider, Chain
  <2>5. ProofInv(p)'
    <3>1. /\ Awarding(p)' <=> Awarding(p)
          /\ Deciding(p)' <=> Deciding(p)
      BY <1>4, <2>1, <2>2 DEF Awarding, Deciding
    <3> QED
      BY <1>1, <1>3, <3>1 DEF ProofInv, IsPending
  <2>6. SummariesFollow'
    BY <1>1, <1>2, <1>4, <1>5, <1>6, <2>1, <2>2 DEF SummariesFollow
  <2> QED
    BY <1>2, <1>4, <2>3, <2>4, <2>5, <2>6, VerdictStepKeeps DEF RestInv
<1>8. CASE WriteSummary(h)
  <2>1. handler'[h].pc = "idle"
    BY <1>3, <1>8, RequestMoves DEF WriteSummary
  <2>2. /\ handler[h].pc = "write" /\ summary' = [summary EXCEPT ![WorkerOf[p]] = handler[h].read]
    BY <1>2, <1>8 DEF WriteSummary, At
  <2>3. VerdictStep(h)
    BY <1>1, <1>2, <1>4, <2>1, <2>2 DEF VerdictStep, Chain
  <2>4. HandlerInv(h)'
    BY <2>1 DEF HandlerInv, Decider, Chain
  <2>5. ProofInv(p)'
    <3>1. /\ Awarding(p)' <=> Awarding(p)
          /\ Deciding(p)' <=> Deciding(p)
      BY <1>4, <2>1, <2>2 DEF Awarding, Deciding
    <3> QED
      BY <1>1, <1>3, <3>1 DEF ProofInv, IsPending
  <2>6. SummariesFollow'
    <3> SUFFICES ASSUME ~postgres, restarts = 0, NEW w \in Workers
                 PROVE  \/ summary'[w] = EventsOf(w)'
                        \/ \E g \in Requests : /\ handler'[g].pc \in {"read", "write"}
                                               /\ WorkerOf[handler'[g].proof] = w
      BY <1>1 DEF SummariesFollow
    <3>1. CASE w = WorkerOf[p]
      <4>1. handler[h].read = EventsOf(w)
        BY <1>2, <1>3, <2>2, <3>1 DEF HandlerInv
      <4> QED
        BY <1>3, <1>5, <2>2, <3>1, <4>1 DEF AdjudicationTypeOK
    <3>2. CASE w # WorkerOf[p]
      <4>1. summary'[w] = summary[w]
        BY <1>3, <2>2, <3>2 DEF AdjudicationTypeOK
      <4> QED
        BY <1>2, <1>4, <1>5, <1>6, <3>2, <4>1 DEF SummariesFollow
    <3> QED
      BY <3>1, <3>2
  <2> QED
    BY <1>2, <1>4, <2>3, <2>4, <2>5, <2>6, VerdictStepKeeps DEF RestInv
<1> QED
  BY <1>7, <1>8

-----------------------------------------------------------------------------
(* The contract, the manual adjudicator, and the API that dies.            *)

LEMMA AdjudicateKeeps ==
  ASSUME AdjudicationInv, NEW p \in Pending, Adjudicate(p)
  PROVE  RestInv' /\ Serial'
<1>1. /\ AdjudicationTypeOK /\ OneEach /\ Serial /\ SummariesFollow
      /\ \A h \in Requests : HandlerInv(h)
      /\ \A q \in Pending : ProofInv(q)
  BY DEF AdjudicationInv
<1>2. /\ call[p] = "sent"
      /\ UNCHANGED <<postgres, work, jobOf, ruling, manual, request, events, summary, handler, restarts>>
  BY DEF Adjudicate, ledgerRows, reputation
<1>3. /\ \A q \in Pending \ {p} : call'[q] = call[q] /\ consensus'[q] = consensus[q]
      /\ consensus'[p] = "none" \/ call'[p] = "accepted"
      /\ consensus[p] = "none"
  BY <1>1, <1>2 DEF Adjudicate, ProofInv, AdjudicationTypeOK
<1>4. \A w : EventsOf(w)' = EventsOf(w)
  BY <1>2 DEF EventsOf
<1>5. ASSUME NEW h \in Requests
      PROVE  HandlerInv(h)'
  <2>1. HandlerInv(h) /\ handler' = handler
    BY <1>1, <1>2
  <2>2. handler[h].pc = "send" => handler[h].proof \in Pending \ {p}
    BY <1>2, <2>1 DEF HandlerInv
  <2>3. handler[h].pc \in {"decide", "insert"} /\ request[handler[h].proof].mode = "live" =>
          handler[h].proof \in Pending \ {p}
    BY <1>3, <2>1 DEF HandlerInv, Decider, Verdicts
  <2> QED
    BY <1>2, <1>3, <1>4, <2>1, <2>2, <2>3 DEF HandlerInv, IsPending
<1>6. ASSUME NEW q \in Pending
      PROVE  ProofInv(q)'
  <2>1. /\ Awarding(q)' <=> Awarding(q)
        /\ Deciding(q)' <=> Deciding(q)
    BY <1>2 DEF Awarding, Deciding
  <2>2. ProofInv(q) /\ (ruling[q] # "none" /\ request[q].mode = "live" => q # p)
    BY <1>1, <1>3 DEF ProofInv
  <2>3. call'[q] # "none" => request[q].status # "none"
    BY <1>1, <1>2, <1>3, <2>2 DEF ProofInv
  <2> QED
    BY <1>2, <1>3, <2>1, <2>2, <2>3 DEF ProofInv, IsPending
<1>7. OneEach' /\ Serial'
  BY <1>1, <1>2 DEF OneEach, Serial, Waiting
<1>8. SummariesFollow'
  BY <1>1, <1>2, <1>4 DEF SummariesFollow
<1> QED
  BY <1>5, <1>6, <1>7, <1>8 DEF RestInv

LEMMA DecideManuallyKeeps ==
  ASSUME AdjudicationInv, NEW p \in Pending, NEW v \in Verdicts, DecideManually(p, v)
  PROVE  RestInv' /\ Serial'
<1>1. /\ AdjudicationTypeOK /\ OneEach /\ Serial /\ SummariesFollow
      /\ \A h \in Requests : HandlerInv(h)
      /\ \A q \in Pending : ProofInv(q)
  BY DEF AdjudicationInv
<1>2. /\ ~postgres /\ work[p].adjudication = "pending_adjudication"
      /\ UNCHANGED <<postgres, request, ruling, call, consensus, handler, restarts>>
      /\ \A h \in Requests : handler[h].pc \in {"send", "ask", "idle"}
  BY DEF DecideManually, ManualMayDecide, network, Waiting, Network
<1>3. IsPending(p) /\ events[p] = 0
  <2>1. IsPending(p)
    BY <1>1, <1>2 DEF ProofInv, Verdicts
  <2>2. events[p] \in Nat /\ events[p] <= 1 /\ events[p] # 1
    BY <1>1, <2>1 DEF ProofInv, AdjudicationTypeOK
  <2> QED
    BY <2>1, <2>2
<1>4. \A q \in Pending : ~Awarding(q) /\ ~Deciding(q) /\ ~Awarding(q)' /\ ~Deciding(q)'
  BY <1>2 DEF Awarding, Deciding
<1>5. /\ work'[p] = [funding |-> FundingAfter(v), adjudication |-> v]
      /\ jobOf'[p] = JobAfter(v) /\ manual'[p] = v /\ events'[p] = 1
      /\ \A q \in Pending \ {p} : /\ work'[q] = work[q] /\ jobOf'[q] = jobOf[q]
                                  /\ manual'[q] = manual[q] /\ events'[q] = events[q]
  BY <1>1, <1>3 DEF DecideManually, AdjudicationTypeOK, FundingAfter
<1>6. ASSUME NEW h \in Requests
      PROVE  HandlerInv(h)'
  BY <1>1, <1>2 DEF HandlerInv, Decider, Chain
<1>7. ASSUME NEW q \in Pending
      PROVE  ProofInv(q)'
  <2>1. CASE q = p
    <3>1. ~IsPending(p)'
      BY <1>5 DEF IsPending, FundingAfter
    <3>2. /\ work'[p].adjudication \in Verdicts
          /\ work'[p].funding = "payable" => "approved" \in {ruling[p], manual'[p]}
          /\ work'[p].funding = "rejected" => "rejected" \in {ruling[p], manual'[p]}
      BY <1>5 DEF FundingAfter, Verdicts
    <3>3. restarts = 0 => ruling[p] = "none"
      BY <1>1, <1>3, <1>4 DEF ProofInv
    <3>4. jobOf'[p] = IF work'[p].funding = "payable" THEN "completed" ELSE "rejected"
      BY <1>5 DEF JobAfter, FundingAfter, Verdicts
    <3> QED
      BY <1>1, <1>2, <1>4, <1>5, <2>1, <3>1, <3>2, <3>3, <3>4 DEF ProofInv
  <2>2. CASE q # p
    BY <1>1, <1>2, <1>4, <1>5, <2>2 DEF ProofInv, IsPending
  <2> QED
    BY <2>1, <2>2
<1>8. OneEach' /\ Serial'
  BY <1>1, <1>2 DEF OneEach, Serial, Waiting
<1>9. SummariesFollow'
  <2>1. ASSUME restarts = 0, NEW w \in Workers
        PROVE  summary'[w] = EventsOf(w)'
    <3>1. summary[w] = EventsOf(w)
      BY <1>1, <1>2, <2>1 DEF SummariesFollow
    <3>2. CASE w = WorkerOf[p]
      <4>1. EventsOf(w)' = EventsOf(w) \cup {p}
        BY <1>5, <3>2 DEF EventsOf
      <4> QED
        BY <1>1, <2>1, <3>2, <4>1 DEF DecideManually, AdjudicationTypeOK
    <3>3. CASE w # WorkerOf[p]
      <4>1. EventsOf(w)' = EventsOf(w)
        BY <1>5, <3>3 DEF EventsOf
      <4> QED
        BY <1>1, <3>1, <3>3, <4>1 DEF DecideManually, AdjudicationTypeOK
    <3> QED
      BY <3>2, <3>3
  <2> QED
    BY <1>2, <2>1 DEF SummariesFollow
<1> QED
  BY <1>6, <1>7, <1>8, <1>9 DEF RestInv

LEMMA RestartKeeps ==
  ASSUME AdjudicationInv, Restart
  PROVE  RestInv' /\ Serial'
<1>1. AdjudicationTypeOK /\ \A q \in Pending : ProofInv(q)
  BY DEF AdjudicationInv
<1>2. /\ restarts' # 0 /\ \A h \in Requests : handler'[h].pc = "idle"
      /\ UNCHANGED <<postgres, work, jobOf, ruling, manual, request, call, consensus>>
  BY <1>1 DEF Restart, NoRequest, AdjudicationTypeOK, ledgerRows, network
<1>3. \A q \in Pending : events'[q] = events[q] \/ (events'[q] = 1 /\ ~IsPending(q))
  BY <1>1 DEF Restart, Backfilled, IsPending, reputation
<1>4. \A h \in Requests : HandlerInv(h)'
  BY <1>2 DEF HandlerInv, Decider, Chain
<1>5. ASSUME NEW q \in Pending
      PROVE  ProofInv(q)'
  <2>1. events'[q] <= 1 /\ (events'[q] = 1 => ~IsPending(q))
    BY <1>1, <1>3 DEF ProofInv
  <2> QED
    BY <1>1, <1>2, <2>1 DEF ProofInv, IsPending
<1>6. OneEach' /\ Serial' /\ SummariesFollow'
  BY <1>2 DEF OneEach, Serial, SummariesFollow, Waiting, Chain
<1> QED
  BY <1>4, <1>5, <1>6 DEF RestInv

-----------------------------------------------------------------------------
(* The theorems.                                                           *)

LEMMA StartsInInvariant == AdjudicationInit => AdjudicationInv
<1> SUFFICES ASSUME AdjudicationInit
             PROVE  AdjudicationInv
  OBVIOUS
<1>1. \A h \in Requests : handler[h] = NoRequest
  BY DEF AdjudicationInit
<1>2. AdjudicationTypeOK
  BY AdjudicationAssumption
  DEF AdjudicationInit, AdjudicationTypeOK, WorkRow, RequestRow, NoRequest, Handler, Network
<1>3. \A h \in Requests : HandlerInv(h)
  BY <1>1 DEF HandlerInv, NoRequest, Decider, Chain
<1>4. \A p \in Pending : ProofInv(p)
  BY DEF AdjudicationInit, ProofInv, IsPending
<1>5. OneEach /\ Serial
  BY <1>1 DEF OneEach, Serial, Waiting, NoRequest, Chain
<1>6. \A w \in Workers : summary[w] = EventsOf(w)
  BY DEF AdjudicationInit, EventsOf
<1> QED
  BY <1>2, <1>3, <1>4, <1>5, <1>6 DEF AdjudicationInv, SummariesFollow

LEMMA StepKeepsInvariant == AdjudicationInv /\ [AdjudicationNext]_adjudicationVars => AdjudicationInv'
<1> SUFFICES ASSUME AdjudicationInv, [AdjudicationNext]_adjudicationVars
             PROVE  AdjudicationInv'
  OBVIOUS
<1>1. ASSUME NEW h \in Requests, HandlerStep(h)
      PROVE  AdjudicationInv'
  <2>1. AdjudicationTypeOK' /\ Serial'
    BY <1>1, TypeKeptByRequests, StepFrame, SerialKept DEF AdjudicationInv
  <2>2. RestInv'
    BY <1>1, QuietRequestSteps, QuietRequestKeeps, InsertRulingKeeps, FinalizeRequestKeeps, AwardProofKeeps,
       CloseJobKeeps, AppendEventKeeps, SummaryStepsKeep DEF HandlerStep
  <2> QED
    BY <2>1, <2>2 DEF AdjudicationInv, RestInv
<1>2. ASSUME NEW p \in Pending, Adjudicate(p)
      PROVE  AdjudicationInv'
  BY <1>2, TypeKeptByOthers, AdjudicateKeeps DEF AdjudicationInv, RestInv
<1>3. ASSUME NEW p \in Pending, NEW v \in Verdicts, DecideManually(p, v)
      PROVE  AdjudicationInv'
  BY <1>3, TypeKeptByOthers, DecideManuallyKeeps DEF AdjudicationInv, RestInv
<1>4. CASE Restart
  BY <1>4, TypeKeptByOthers, RestartKeeps DEF AdjudicationInv, RestInv
<1>5. CASE UNCHANGED adjudicationVars
  <2>1. /\ \A h : HandlerInv(h)' <=> HandlerInv(h)
        /\ \A p : ProofInv(p)' <=> ProofInv(p)
    BY <1>5 DEF adjudicationVars, HandlerInv, ProofInv, IsPending, Awarding, Deciding, EventsOf
  <2> QED
    BY <1>5, <2>1 DEF adjudicationVars, AdjudicationInv, AdjudicationTypeOK, OneEach, Serial,
                      SummariesFollow, EventsOf, Waiting
<1> QED
  BY <1>1, <1>2, <1>3, <1>4, <1>5 DEF AdjudicationNext

\* The inductive invariant holds of every run: what each request may rely on, and
\* what the rows of a proof have to do with each other, between any two
\* statements of the requests in progress.
THEOREM AdjudicationHolds == AdjudicationSpec => []AdjudicationInv
BY StartsInInvariant, StepKeepsInvariant, PTL DEF AdjudicationSpec

\* Every column and request keeps a value of its domain.
THEOREM AdjudicationTypeCorrect == AdjudicationSpec => []AdjudicationTypeOK
<1>1. AdjudicationInv => AdjudicationTypeOK
  BY DEF AdjudicationInv
<1> QED
  BY <1>1, AdjudicationHolds, PTL

\* A proof is paid or refused only on a recorded decision, and GenLayer's is the
\* contract's own on the live network.
THEOREM VerdictRestsOnDecision == AdjudicationSpec => []VerdictHasDecision
<1>1. AdjudicationInv => VerdictHasDecision
  BY DEF AdjudicationInv, VerdictHasDecision, ProofInv
<1> QED
  BY <1>1, AdjudicationHolds, PTL

\* While the API lives, a manual and a GenLayer decision never both apply to a
\* proof, and its job ends up as it did.
THEOREM VerdictIsOne == AdjudicationSpec => []OneVerdict
<1>1. ASSUME AdjudicationInv
      PROVE  OneVerdict
  <2> SUFFICES ASSUME NEW p \in Pending, restarts = 0
               PROVE  /\ ruling[p] = "none" \/ manual[p] = "none"
                      /\ ~Deciding(p) => jobOf[p] = (CASE work[p].funding = "pending" -> "pending"
                                                       [] work[p].funding = "payable" -> "completed"
                                                       [] work[p].funding = "rejected" -> "rejected")
    BY DEF OneVerdict
  <2>1. ProofInv(p) /\ work[p].funding \in {"pending", "payable", "rejected"}
    BY <1>1 DEF AdjudicationInv, AdjudicationTypeOK, WorkRow
  <2>2. CASE work[p].funding = "pending"
    BY <2>1, <2>2 DEF ProofInv, IsPending
  <2>3. CASE work[p].funding = "payable"
    BY <2>1, <2>3 DEF ProofInv, IsPending
  <2>4. CASE work[p].funding = "rejected"
    BY <2>1, <2>4 DEF ProofInv, IsPending
  <2> QED
    BY <2>1, <2>2, <2>3, <2>4
<1> QED
  BY <1>1, AdjudicationHolds, PTL

\* No proof counts twice for or against its agent, and on SQLite the summary an
\* agent shows is that of its events, unless the API died.
THEOREM CountedOnce == AdjudicationSpec => []VerdictCountsOnce
<1>1. ASSUME AdjudicationInv
      PROVE  VerdictCountsOnce
  <2>1. \A p \in Pending : events[p] <= 1 /\ (events[p] = 1 => work[p].funding # "pending")
    BY <1>1 DEF AdjudicationInv, ProofInv, IsPending
  <2>2. ASSUME ~postgres, restarts = 0, \A h \in Requests : Waiting(h)
        PROVE  \A w \in Workers : summary[w] = EventsOf(w)
    BY <1>1, <2>2 DEF AdjudicationInv, SummariesFollow, Waiting, Network
  <2> QED
    BY <2>1, <2>2 DEF VerdictCountsOnce
<1> QED
  BY <1>1, AdjudicationHolds, PTL

\* No late answer, no second adjudicator and no restart revises a verdict: every
\* update of a decided proof finds its guard false.
THEOREM VerdictStands == AdjudicationSpec => VerdictIsFinal
<1> DEFINE Stands == \A p \in Pending : work[p].funding # "pending" => work'[p] = work[p]
<1>1. ASSUME AdjudicationInv, [AdjudicationNext]_adjudicationVars
      PROVE  Stands
  <2> SUFFICES ASSUME NEW p \in Pending, work[p].funding # "pending"
               PROVE  work'[p] = work[p]
    OBVIOUS
  <2>1. AdjudicationTypeOK /\ work[p].adjudication \in Verdicts
    BY <1>1 DEF AdjudicationInv, ProofInv, IsPending
  <2>2. ASSUME NEW h \in Requests, HandlerStep(h)
        PROVE  work'[p] = work[p]
    <3>1. ASSUME NEW q, NEW s, Flag(q, s)
          PROVE  work'[p] = work[p]
      BY <2>1, <3>1 DEF Flag, AdjudicationTypeOK
    <3>2. CASE FlagSubmitted(h) \/ FlagDemoted(h)
      BY <3>1, <3>2 DEF FlagSubmitted, FlagDemoted
    <3>3. CASE AwardProof(h)
      BY <2>1, <3>3 DEF AwardProof, Award, IsPending, AdjudicationTypeOK
    <3>4. CASE ~(FlagSubmitted(h) \/ FlagDemoted(h) \/ AwardProof(h))
      BY <2>2, <3>4 DEF HandlerStep, Prepare, SendCall, RecordSubmitted, StartSync, Ask, Demote, Decide,
           InsertRuling, FinalizeRequest, CloseJob, AppendEvent, ReadEvents, WriteSummary, ledgerRows
    <3> QED
      BY <3>2, <3>3, <3>4
  <2>3. ASSUME NEW q \in Pending, NEW v \in Verdicts, DecideManually(q, v)
        PROVE  work'[p] = work[p]
    BY <2>1, <2>3 DEF DecideManually, ManualMayDecide, Verdicts, AdjudicationTypeOK
  <2>4. CASE Restart \/ \E q \in Pending : Adjudicate(q)
    BY <2>4 DEF Restart, Adjudicate, ledgerRows
  <2>5. CASE UNCHANGED adjudicationVars
    BY <2>5 DEF adjudicationVars
  <2> QED
    BY <1>1, <2>2, <2>3, <2>4, <2>5 DEF AdjudicationNext
<1>2. AdjudicationSpec => [][Stands]_adjudicationVars
  BY <1>1, AdjudicationHolds, PTL DEF AdjudicationSpec
<1> QED
  BY <1>2, Zenon DEF VerdictIsFinal

=============================================================================
