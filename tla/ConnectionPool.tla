--------------------------- MODULE ConnectionPool ---------------------------
(***************************************************************************)
(* How requests get at the database.  On Postgres from a pool: a claim     *)
(* opens a transaction on one connection and makes its reads through `db`, *)
(* which takes another connection of the same pool for each; who finds     *)
(* none waits in line until one is released or ten seconds are over.  On   *)
(* SQLite transactions run one after another on the only handle, and a     *)
(* store that closes lets the accepted ones finish.                        *)
(***************************************************************************)
EXTENDS Integers, Sequences, FiniteSets

CONSTANTS
  Callers,    \* requests in progress
  PoolMax,    \* PGPOOL_MAX
  MaxReads    \* bound: reads a claim makes inside its transaction

ASSUME PoolAssumption ==
  PoolMax \in Nat \ {0} /\ MaxReads \in Nat /\ IsFiniteSet(Callers)

VARIABLES
  dialect,
  stage,     \* where each caller is
  reads,     \* the reads a claim has made
  line,      \* the pool's pending queue, or SQLite's queue of transactions
  store      \* open, closing or closed

poolVars == <<dialect, stage, reads, line, store>>

\* "begin" and "read" wait in line; "tx" holds a connection, "reading" two,
\* "query" one without a transaction; "queued" is in SQLite's queue.
Stages == {"idle", "begin", "tx", "read", "reading", "plain", "query", "queued", "failed", "done"}

PoolInit ==
  /\ dialect \in {"postgres", "sqlite"}
  /\ stage = [c \in Callers |-> "idle"]
  /\ reads = [c \in Callers |-> 0]
  /\ line = <<>>
  /\ store = "open"

-----------------------------------------------------------------------------
(* Slips: single definitions below, changed the way a bug would.           *)

WaitsForever(c) == FALSE

-----------------------------------------------------------------------------
(* The pool.                                                               *)

Holding(stages) == Cardinality({c \in Callers : stage[c] \in stages})

Available == Holding({"tx", "read", "query", "failed"}) + 2 * Holding({"reading"}) < PoolMax

Waiting == {"begin", "read", "plain"}
Served(c) == CASE stage[c] = "begin" -> "tx" [] stage[c] = "read" -> "reading"
               [] stage[c] = "plain" -> "query"

\* pool.connect: whoever asks goes to the end of the line.
Ask(c, s) == stage' = [stage EXCEPT ![c] = s] /\ line' = Append(line, c)

\* A claim asks for its transaction's connection, any other request for a query.
Arrive(c) ==
  /\ dialect = "postgres" /\ store = "open" /\ stage[c] = "idle"
  /\ Ask(c, "begin") \/ Ask(c, "plain")
  /\ UNCHANGED <<dialect, reads, store>>

\* A connection goes to the first in line.
Connect ==
  /\ dialect = "postgres" /\ line # <<>> /\ Available
  /\ stage' = [stage EXCEPT ![Head(line)] = Served(Head(line))]
  /\ line' = Tail(line)
  /\ UNCHANGED <<dialect, reads, store>>

\* Who gives up is taken out of the line, wherever it stands.
Without(i) == SubSeq(line, 1, i - 1) \o SubSeq(line, i + 1, Len(line))

\* connectionTimeoutMillis
GivesUp(c) == stage[c] \in Waiting

ConnectTimesOut(c) ==
  /\ dialect = "postgres" /\ GivesUp(c)
  /\ stage' = [stage EXCEPT ![c] = IF @ = "read" THEN "failed" ELSE "done"]
  /\ \E i \in DOMAIN line : line[i] = c /\ line' = Without(i)
  /\ UNCHANGED <<dialect, reads, store>>

ReadInClaim(c) ==
  /\ stage[c] = "tx" /\ reads[c] < MaxReads
  /\ reads' = [reads EXCEPT ![c] = @ + 1]
  /\ IF store = "closed" THEN stage' = [stage EXCEPT ![c] = "failed"] /\ UNCHANGED line
                         ELSE Ask(c, "read")
  /\ UNCHANGED <<dialect, store>>

\* A query ends, well or with an error; query_timeout ends it at the latest.
QueryEnds(c) ==
  /\ \/ stage[c] = "reading" /\ \E s \in {"tx", "failed"} : stage' = [stage EXCEPT ![c] = s]
     \/ stage[c] = "query" /\ stage' = [stage EXCEPT ![c] = "done"]
  /\ UNCHANGED <<dialect, reads, line, store>>

\* COMMIT, or ROLLBACK after an error, then release.
TransactionEnds(c) ==
  /\ stage[c] = "failed" \/ (stage[c] = "tx" /\ reads[c] = MaxReads)
  /\ stage' = [stage EXCEPT ![c] = "done"]
  /\ UNCHANGED <<dialect, reads, line, store>>

Respond(c) ==
  /\ stage[c] = "done"
  /\ stage' = [stage EXCEPT ![c] = "idle"] /\ reads' = [reads EXCEPT ![c] = 0]
  /\ UNCHANGED <<dialect, line, store>>

-----------------------------------------------------------------------------
(* The SQLite store.                                                       *)

Enqueue(c) ==
  /\ dialect = "sqlite" /\ store = "open" /\ stage[c] = "idle"
  /\ Ask(c, "queued")
  /\ UNCHANGED <<dialect, reads, store>>

\* BEGIN IMMEDIATE, the operation, COMMIT or ROLLBACK; refused after the close.
RunNext ==
  /\ dialect = "sqlite" /\ line # <<>>
  /\ stage' = [stage EXCEPT ![Head(line)] = "done"]
  /\ line' = Tail(line)
  /\ UNCHANGED <<dialect, reads, store>>

\* close: what was accepted drains, then the handle is closed.
CloseStore ==
  /\ store = "open" /\ store' = IF dialect = "sqlite" THEN "closing" ELSE "closed"
  /\ UNCHANGED <<dialect, stage, reads, line>>

HandleCloses ==
  /\ store = "closing" /\ line = <<>> /\ store' = "closed"
  /\ UNCHANGED <<dialect, stage, reads, line>>

CallerStep(c) == \/ ReadInClaim(c) \/ QueryEnds(c) \/ TransactionEnds(c)
                 \/ ConnectTimesOut(c) \/ Respond(c)

PoolNext ==
  \/ \E c \in Callers : Arrive(c) \/ Enqueue(c) \/ CallerStep(c)
  \/ Connect \/ RunNext \/ CloseStore \/ HandleCloses

\* Queries end, timers fire, connections are handed over.
PoolFairness == /\ \A c \in Callers : WF_poolVars(CallerStep(c))
                /\ WF_poolVars(Connect) /\ WF_poolVars(RunNext)

-----------------------------------------------------------------------------
(* Properties.                                                             *)

PoolTypeOK ==
  /\ dialect \in {"postgres", "sqlite"} /\ store \in {"open", "closing", "closed"}
  /\ stage \in [Callers -> Stages] /\ reads \in [Callers -> 0..MaxReads]
  /\ line \in Seq(Callers) /\ Len(line) <= Cardinality(Callers)

\* A claim is answered, though as many claims as there are connections may each
\* hold one and wait for another (api.mjs:748), and though the store may close.
EveryClaimEnds ==
  \A c \in Callers : (stage[c] \in {"begin", "queued"}) ~> (stage[c] = "idle")

=============================================================================
