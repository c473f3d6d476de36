----------------------------- MODULE Dashboard -----------------------------
(***************************************************************************)
(* The public page (app.js): it loads the live ledger from the API, with   *)
(* retries, and can be switched to a browser-only replay and back at any   *)
(* time.  Answers and timers of a source the page has left still arrive;   *)
(* hydrationVersion and replayGeneration tell them apart.                  *)
(***************************************************************************)
EXTENDS Integers, FiniteSets

CONSTANTS
  MaxVersion,    \* bound: how often the page changes its source
  ReplayJobs,    \* queued jobs at the start of a replay
  MaxQueued,     \* bound: queued jobs
  MaxCycles      \* bound: worker cycles on one page load

ASSUME DashboardAssumption == MaxVersion \in Nat \ {0} /\ MaxCycles \in Nat
                               /\ MaxQueued \in Nat /\ ReplayJobs \in 0..MaxQueued

VARIABLES
  appMode, hydrationVersion, replayGeneration,
  running,        \* a worker cycle is believed to run
  page,           \* agents, jobs, ledger, events: the source, and whose timers wrote to them
  prepared,       \* latestBatchPayload: none, kept, or shown
  warming,        \* apiError holds the retry notice
  hydration,      \* version -> where its hydrateFromApi is
  leaderboard,    \* what the table shows: a version's answer, or 0 for unavailable
  panel,          \* what the Escrow V2 table was filled from
  boardCalls, panelCalls,   \* versions whose secondary requests are under way
  cycles          \* worker cycles: the generation each began in, and its next timer

dashVars == <<appMode, hydrationVersion, replayGeneration, running, page, prepared, warming,
              hydration, leaderboard, panel, boardCalls, panelCalls, cycles>>
callVars == <<hydration, leaderboard, panel, boardCalls, panelCalls>>

Versions == 1..MaxVersion
Nothing  == [from |-> "nothing", by |-> 0]
Page     == [from : {"nothing", "api", "replay"}, by : 0..MaxVersion,
             queued : 0..MaxQueued, marks : SUBSET Versions]
Empty    == [from |-> "nothing", by |-> 0, queued |-> 0, marks |-> {}]
Timers   == <<"measure", "proof", "complete", "fired">>

DashInit ==
  /\ appMode = "loading" /\ hydrationVersion = 1 /\ replayGeneration = 0
  /\ running = FALSE /\ page = Empty /\ prepared = "none" /\ warming = FALSE
  /\ hydration = [v \in Versions |-> IF v = 1 THEN "first" ELSE "none"]
  /\ leaderboard = 0 /\ boardCalls = {} /\ panel = Nothing /\ panelCalls = {}
  /\ cycles = [c \in 1..MaxCycles |-> [gen |-> 0, next |-> 4]]

-----------------------------------------------------------------------------
(* Slips: single definitions below, changed the way a bug would.           *)

InSomeReplay(gen) == appMode = "replay"

-----------------------------------------------------------------------------
(* Loading.                                                                *)

Superseded(v) == v # hydrationVersion \/ appMode = "replay"

HydrationGoes(v, to) == hydration' = [hydration EXCEPT ![v] = to]

\* setAppMode: outside a replay the batch is hidden.
Hidden == IF prepared = "shown" THEN "kept" ELSE prepared

\* /dashboard fails or times out: fetchDashboardWithRetry tries three times, and
\* looks whether it is superseded before each.
FetchFails(v) ==
  /\ hydration[v] \in {"first", "second", "third"}
  /\ IF hydration[v] # "third" /\ v = hydrationVersion
     THEN /\ HydrationGoes(v, IF hydration[v] = "first" THEN "second" ELSE "third")
          /\ warming' = TRUE
          /\ UNCHANGED <<appMode, page, prepared, leaderboard>>
     ELSE /\ HydrationGoes(v, "over")
          /\ IF Superseded(v) THEN UNCHANGED <<appMode, page, prepared, leaderboard, warming>>
             ELSE /\ appMode' = "unavailable" /\ page' = Empty /\ prepared' = "none"
                  /\ warming' = FALSE /\ leaderboard' = 0
  /\ UNCHANGED <<hydrationVersion, replayGeneration, running, cycles, panel, boardCalls, panelCalls>>

FetchAnswers(v) ==
  /\ hydration[v] \in {"first", "second", "third"} /\ HydrationGoes(v, "health")
  /\ UNCHANGED <<appMode, hydrationVersion, replayGeneration, running, page, prepared, warming,
                 leaderboard, panel, boardCalls, panelCalls, cycles>>

\* /health answers or not: clearLiveState, applyDashboard, and two further requests.
Hydrate(v) ==
  /\ hydration[v] = "health" /\ HydrationGoes(v, "over")
  /\ IF Superseded(v) THEN UNCHANGED <<appMode, page, prepared, warming, boardCalls, panelCalls>>
     ELSE /\ page' = [Empty EXCEPT !.from = "api", !.by = v] /\ prepared' = "none"
          /\ appMode' = "live" /\ warming' = FALSE
          /\ boardCalls' = boardCalls \cup {v} /\ panelCalls' = panelCalls \cup {v}
  /\ UNCHANGED <<hydrationVersion, replayGeneration, running, leaderboard, panel, cycles>>

\* hydrateLeaderboard checks the version again after its await;
LeaderboardAnswers(v) ==
  /\ v \in boardCalls /\ boardCalls' = boardCalls \ {v}
  /\ leaderboard' \in IF Superseded(v) THEN {leaderboard} ELSE {v, 0}
  /\ UNCHANGED <<appMode, hydrationVersion, replayGeneration, running, page, prepared, warming,
                 hydration, panel, panelCalls, cycles>>

\* hydrateEscrowV2ProtocolPanel does not: it shows the API's answer, or after a 403
\* the ledger the page has by then.
PanelAnswers(v) ==
  /\ v \in panelCalls /\ panelCalls' = panelCalls \ {v}
  /\ panel' \in {[from |-> "api", by |-> v], [from |-> page.from, by |-> page.by], Nothing}
  /\ UNCHANGED <<appMode, hydrationVersion, replayGeneration, running, page, prepared, warming,
                 hydration, leaderboard, boardCalls, cycles>>

-----------------------------------------------------------------------------
(* The replay.                                                             *)

EnterReplayMode ==
  /\ appMode # "replay" /\ hydrationVersion < MaxVersion
  /\ hydrationVersion' = hydrationVersion + 1 /\ replayGeneration' = replayGeneration + 1
  /\ running' = FALSE /\ appMode' = "replay" /\ warming' = FALSE /\ leaderboard' = 0
  /\ page' = [from |-> "replay", by |-> replayGeneration + 1, queued |-> ReplayJobs, marks |-> {}]
  /\ prepared' = IF prepared = "none" THEN "none" ELSE "shown"
  /\ UNCHANGED <<hydration, panel, boardCalls, panelCalls, cycles>>

\* hydrateFromApi({ force: true }): the replay stays on the page until an answer comes.
ExitReplay ==
  /\ appMode = "replay" /\ hydrationVersion < MaxVersion
  /\ hydrationVersion' = hydrationVersion + 1 /\ appMode' = "loading" /\ warming' = FALSE
  /\ prepared' = Hidden /\ HydrationGoes(hydrationVersion + 1, "first")
  /\ UNCHANGED <<replayGeneration, running, page, leaderboard, panel, boardCalls, panelCalls, cycles>>

AddJobs ==
  /\ appMode = "replay" /\ page.queued + 3 <= MaxQueued
  /\ page' = [page EXCEPT !.queued = @ + 3]
  /\ UNCHANGED <<appMode, hydrationVersion, replayGeneration, running, prepared, warming, callVars, cycles>>

PrepareBatch ==
  /\ appMode = "replay" /\ prepared' = "shown"
  /\ UNCHANGED <<appMode, hydrationVersion, replayGeneration, running, page, warming, callVars, cycles>>

RunCycle(c) ==
  /\ appMode = "replay" /\ ~running /\ page.queued > 0
  /\ cycles[c].gen = 0 /\ \A d \in 1..(c - 1) : cycles[d].gen # 0
  /\ running' = TRUE /\ page' = [page EXCEPT !.queued = @ - 1, !.marks = @ \cup {replayGeneration}]
  /\ cycles' = [cycles EXCEPT ![c] = [gen |-> replayGeneration, next |-> 1]]
  /\ UNCHANGED <<appMode, hydrationVersion, replayGeneration, prepared, warming, callVars>>

InReplay(gen) == appMode = "replay" /\ gen = replayGeneration

\* The timers after 320, 640 and 980 ms; the last one completes the cycle, or
\* only resets `running`, whichever cycle that now stands for.
TimerFires(c) ==
  /\ Timers[cycles[c].next] # "fired"
  /\ cycles' = [cycles EXCEPT ![c].next = @ + 1]
  /\ page' = IF InReplay(cycles[c].gen) THEN [page EXCEPT !.marks = @ \cup {cycles[c].gen}] ELSE page
  /\ running' = (running /\ Timers[cycles[c].next] # "complete")
  /\ UNCHANGED <<appMode, hydrationVersion, replayGeneration, prepared, warming, callVars>>

DashNext ==
  \/ \E v \in Versions : \/ FetchFails(v) \/ FetchAnswers(v) \/ Hydrate(v)
                         \/ LeaderboardAnswers(v) \/ PanelAnswers(v)
  \/ EnterReplayMode \/ ExitReplay \/ AddJobs \/ PrepareBatch
  \/ \E c \in 1..MaxCycles : RunCycle(c) \/ TimerFires(c)

-----------------------------------------------------------------------------
(* Properties.                                                             *)

DashTypeOK ==
  /\ appMode \in {"loading", "live", "unavailable", "replay"}
  /\ hydrationVersion \in Versions /\ replayGeneration \in 0..MaxVersion
  /\ running \in BOOLEAN /\ warming \in BOOLEAN /\ prepared \in {"none", "kept", "shown"}
  /\ page \in Page /\ leaderboard \in 0..MaxVersion
  /\ hydration \in [Versions -> {"none", "first", "second", "third", "health", "over"}]
  /\ panel \in [from : {"nothing", "api", "replay"}, by : 0..MaxVersion]
  /\ boardCalls \subseteq Versions /\ panelCalls \subseteq Versions
  /\ cycles \in [1..MaxCycles -> [gen : 0..MaxVersion, next : 1..4]]

\* Each mode shows its own source: live the answer to the latest load, a replay only
\* what its own cycles wrote, though earlier loads still answer and timers of an
\* earlier replay still fire (hydrateFromApi, runCycle, hydrateLeaderboard).
ShownIsCurrent ==
  /\ appMode = "live" => /\ page.from = "api" /\ page.by = hydrationVersion /\ page.marks = {}
                         /\ leaderboard \in {0, hydrationVersion}
  /\ appMode = "replay" => /\ page.from = "replay" /\ page.by = replayGeneration
                           /\ page.marks \subseteq {replayGeneration} /\ leaderboard = 0
  /\ appMode = "unavailable" => page = Empty /\ leaderboard = 0
  /\ warming => appMode = "loading"
  /\ prepared = "shown" => appMode = "replay"

=============================================================================
