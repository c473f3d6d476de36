-------------------------- MODULE BackOfficeProofs --------------------------
(***************************************************************************)
(* Three services around the ledger, for any number of whatever they serve.*)
(*                                                                         *)
(* The two browser pages: what each shows is what its current source says, *)
(* however late an answer or a timer comes.                                *)
(*                                                                         *)
(* The database files: FilesInv says, for each stage of a restore, where   *)
(* the database and the log it found are by then, and that only one restore*)
(* runs; so what a failure undoes is what was there, and the old data is   *)
(* somewhere until a backup was found valid.                               *)
(*                                                                         *)
(* The first escrow contract: V1Inv says of each slot that its last event  *)
(* tells how it came to be as it is, so that the balance, which follows the*)
(* slots, follows the events.                                              *)
(***************************************************************************)
EXTENDS MCBackOffice, SettlementProofs, AdjudicationProofs, IdentityProofs, FiniteSums

-----------------------------------------------------------------------------
(* The dashboard.                                                          *)

DashSpec == DashInit /\ [][DashNext]_dashVars

\* Of the load the page waits for last.
Loading == {"first", "second", "third", "health"}

\* The source the page has now: what belongs to it is nobody else's, and nothing
\* of a later one exists.
OneSource ==
  /\ hydration[hydrationVersion] \in Loading => appMode = "loading"
  /\ hydrationVersion \in boardCalls => appMode = "live"
  /\ \A v \in Versions : v > hydrationVersion => hydration[v] = "none" /\ v \notin boardCalls
  /\ appMode = "replay" => hydration[hydrationVersion] = "none"
  /\ appMode # "replay" => leaderboard \in {0, hydrationVersion}
  /\ replayGeneration < hydrationVersion /\ (appMode = "replay" => replayGeneration > 0)

DashInv == DashTypeOK /\ OneSource /\ ShownIsCurrent

\* What the page may hold.
LEMMA PagesTyped ==
  /\ Empty \in Page
  /\ \A v \in Versions : [Empty EXCEPT !.from = "api", !.by = v] \in Page
  /\ \A p \in Page, g \in Versions :
       /\ p.queued > 0 => [p EXCEPT !.queued = @ - 1, !.marks = @ \cup {g}] \in Page
       /\ [p EXCEPT !.marks = @ \cup {g}] \in Page
<1> USE DashboardAssumption DEF Page, Versions
<1>1. Empty \in Page
  BY DEF Empty
<1>2. ASSUME NEW v \in Versions
      PROVE  [Empty EXCEPT !.from = "api", !.by = v] \in Page
  <2> DEFINE q == [Empty EXCEPT !.from = "api"]
  <2>1. \A p \in Page : [p EXCEPT !.from = "api"] \in Page /\ [p EXCEPT !.by = v] \in Page
    BY <1>2
  <2>2. q \in Page
    BY <1>1, <2>1
  <2>3. [q EXCEPT !.by = v] \in Page
    <3> HIDE DEF q
    <3> QED
      BY <2>1, <2>2
  <2> QED
    BY <2>3, Zenon
<1>3. ASSUME NEW p \in Page, NEW g \in Versions
      PROVE  [p EXCEPT !.marks = @ \cup {g}] \in Page
  BY <1>3
<1>4. ASSUME NEW p \in Page, p.queued > 0
      PROVE  [p EXCEPT !.queued = @ - 1] \in Page
  BY <1>4
<1>5. ASSUME NEW p \in Page, NEW g \in Versions, p.queued > 0
      PROVE  [p EXCEPT !.queued = @ - 1, !.marks = @ \cup {g}] \in Page
  <2> DEFINE q == [p EXCEPT !.queued = @ - 1]
  <2>1. q \in Page /\ q.marks = p.marks
    BY <1>4, <1>5
  <2>2. [q EXCEPT !.marks = @ \cup {g}] \in Page
    <3> HIDE DEF q
    <3> QED
      BY <1>3, <2>1
  <2>3. [p EXCEPT !.queued = @ - 1, !.marks = @ \cup {g}] = [q EXCEPT !.marks = @ \cup {g}]
    BY <1>5
  <2> QED
    BY <2>2, <2>3
<1> QED
  BY <1>1, <1>2, <1>3, <1>5

LEMMA DashStarts == DashInit => DashInv
<1> SUFFICES ASSUME DashInit
             PROVE  DashInv
  OBVIOUS
<1> USE DashboardAssumption
<1>1. DashTypeOK
  <2>1. cycles \in [1..MaxCycles -> [gen : 0..MaxVersion, next : 1..4]]
    <3>1. [gen |-> 0, next |-> 4] \in [gen : 0..MaxVersion, next : 1..4]
      OBVIOUS
    <3> QED
      BY <3>1 DEF DashInit
  <2>2. hydration \in [Versions -> {"none", "first", "second", "third", "health", "over"}]
    BY DEF DashInit
  <2>3. page \in Page
    BY PagesTyped, Zenon DEF DashInit
  <2>4. panel \in [from : {"nothing", "api", "replay"}, by : 0..MaxVersion] /\ hydrationVersion \in Versions
    BY DEF DashInit, Nothing, Versions
  <2>5. /\ appMode \in {"loading", "live", "unavailable", "replay"} /\ replayGeneration \in 0..MaxVersion
        /\ prepared \in {"none", "kept", "shown"} /\ leaderboard \in 0..MaxVersion
        /\ boardCalls \subseteq Versions /\ panelCalls \subseteq Versions
    BY DEF DashInit
  <2>6. running \in BOOLEAN /\ warming \in BOOLEAN
    BY DEF DashInit
  <2> QED
    BY <2>1, <2>2, <2>3, <2>4, <2>5, <2>6 DEF DashTypeOK
<1>2. OneSource
  BY DEF DashInit, OneSource, Versions, Loading
<1>3. ShownIsCurrent
  BY DEF DashInit, ShownIsCurrent, Empty
<1> QED
  BY <1>1, <1>2, <1>3 DEF DashInv

LEMMA DashStep == DashInv /\ [DashNext]_dashVars => DashInv'
<1> SUFFICES ASSUME DashInv, [DashNext]_dashVars
             PROVE  DashInv'
  OBVIOUS
<1> USE DashboardAssumption DEF DashInv
<1>1. ASSUME NEW v \in Versions, FetchFails(v)
      PROVE  DashInv'
  <2>4. page' = page \/ page' = Empty
    BY <1>1 DEF FetchFails
  <2>5. page' \in Page
    BY <2>4, PagesTyped, Zenon DEF DashTypeOK
  <2>6. hydration' \in [Versions -> {"none", "first", "second", "third", "health", "over"}]
    BY <1>1 DEF FetchFails, DashTypeOK, HydrationGoes
  <2>1. DashTypeOK'
    <3>1. /\ appMode' \in {"loading", "live", "unavailable", "replay"}
          /\ prepared' \in {"none", "kept", "shown"} /\ leaderboard' \in 0..MaxVersion
      BY <1>1 DEF FetchFails, DashTypeOK
    <3>2. warming' \in BOOLEAN
      BY <1>1 DEF FetchFails, DashTypeOK
    <3>3. UNCHANGED <<hydrationVersion, replayGeneration, running, cycles, panel, boardCalls, panelCalls>>
      BY <1>1 DEF FetchFails
    <3> QED
      BY <2>5, <2>6, <3>1, <3>2, <3>3 DEF DashTypeOK
  <2>2. OneSource'
    BY <1>1 DEF FetchFails, DashTypeOK, OneSource, Superseded, HydrationGoes, Versions, Loading
  <2>3. ShownIsCurrent'
    BY <1>1 DEF FetchFails, DashTypeOK, OneSource, ShownIsCurrent, Superseded, HydrationGoes, Loading
  <2> QED
    BY <2>1, <2>2, <2>3
<1>2. ASSUME NEW v \in Versions, FetchAnswers(v)
      PROVE  DashInv'
  <2>1. DashTypeOK'
    BY <1>2 DEF FetchAnswers, DashTypeOK, HydrationGoes, Versions
  <2>2. OneSource'
    BY <1>2 DEF FetchAnswers, DashTypeOK, OneSource, HydrationGoes, Versions, Loading
  <2>3. ShownIsCurrent'
    BY <1>2 DEF FetchAnswers, ShownIsCurrent
  <2> QED
    BY <2>1, <2>2, <2>3
<1>3. ASSUME NEW v \in Versions, Hydrate(v)
      PROVE  DashInv'
  <2>1. DashTypeOK'
    BY <1>3, PagesTyped DEF Hydrate, DashTypeOK, HydrationGoes, Versions
  <2>2. OneSource'
    BY <1>3 DEF Hydrate, DashTypeOK, OneSource, Superseded, HydrationGoes, Versions, Loading
  <2>3. ShownIsCurrent'
    BY <1>3 DEF Hydrate, DashTypeOK, OneSource, ShownIsCurrent, Superseded, HydrationGoes, Empty, Loading
  <2> QED
    BY <2>1, <2>2, <2>3
<1>4. ASSUME NEW v \in Versions, LeaderboardAnswers(v)
      PROVE  DashInv'
  <2>1. DashTypeOK'
    BY <1>4 DEF LeaderboardAnswers, DashTypeOK, Versions
  <2>2. OneSource'
    BY <1>4 DEF LeaderboardAnswers, DashTypeOK, OneSource, Superseded, Versions
  <2>3. ShownIsCurrent'
    BY <1>4 DEF LeaderboardAnswers, DashTypeOK, OneSource, ShownIsCurrent, Superseded
  <2> QED
    BY <2>1, <2>2, <2>3
<1>5. ASSUME NEW v \in Versions, PanelAnswers(v)
      PROVE  DashInv'
  <2>1. DashTypeOK'
    BY <1>5 DEF PanelAnswers, DashTypeOK, Page, Nothing, Versions
  <2>2. OneSource' /\ ShownIsCurrent'
    BY <1>5 DEF PanelAnswers, OneSource, ShownIsCurrent
  <2> QED
    BY <2>1, <2>2
<1>6. CASE EnterReplayMode
  <2>1. DashTypeOK'
    <3>1. replayGeneration + 1 \in Versions /\ hydrationVersion + 1 \in Versions
      BY <1>6 DEF EnterReplayMode, DashTypeOK, OneSource, Versions
    <3>2. page' \in Page
      BY <1>6, <3>1 DEF EnterReplayMode, Page, Versions
    <3> QED
      <4>1. /\ appMode' = "replay" /\ hydrationVersion' = hydrationVersion + 1
            /\ replayGeneration' = replayGeneration + 1 /\ leaderboard' = 0
            /\ running' = FALSE /\ warming' = FALSE /\ prepared' \in {"none", "shown"}
            /\ UNCHANGED <<hydration, panel, boardCalls, panelCalls, cycles>>
        BY <1>6 DEF EnterReplayMode
      <4>2. running' \in BOOLEAN /\ warming' \in BOOLEAN
        BY <4>1
      <4>3. hydrationVersion' \in Versions /\ replayGeneration' \in 0..MaxVersion /\ leaderboard' \in 0..MaxVersion
        BY <3>1, <4>1 DEF Versions
      <4>4. UNCHANGED <<hydration, panel, boardCalls, panelCalls, cycles>>
        BY <4>1
      <4>5. prepared' \in {"none", "kept", "shown"} /\ appMode' \in {"loading", "live", "unavailable", "replay"}
        BY <4>1
      <4> QED
        BY <3>2, <4>2, <4>3, <4>4, <4>5 DEF DashTypeOK
  <2>2. OneSource'
    BY <1>6 DEF EnterReplayMode, DashTypeOK, OneSource, Versions, Loading
  <2>3. ShownIsCurrent'
    BY <1>6 DEF EnterReplayMode, DashTypeOK, ShownIsCurrent
  <2> QED
    BY <2>1, <2>2, <2>3
<1>7. CASE ExitReplay
  <2>1. DashTypeOK'
    <3>1. hydrationVersion + 1 \in Versions
      BY <1>7 DEF ExitReplay, DashTypeOK, Versions
    <3>2. hydration' \in [Versions -> {"none", "first", "second", "third", "health", "over"}]
      BY <1>7 DEF ExitReplay, DashTypeOK, HydrationGoes
    <3> QED
      BY <1>7, <3>1, <3>2 DEF ExitReplay, DashTypeOK, Hidden
  <2>2. OneSource'
    BY <1>7 DEF ExitReplay, DashTypeOK, OneSource, ShownIsCurrent, HydrationGoes, Versions, Loading
  <2>3. ShownIsCurrent'
    BY <1>7 DEF ExitReplay, DashTypeOK, ShownIsCurrent, Hidden
  <2> QED
    BY <2>1, <2>2, <2>3
<1>8. CASE AddJobs \/ PrepareBatch
  <2>1. DashTypeOK'
    BY <1>8 DEF AddJobs, PrepareBatch, DashTypeOK, callVars, Page
  <2>2. OneSource' /\ ShownIsCurrent'
    BY <1>8 DEF AddJobs, PrepareBatch, DashTypeOK, OneSource, ShownIsCurrent, callVars, Page
  <2> QED
    BY <2>1, <2>2
<1>9. ASSUME NEW c \in 1..MaxCycles, RunCycle(c)
      PROVE  DashInv'
  <2>1. page' = [page EXCEPT !.queued = @ - 1, !.marks = @ \cup {replayGeneration}]
        /\ page \in Page /\ page.queued > 0
    BY <1>9 DEF RunCycle, DashTypeOK
  <2>5. replayGeneration \in Versions
    BY <1>9 DEF RunCycle, DashTypeOK, OneSource, Versions
  <2>2. DashTypeOK'
    <3>1. page' \in Page
      BY <2>1, <2>5, PagesTyped
    <3>2. cycles' \in [1..MaxCycles -> [gen : 0..MaxVersion, next : 1..4]]
      BY <1>9, <2>5 DEF RunCycle, DashTypeOK, Versions
    <3> QED
      BY <1>9, <3>1, <3>2 DEF RunCycle, DashTypeOK, callVars
  <2>3. /\ page'.from = page.from /\ page'.by = page.by
        /\ page'.marks = page.marks \cup {replayGeneration}
    BY <2>1 DEF Page
  <2>4. OneSource' /\ ShownIsCurrent'
    BY <1>9, <2>3 DEF RunCycle, OneSource, ShownIsCurrent, callVars
  <2> QED
    BY <2>2, <2>4
<1>10. ASSUME NEW c \in 1..MaxCycles, TimerFires(c)
       PROVE  DashInv'
  <2>1. DashTypeOK'
    <3>1. cycles[c] \in [gen : 0..MaxVersion, next : 1..4] /\ cycles[c].next # 4
      BY <1>10 DEF TimerFires, DashTypeOK, Timers
    <3>2. cycles' \in [1..MaxCycles -> [gen : 0..MaxVersion, next : 1..4]]
      BY <1>10, <3>1 DEF TimerFires, DashTypeOK
    <3>3. appMode = "replay" => replayGeneration \in Versions
      BY DEF OneSource, DashTypeOK, Versions
    <3>4. page' \in Page
      BY <1>10, <3>3, PagesTyped DEF TimerFires, InReplay, DashTypeOK
    <3> QED
      BY <1>10, <3>2, <3>4 DEF TimerFires, DashTypeOK, callVars
  <2>2. OneSource' /\ ShownIsCurrent'
    BY <1>10 DEF TimerFires, DashTypeOK, InReplay, OneSource, ShownIsCurrent, callVars, Page
  <2> QED
    BY <2>1, <2>2
<1>11. CASE UNCHANGED dashVars
  BY <1>11 DEF dashVars, DashTypeOK, OneSource, ShownIsCurrent
<1> QED
  BY <1>1, <1>2, <1>3, <1>4, <1>5, <1>6, <1>7, <1>8, <1>9, <1>10, <1>11 DEF DashNext

\* Whatever is switched, answers late or fires late, the page shows the ledger of its
\* latest load, or the replay it is in.
THEOREM DashboardShowsItsSource == DashSpec => []ShownIsCurrent
<1>1. DashInv => ShownIsCurrent
  BY DEF DashInv
<1> QED
  BY <1>1, DashStarts, DashStep, PTL DEF DashSpec

-----------------------------------------------------------------------------
(* The issuer page.                                                        *)

PageSpec == PageInit /\ [][PageNext]_pageVars

PageInv == PageTypeOK /\ UploadsBecomeJobsOnce

LEMMA PageStarts == PageInit => PageInv
<1> SUFFICES ASSUME PageInit
             PROVE  PageInv
  OBVIOUS
<1>1. PageTypeOK
  BY DEF PageInit, PageTypeOK, NoUpload, Upload, NoJob, Job
<1>2. UploadsBecomeJobsOnce
  BY DEF PageInit, UploadsBecomeJobsOnce, NoUpload, NoJob, RowIds
<1> QED
  BY <1>1, <1>2 DEF PageInv

\* A confirmation makes all of the jobs of an upload or none.
LEMMA ConfirmationKeeps ==
  ASSUME PageInv, NEW c \in confirms, NEW answered \in BOOLEAN, ConfirmUpload(c, answered)
  PROVE  PageInv'
<1> USE PageAssumption DEF PageInv
<1> DEFINE u == c[1]  i == c[2]
           created == Found(u, i) /\ Creates(u, c[3])
           accepted == \/ Found(u, i) /\ upload[u].status = "confirmed"
                       \/ created /\ Taken(u) = {}
<1>1. u \in Uploads /\ i \in Issuers /\ PageTypeOK /\ UploadsBecomeJobsOnce
  BY DEF PageTypeOK
<1>2. /\ jobRow' = IF created THEN Inserted(u, i) ELSE jobRow
      /\ upload' = IF accepted THEN [upload EXCEPT ![u].status = "confirmed"] ELSE upload
      /\ preview' = preview \/ (accepted /\ preview' = <<u, "confirmed">>)
      /\ refreshes' = refreshes \/ (client # NoIssuer /\ refreshes' = refreshes \cup {<<client, FALSE>>})
      /\ confirms' = confirms \ {c} /\ UNCHANGED <<client, view>>
  BY DEF ConfirmUpload
<1> HIDE DEF u, i
<1>3. RowsPosted(u, i, 1..Rows) \in [RowIds -> Job]
  BY <1>1 DEF RowsPosted, PageTypeOK, Job
<1>4. PageTypeOK'
  <2>1. jobRow' \in [RowIds -> Job]
    BY <1>1, <1>2, <1>3 DEF Inserted, PageTypeOK
  <2>2. upload' \in [Uploads -> Upload]
    BY <1>1, <1>2 DEF PageTypeOK, Upload
  <2>3. preview' \in {<<>>} \cup (Uploads \X {"validated", "confirmed"})
    <3>1. <<u, "confirmed">> \in Uploads \X {"validated", "confirmed"}
      BY <1>1
    <3>2. preview' = preview \/ preview' = <<u, "confirmed">>
      BY <1>2
    <3> QED
      BY <1>1, <3>1, <3>2, Zenon DEF PageTypeOK
  <2>4. refreshes' \subseteq Issuers \X BOOLEAN
    <3>1. CASE client # NoIssuer /\ refreshes' = refreshes \cup {<<client, FALSE>>}
      <4>1. <<client, FALSE>> \in Issuers \X BOOLEAN
        BY <1>1, <3>1 DEF PageTypeOK
      <4> QED
        BY <1>1, <3>1, <4>1 DEF PageTypeOK
    <3> QED
      BY <1>1, <1>2, <3>1 DEF PageTypeOK
  <2>5. confirms' \subseteq Uploads \X Issuers \X Modes
    BY <1>1, <1>2 DEF PageTypeOK
  <2> QED
    BY <1>1, <1>2, <2>1, <2>2, <2>3, <2>4, <2>5 DEF PageTypeOK
<1>5. ASSUME NEW v \in Uploads, NEW n \in 1..Rows
      PROVE  IF upload'[v].status = "confirmed"
             THEN jobRow'[<<v, n>>] = [issuer |-> upload'[v].issuer, from |-> "upload"]
             ELSE jobRow'[<<v, n>>].from # "upload"
  <2>1. /\ <<v, n>> \in RowIds /\ <<v, n>>[1] = v /\ <<v, n>>[2] = n
        /\ upload[v].status = "confirmed" =>
             jobRow[<<v, n>>] = [issuer |-> upload[v].issuer, from |-> "upload"]
        /\ upload[v].status # "confirmed" => jobRow[<<v, n>>].from # "upload"
    BY <1>1 DEF UploadsBecomeJobsOnce, RowIds
  <2>2. CASE v # u
    <3>1. upload'[v] = upload[v]
      BY <1>1, <1>2, <2>2 DEF PageTypeOK
    <3>2. jobRow'[<<v, n>>] = jobRow[<<v, n>>]
      BY <1>1, <1>2, <2>1, <2>2 DEF Inserted, RowsPosted
    <3> QED
      BY <2>1, <3>1, <3>2
  <2>3. CASE v = u /\ created /\ Taken(u) = {}
    <3>1. upload'[v].status = "confirmed" /\ upload'[v].issuer = i
      BY <1>1, <1>2, <2>3 DEF PageTypeOK, Upload, Found
    <3>2. jobRow'[<<v, n>>] = [issuer |-> i, from |-> "upload"]
      BY <1>2, <2>1, <2>3 DEF Inserted, RowsPosted
    <3> QED
      BY <3>1, <3>2
  <2>4. CASE v = u /\ ~(created /\ Taken(u) = {})
    <3>1. jobRow' = jobRow
      BY <1>2, <2>4 DEF Inserted
    <3>2. /\ upload'[v].issuer = upload[v].issuer
          /\ upload'[v].status = "confirmed" <=> upload[v].status = "confirmed"
      BY <1>1, <1>2, <2>4 DEF PageTypeOK, Upload
    <3> QED
      BY <2>1, <3>1, <3>2
  <2> QED
    BY <2>2, <2>3, <2>4
<1>6. preview' # <<>> /\ preview'[2] = "confirmed" => upload'[preview'[1]].status = "confirmed"
  <2>1. accepted => upload'[u].status = "confirmed"
    BY <1>1, <1>2 DEF PageTypeOK, Upload
  <2>2. \A v \in Uploads : upload[v].status = "confirmed" => upload'[v].status = "confirmed"
    BY <1>1, <1>2 DEF PageTypeOK, Upload
  <2> HIDE DEF accepted
  <2>3. CASE preview' = preview
    BY <1>1, <2>2, <2>3 DEF UploadsBecomeJobsOnce, PageTypeOK
  <2>4. CASE accepted /\ preview' = <<u, "confirmed">>
    BY <2>1, <2>4
  <2> QED
    BY <1>2, <2>3, <2>4
<1> QED
  BY <1>4, <1>5, <1>6 DEF UploadsBecomeJobsOnce

LEMMA PageStep == PageInv /\ [PageNext]_pageVars => PageInv'
<1> SUFFICES ASSUME PageInv, [PageNext]_pageVars
             PROVE  PageInv'
  OBVIOUS
<1> USE PageAssumption DEF PageInv
<1>1. ASSUME NEW u \in Uploads, NEW invalid \in BOOLEAN, ValidateFile(u, invalid)
      PROVE  PageInv'
  <2> DEFINE row == [issuer |-> client, status |-> "validated", invalid |-> invalid, expired |-> FALSE]
  <2>1. row \in Upload
    BY <1>1 DEF ValidateFile, PageTypeOK, Upload
  <2>2. /\ upload[u].status = "none" /\ upload' = [upload EXCEPT ![u] = row] /\ row.status = "validated"
        /\ preview' = <<u, "validated">> \/ preview' = preview
        /\ UNCHANGED <<jobRow, client, view, refreshes, confirms>>
    BY <1>1 DEF ValidateFile, NoUpload
  <2> HIDE DEF row
  <2>3. PageTypeOK'
    <3>1. <<u, "validated">> \in Uploads \X {"validated", "confirmed"}
      OBVIOUS
    <3>2. preview' \in {<<>>} \cup (Uploads \X {"validated", "confirmed"})
      BY <2>2, <3>1 DEF PageTypeOK
    <3>3. upload' \in [Uploads -> Upload]
      BY <2>1, <2>2 DEF PageTypeOK
    <3> QED
      BY <2>2, <3>2, <3>3 DEF PageTypeOK
  <2>4. \A v \in Uploads : /\ upload'[v].status = "confirmed" <=> upload[v].status = "confirmed"
                           /\ upload[v].status = "confirmed" => upload'[v].issuer = upload[v].issuer
    BY <2>2 DEF PageTypeOK
  <2>5. preview' # <<>> /\ preview'[2] = "confirmed" =>
          preview' = preview /\ preview[1] \in Uploads
    BY <2>2 DEF PageTypeOK
  <2>6. UploadsBecomeJobsOnce'
    BY <2>2, <2>4, <2>5 DEF UploadsBecomeJobsOnce
  <2> QED
    BY <2>3, <2>6
<1>2. ASSUME NEW u \in Uploads, PreviewExpires(u)
      PROVE  PageInv'
  <2>1. PageTypeOK'
    BY <1>2 DEF PreviewExpires, PageTypeOK, Upload
  <2>2. \A v \in Uploads : upload'[v].status = upload[v].status /\ upload'[v].issuer = upload[v].issuer
    BY <1>2 DEF PreviewExpires, PageTypeOK, Upload
  <2>3. UploadsBecomeJobsOnce'
    BY <1>2, <2>2 DEF PreviewExpires, UploadsBecomeJobsOnce, PageTypeOK
  <2> QED
    BY <2>1, <2>3
<1>3. ASSUME NEW i \in Issuers, NEW r \in RowIds, PostJob(i, r)
      PROVE  PageInv'
  <2>1. PageTypeOK'
    BY <1>3 DEF PostJob, PageTypeOK, Job
  <2>2. UploadsBecomeJobsOnce'
    <3>1. jobRow[r].from # "upload"
      BY <1>3 DEF PostJob, NoJob
    <3>2. \A u \in Uploads, n \in 1..Rows : <<u, n>> \in RowIds
      BY DEF RowIds
    <3> QED
      BY <1>3, <3>1, <3>2 DEF PostJob, UploadsBecomeJobsOnce, PageTypeOK
  <2> QED
    BY <2>1, <2>2
<1>4. ASSUME NEW i \in Issuers, ConnectIssuer(i)
      PROVE  PageInv'
  <2>1. <<i, TRUE>> \in Issuers \X BOOLEAN
    OBVIOUS
  <2>2. refreshes' \subseteq Issuers \X BOOLEAN
    BY <1>4, <2>1 DEF ConnectIssuer, PageTypeOK
  <2> QED
    BY <1>4, <2>2 DEF ConnectIssuer, PageTypeOK, UploadsBecomeJobsOnce
<1>5. CASE ClearIssuer
  BY <1>5 DEF ClearIssuer, PageTypeOK, UploadsBecomeJobsOnce
<1>6. ASSUME NEW f \in refreshes, NEW ok \in BOOLEAN, RefreshEnds(f, ok)
      PROVE  PageInv'
  BY <1>6 DEF RefreshEnds, PageTypeOK, UploadsBecomeJobsOnce
<1>7. ASSUME NEW mode \in Modes, PressConfirm(mode)
      PROVE  PageInv'
  <2>1. confirms' \subseteq Uploads \X Issuers \X Modes
    BY <1>7 DEF PressConfirm, PageTypeOK
  <2> QED
    BY <1>7, <2>1 DEF PressConfirm, PageTypeOK, UploadsBecomeJobsOnce
<1>8. CASE UNCHANGED pageVars
  BY <1>8 DEF pageVars, PageTypeOK, UploadsBecomeJobsOnce
<1> QED
  BY <1>1, <1>2, <1>3, <1>4, <1>5, <1>6, <1>7, <1>8, ConfirmationKeeps DEF PageNext

\* An upload becomes all of its jobs or none, once, however often and under
\* whichever session its buttons are pressed.
THEOREM UploadsCreateOnce == PageSpec => []UploadsBecomeJobsOnce
<1>1. PageInv => UploadsBecomeJobsOnce
  BY DEF PageInv
<1> QED
  BY <1>1, PageStarts, PageStep, PTL DEF PageSpec

-----------------------------------------------------------------------------
(* The database files.                                                     *)

FilesSpec == FilesInit /\ [][FilesNext]_filesVars

\* One restore runs at a time: the command is not run twice at once.
OneRestore == \A r, s \in Restores : Running(r) /\ Running(s) => r = s

\* Before a restore has moved anything it has no rollback copy; it drops the copies
\* only once the backup it installed was found valid.
InOrder(r) ==
  LET q == restore[r]
  IN  /\ q.pc \in {"idle", "copy", "moveMain"} =>
           ~q.moved /\ ~q.installed /\ saved[r].main = "none"
      /\ q.pc \in {"idle", "copy", "moveMain", "moveWal"} => saved[r].wal = "none"
      /\ q.pc \in {"idle", "copy", "moveMain", "moveWal", "install", "validate"} => ~q.valid
      /\ q.pc \in {"dropMain", "dropWal", "sync", "restored"} => q.valid

\* Where a restore that has not validated a backup keeps what it found.
MainAt(r) ==
  LET q == restore[r]  kept == saved[r].main  db == q.found[1]
  IN  /\ q.pc \in {"copy", "moveMain"} => main = db
      /\ q.pc \in {"moveWal", "install", "validate"} => kept = db /\ (q.moved <=> db # "none")
      /\ q.pc \in {"moveWal", "install"} => main = "none" /\ ~q.installed
      /\ q.pc = "validate" => main = "backup" /\ q.installed
      /\ q.pc = "undoInstall" => /\ IF q.moved THEN kept = db
                                    ELSE db = IF q.installed THEN "none" ELSE main
                                 /\ q.installed => main = "backup"
                                 /\ q.moved /\ ~q.installed => main = "none"
      /\ q.pc = "undoMain" => main = "none" /\ kept = db
      /\ q.pc = "undoWal" => main = db

WalAt(r) ==
  LET kept == saved[r].wal  found == restore[r].found[2]
  IN  \/ kept = "none" /\ wal = found
      \/ kept = found /\ wal = "none"

Undoable == \A r \in Restores : Running(r) /\ ~restore[r].valid => MainAt(r) /\ WalAt(r)

OldKept == main = "old" \/ \E r \in Restores : saved[r].main = "old" \/ restore[r].valid

OncePerVersion == \A v \in 1..LastVersion : schema[v] = 1 <=> v \in versions

\* So it is on the backup and on the databases that restores moved aside.
Tidy(db) == \A v \in 1..LastVersion : db.schema[v] = 1 <=> v \in db.versions

CopiesTidy == Tidy(packed) /\ \A r \in Restores : Tidy(aside[r])

FilesInv ==
  /\ FilesTypeOK /\ OneRestore /\ (\A r \in Restores : InOrder(r)) /\ Undoable
  /\ OldKept /\ OncePerVersion /\ CopiesTidy

-----------------------------------------------------------------------------

\* The stages of a restore that goes well.
LEMMA StageTable ==
  /\ NextStage("copy") = "moveMain" /\ NextStage("moveMain") = "moveWal"
  /\ NextStage("moveWal") = "install" /\ NextStage("install") = "validate"
  /\ NextStage("validate") = "dropMain" /\ NextStage("dropMain") = "dropWal"
  /\ NextStage("dropWal") = "sync" /\ NextStage("sync") = "restored"
  BY DEF NextStage

\* Those of the try block.
Stage == {"copy", "moveMain", "moveWal", "install", "validate", "dropMain", "dropWal", "sync"}

\* Those a restore can be in when it takes a step.
LEMMA StageOf ==
  ASSUME FilesTypeOK, NEW r \in Restores, Running(r)
  PROVE  restore[r].pc \in Stage \cup {"undoInstall", "undoMain", "undoWal"}
  BY DEF FilesTypeOK, Running, Restore, Stage

\* What a stage does to the files.
LEMMA FileTable ==
  ASSUME FilesTypeOK, NEW r \in Restores, NEW pc \in Stage, FileOperation(r, pc)
  PROVE  /\ main' = IF pc = "moveMain" THEN "none" ELSE IF pc = "install" THEN "backup" ELSE main
         /\ wal' = IF pc = "moveWal" THEN "none" ELSE wal
         /\ saved'[r].main = IF pc = "moveMain" THEN main
                             ELSE IF pc = "dropMain" THEN "none" ELSE saved[r].main
         /\ saved'[r].wal = IF pc = "moveWal" THEN wal
                            ELSE IF pc = "dropWal" THEN "none" ELSE saved[r].wal
         /\ \A s \in Restores : s # r => saved'[s] = saved[s]
         /\ saved' \in [Restores -> [staged : Content, main : Content, wal : Content]]
<1> DEFINE Row == [staged : Content, main : Content, wal : Content]
<1>0. /\ saved \in [Restores -> Row] /\ main \in Content /\ wal \in Content
      /\ "backup" \in Content /\ "none" \in Content
  BY DEF FilesTypeOK, Content
<1>1. PICK row \in Row : saved[r] = row
  BY <1>0
<1>2. main' = IF pc = "moveMain" THEN "none" ELSE IF pc = "install" THEN "backup" ELSE main
  BY DEF FileOperation, Stage
<1>3. wal' = IF pc = "moveWal" THEN "none" ELSE wal
  BY DEF FileOperation
<1>4. PICK new : /\ saved' = [saved EXCEPT ![r] = new]
                 /\ new = CASE pc = "copy"     -> [row EXCEPT !.staged = "backup"]
                            [] pc = "moveMain" -> [row EXCEPT !.main = main]
                            [] pc = "moveWal"  -> [row EXCEPT !.wal = wal]
                            [] pc = "install"  -> [row EXCEPT !.staged = "none"]
                            [] pc = "dropMain" -> [row EXCEPT !.main = "none"]
                            [] pc = "dropWal"  -> [row EXCEPT !.wal = "none"]
                            [] OTHER           -> row
  BY <1>1 DEF FileOperation
<1>5. /\ new \in Row
      /\ new.main = IF pc = "moveMain" THEN main
                    ELSE IF pc = "dropMain" THEN "none" ELSE row.main
      /\ new.wal = IF pc = "moveWal" THEN wal
                   ELSE IF pc = "dropWal" THEN "none" ELSE row.wal
  BY <1>0, <1>1, <1>4 DEF Stage
<1>6. /\ saved'[r] = new /\ saved' \in [Restores -> Row]
      /\ \A s \in Restores : s # r => saved'[s] = saved[s]
  BY <1>0, <1>4, <1>5
<1> QED BY <1>1, <1>2, <1>3, <1>5, <1>6

\* A record whose pc alone moves on.
LEMMA PcMoves ==
  ASSUME FilesTypeOK, NEW r \in Restores,
         NEW pc \in Stage \cup {"undoInstall", "undoMain", "undoWal", "restored", "threw", "dead"},
         restore' = [restore EXCEPT ![r].pc = pc]
  PROVE  /\ restore'[r].pc = pc /\ restore'[r].moved = restore[r].moved
         /\ restore'[r].installed = restore[r].installed /\ restore'[r].valid = restore[r].valid
         /\ restore'[r].found = restore[r].found
         /\ \A s \in Restores : s # r => restore'[s] = restore[s]
         /\ restore' \in [Restores -> Restore]
<1> PICK q \in Restore : q = restore[r]
  BY DEF FilesTypeOK
<1> DEFINE new == [q EXCEPT !.pc = pc]
<1>1. restore \in [Restores -> Restore]
  BY DEF FilesTypeOK
<1>2. /\ new \in Restore /\ new.pc = pc /\ new.moved = q.moved /\ new.installed = q.installed
      /\ new.valid = q.valid /\ new.found = q.found
  BY DEF Restore, Stage
<1>3. restore' = [restore EXCEPT ![r] = new]
  OBVIOUS
<1> HIDE DEF new
<1>4. restore'[r] = new /\ restore' \in [Restores -> Restore]
      /\ \A s \in Restores : s # r => restore'[s] = restore[s]
  BY <1>1, <1>2, <1>3
<1> QED BY <1>2, <1>4

\* A restore starts with nothing done, and knows what it found.
LEMMA StartTable ==
  ASSUME FilesTypeOK, NEW r \in Restores, StartRestore(r)
  PROVE  /\ restore[r].pc = "idle" /\ restore'[r].pc = "copy"
         /\ restore'[r].moved = restore[r].moved
         /\ restore'[r].installed = restore[r].installed /\ restore'[r].valid = restore[r].valid
         /\ restore'[r].found[1] = main /\ restore'[r].found[2] = wal
         /\ \A s \in Restores : s # r => restore'[s] = restore[s]
         /\ restore' \in [Restores -> Restore]
<1> PICK q \in Restore : q = restore[r]
  BY DEF FilesTypeOK
<1> PICK files \in Content \X Content : files = <<main, wal>>
  BY DEF FilesTypeOK
<1> PICK started : started = [q EXCEPT !.pc = "copy"]
  OBVIOUS
<1> PICK new : new = [started EXCEPT !.found = files]
  OBVIOUS
<1>1. restore \in [Restores -> Restore] /\ q.pc = "idle"
  BY DEF FilesTypeOK, StartRestore
<1>2. /\ started \in Restore /\ started.pc = "copy" /\ started.moved = q.moved
      /\ started.installed = q.installed /\ started.valid = q.valid
  BY DEF Restore
<1>3. /\ new \in Restore /\ new.pc = "copy" /\ new.moved = q.moved
      /\ new.installed = q.installed /\ new.valid = q.valid /\ new.found = files
  BY <1>2 DEF Restore
<1>4. restore' = [restore EXCEPT ![r] = new]
  <2>1. restore' = [restore EXCEPT ![r].pc = "copy", ![r].found = files]
    BY DEF StartRestore
  <2> QED BY <1>1, <2>1
<1>6. restore'[r] = new /\ restore' \in [Restores -> Restore]
      /\ \A s \in Restores : s # r => restore'[s] = restore[s]
  BY <1>1, <1>3, <1>4
<1>5. files[1] = main /\ files[2] = wal
  OBVIOUS
<1> QED BY <1>1, <1>3, <1>5, <1>6

\* Each flag of a record may be set or cleared.
LEMMA RestoreFields ==
  \A q \in Restore, b \in BOOLEAN : /\ [q EXCEPT !.moved = b] \in Restore
                                    /\ [q EXCEPT !.installed = b] \in Restore
                                    /\ [q EXCEPT !.valid = b] \in Restore
  BY DEF Restore

\* What a stage does to the record of the restore.
LEMMA StepTable ==
  ASSUME FilesTypeOK, NEW r \in Restores, RestoreStep(r)
  PROVE  /\ restore[r].pc \in Stage /\ restore'[r].pc = NextStage(restore[r].pc)
         /\ restore'[r].moved <=> (restore[r].moved \/ (restore[r].pc = "moveMain" /\ main # "none"))
         /\ restore'[r].installed <=> (restore[r].installed \/ restore[r].pc = "install")
         /\ restore'[r].valid <=> (restore[r].valid \/ restore[r].pc = "validate")
         /\ restore'[r].found = restore[r].found
         /\ \A s \in Restores : s # r => restore'[s] = restore[s]
         /\ restore' \in [Restores -> Restore]
<1> PICK q \in Restore : q = restore[r]
  BY DEF FilesTypeOK
<1>1. q.pc \in Stage
  BY StageOf DEF RestoreStep
<1>2. restore' = [restore EXCEPT ![r].pc = NextStage(q.pc),
                    ![r].moved = @ \/ (q.pc = "moveMain" /\ main # "none"),
                    ![r].installed = @ \/ q.pc = "install",
                    ![r].valid = @ \/ q.pc = "validate"]
  BY DEF RestoreStep
<1>3. restore \in [Restores -> Restore]
  BY DEF FilesTypeOK
<1> PICK m \in BOOLEAN : m <=> (q.moved \/ (q.pc = "moveMain" /\ main # "none"))
  OBVIOUS
<1> PICK i \in BOOLEAN : i <=> (q.installed \/ q.pc = "install")
  OBVIOUS
<1> PICK v \in BOOLEAN : v <=> (q.valid \/ q.pc = "validate")
  OBVIOUS
<1> PICK staged : staged = [q EXCEPT !.pc = NextStage(q.pc)]
  OBVIOUS
<1> PICK shifted : shifted = [staged EXCEPT !.moved = m]
  OBVIOUS
<1> PICK placed : placed = [shifted EXCEPT !.installed = i]
  OBVIOUS
<1> PICK new : new = [placed EXCEPT !.valid = v]
  OBVIOUS
<1>4. NextStage(q.pc) \in Stage \cup {"restored"}
  BY <1>1, StageTable DEF Stage
<1>5. restore' = [restore EXCEPT ![r] = new]
  BY <1>2, <1>3 DEF Restore
<1>6. /\ staged \in Restore /\ staged.pc = NextStage(q.pc) /\ staged.found = q.found
  BY <1>4 DEF Restore, Stage
<1>7. /\ shifted \in Restore /\ shifted.pc = NextStage(q.pc) /\ shifted.moved = m
      /\ shifted.found = q.found
  BY <1>6 DEF Restore
<1>8. /\ placed \in Restore /\ placed.pc = NextStage(q.pc) /\ placed.moved = m
      /\ placed.installed = i /\ placed.found = q.found
  <2>1. placed \in Restore
    BY <1>7, RestoreFields
  <2>2. placed.pc = NextStage(q.pc)
    BY <1>7 DEF Restore
  <2>3. placed.found = q.found
    BY <1>7 DEF Restore
  <2>4. placed.moved = m
    BY <1>7 DEF Restore
  <2>5. placed.installed = i
    BY <1>7 DEF Restore
  <2> QED BY <2>1, <2>2, <2>3, <2>4, <2>5
<1>9. /\ new \in Restore /\ new.pc = NextStage(q.pc) /\ new.moved = m
      /\ new.installed = i /\ new.valid = v /\ new.found = q.found
  <2>1. new \in Restore
    BY <1>8, RestoreFields
  <2>2. new.pc = NextStage(q.pc)
    BY <1>8 DEF Restore
  <2>3. new.found = q.found
    BY <1>8 DEF Restore
  <2>4. new.moved = m /\ new.installed = i
    BY <1>8 DEF Restore
  <2>5. new.valid = v
    BY <1>8 DEF Restore
  <2> QED BY <2>1, <2>2, <2>3, <2>4, <2>5
<1>10. restore'[r] = new /\ restore' \in [Restores -> Restore]
       /\ \A s \in Restores : s # r => restore'[s] = restore[s]
  BY <1>3, <1>5, <1>9
<1> QED BY <1>1, <1>9, <1>10

\* Migrations are applied in order: the next one is the least that is missing.
LEMMA LeastMissing ==
  ASSUME FilesTypeOK, NEW o \in Openers, Missing(o) # {}
  PROVE  (CHOOSE v \in Missing(o) : \A u \in Missing(o) : v <= u) \in 1..LastVersion
<1>1. Missing(o) \in SUBSET Nat /\ Missing(o) \subseteq 1..LastVersion
  BY FilesAssumption DEF Missing
<1>2. \E v \in Missing(o) : \A u \in Missing(o) : v <= u
  BY <1>1, LeastNatural
<1> QED BY <1>1, <1>2

\* What a migration does: a version that was not there is carried out, or nothing.
LEMMA MigrateTable ==
  ASSUME FilesTypeOK, OncePerVersion, NEW o \in Openers, Migrate(o)
  PROVE  /\ schema' \in [1..LastVersion -> 0..1] /\ versions' \subseteq 1..LastVersion
         /\ opener' \in [Openers -> Opener] /\ OncePerVersion'
<1> PICK v : v = CHOOSE x \in Missing(o) : \A u \in Missing(o) : x <= u
  OBVIOUS
<1>1. v \in 1..LastVersion
  BY LeastMissing DEF Migrate
<1>2. CASE v \in versions
  <2>1. opener' = [opener EXCEPT ![o].pc = "failed"] /\ schema' = schema /\ versions' = versions
    BY <1>2 DEF Migrate
  <2> QED BY <2>1 DEF FilesTypeOK, Opener, OncePerVersion
<1>3. CASE v \notin versions
  <2>1. /\ schema' = [schema EXCEPT ![v] = @ + 1] /\ versions' = versions \cup {v}
        /\ opener' = [opener EXCEPT ![o].seen = @ \cup {v}]
    BY <1>3 DEF Migrate
  <2>2. schema[v] = 0
    BY <1>1, <1>3 DEF FilesTypeOK, OncePerVersion
  <2>3. opener' \in [Openers -> Opener]
    BY <1>1, <2>1 DEF FilesTypeOK, Opener
  <2>4. schema' \in [1..LastVersion -> 0..1] /\ versions' \subseteq 1..LastVersion
    <3>1. schema \in [1..LastVersion -> 0..1] /\ 0 + 1 \in 0..1
      BY DEF FilesTypeOK
    <3>2. schema' \in [1..LastVersion -> 0..1]
      BY <1>1, <2>1, <2>2, <3>1
    <3> QED BY <1>1, <2>1, <3>2 DEF FilesTypeOK
  <2>5. OncePerVersion'
    BY <1>1, <2>1, <2>2 DEF FilesTypeOK, OncePerVersion
  <2> QED BY <2>3, <2>4, <2>5
<1> QED BY <1>2, <1>3

\* So does a process that opens, or creates, the database.
LEMMA OpenTable ==
  ASSUME FilesTypeOK, OncePerVersion, NEW o \in Openers, Open(o)
  PROVE  /\ schema' \in [1..LastVersion -> 0..1] /\ versions' \subseteq 1..LastVersion
         /\ opener' \in [Openers -> Opener] /\ OncePerVersion'
<1> PICK known \in SUBSET (1..LastVersion) : known = IF main = "none" THEN {} ELSE versions
  BY DEF FilesTypeOK
<1>1. /\ versions' = known
      /\ schema' = [v \in 1..LastVersion |-> IF v \in known THEN schema[v] ELSE 0]
      /\ opener' = [opener EXCEPT ![o] = [pc |-> "migrate", seen |-> known]]
  BY DEF Open
<1>2. \A v \in known : v \in versions
  OBVIOUS
<1>3. opener' \in [Openers -> Opener]
  BY <1>1 DEF FilesTypeOK, Opener
<1>4. schema' \in [1..LastVersion -> 0..1] /\ OncePerVersion'
  BY <1>1, <1>2 DEF FilesTypeOK, OncePerVersion
<1> QED BY <1>1, <1>3, <1>4

\* The database as it is keeps its migrations as a copy of it does.
LEMMA CurrentIsTidy ==
  ASSUME FilesTypeOK, OncePerVersion
  PROVE  Current \in Tables /\ Tidy(Current)
<1>1. Current.schema = schema /\ Current.versions = versions
  BY DEF Current
<1>2. Current \in Tables
  BY DEF FilesTypeOK, Current, Tables
<1> QED BY <1>1, <1>2 DEF OncePerVersion, Tidy

\* A database that comes from a copy has the copy's migrations.
LEMMA TidyTables ==
  ASSUME NEW db \in Tables, Tidy(db), schema' = db.schema, versions' = db.versions
  PROVE  /\ schema' \in [1..LastVersion -> 0..1] /\ versions' \subseteq 1..LastVersion
         /\ OncePerVersion'
<1>1. db.schema \in [1..LastVersion -> 0..1] /\ db.versions \subseteq 1..LastVersion
  BY DEF Tables
<1> QED BY <1>1 DEF Tidy, OncePerVersion

\* What a restore moves aside takes its migrations along.
LEMMA AsideTable ==
  ASSUME FilesTypeOK, OncePerVersion, CopiesTidy, packed' = packed,
         NEW r \in Restores, NEW pc \in Stage, FileOperation(r, pc)
  PROVE  aside' \in [Restores -> Tables] /\ CopiesTidy'
<1>1. aside \in [Restores -> Tables] /\ \A s \in Restores : Tidy(aside[s])
  BY DEF FilesTypeOK, CopiesTidy
<1>2. PICK db \in Tables : db = Current /\ Tidy(db)
  BY CurrentIsTidy
<1>3. aside' = IF pc = "moveMain" THEN [aside EXCEPT ![r] = db] ELSE aside
  BY <1>2 DEF FileOperation
<1>4. aside' \in [Restores -> Tables]
  BY <1>1, <1>2, <1>3
<1>5. ASSUME NEW s \in Restores PROVE aside'[s] = aside[s] \/ aside'[s] = db
  BY <1>1, <1>3
<1>6. \A s \in Restores : Tidy(aside'[s])
  BY <1>1, <1>2, <1>5
<1>7. Tidy(packed')
  BY DEF CopiesTidy
<1> QED BY <1>4, <1>6, <1>7 DEF CopiesTidy, Tidy

\* Every file, record and process keeps the domain of its values.
LEMMA FilesTypeStep ==
  ASSUME FilesTypeOK, OncePerVersion, CopiesTidy, [FilesNext]_filesVars
  PROVE  FilesTypeOK' /\ OncePerVersion' /\ CopiesTidy'
<1> DEFINE Good == FilesTypeOK' /\ OncePerVersion' /\ CopiesTidy'
<1>0. ASSUME UNCHANGED <<packed, aside>> PROVE CopiesTidy'
  BY <1>0 DEF CopiesTidy, Tidy
<1>a. ASSUME UNCHANGED <<schema, versions>> PROVE OncePerVersion'
  BY <1>a DEF OncePerVersion
<1>1. CASE UNCHANGED filesVars
  BY <1>0, <1>a, <1>1 DEF filesVars, FilesTypeOK
<1>2. ASSUME NEW b \in Backups, PublishBackup(b) \/ BackupStops(b) PROVE Good
  <2>1. UNCHANGED schemaVars
    BY <1>2 DEF PublishBackup, BackupStops
  <2> QED BY <1>0, <1>a, <1>2, <2>1 DEF PublishBackup, BackupStops, schemaVars, FilesTypeOK
<1>11. ASSUME NEW b \in Backups, StartBackup(b) PROVE Good
  <2>1. /\ packed' = Current /\ making' = [making EXCEPT ![b] = "staged"]
        /\ UNCHANGED <<main, wal, saved, artifact, restore, schema, versions, aside, opener>>
    BY <1>11 DEF StartBackup
  <2>2. Current \in Tables /\ Tidy(Current)
    BY CurrentIsTidy
  <2>3. CopiesTidy'
    <3>1. Tidy(packed')
      BY <2>1, <2>2
    <3>2. \A r \in Restores : Tidy(aside'[r])
      BY <2>1 DEF CopiesTidy
    <3> QED BY <3>1, <3>2 DEF CopiesTidy, Tidy
  <2>4. FilesTypeOK'
    BY <2>1, <2>2 DEF FilesTypeOK
  <2> QED BY <1>a, <2>1, <2>3, <2>4
<1>3. ASSUME NEW b \in Backups, PublishManifest(b) PROVE Good
  <2>1. artifact' \in [db : Backups \cup {"none"}, manifest : Backups \cup {"none"}]
    BY <1>3 DEF PublishManifest, FilesTypeOK
  <2>2. UNCHANGED schemaVars
    BY <1>3 DEF PublishManifest
  <2> QED BY <1>0, <1>a, <1>3, <2>1, <2>2 DEF PublishManifest, schemaVars, FilesTypeOK
<1>4. ASSUME NEW r \in Restores, StartRestore(r) PROVE Good
  <2>1. restore' \in [Restores -> Restore]
    BY <1>4, StartTable
  <2>2. UNCHANGED schemaVars
    BY <1>4 DEF StartRestore
  <2> QED BY <1>0, <1>a, <1>4, <2>1, <2>2 DEF StartRestore, schemaVars, FilesTypeOK
<1>5. ASSUME NEW r \in Restores, RestoreStep(r) PROVE Good
  <2>1. restore' \in [Restores -> Restore] /\ restore[r].pc \in Stage
    BY <1>5, StepTable
  <2>2. FileOperation(r, restore[r].pc)
    BY <1>5 DEF RestoreStep
  <2>3. PICK pc \in Stage : pc = restore[r].pc /\ FileOperation(r, pc)
    BY <2>1, <2>2
  <2>4. /\ saved' \in [Restores -> [staged : Content, main : Content, wal : Content]]
        /\ main' \in Content /\ wal' \in Content
    BY <2>3, FileTable DEF FilesTypeOK, Content
  <2>5. UNCHANGED <<artifact, making, packed, opener>>
    BY <1>5 DEF RestoreStep
  <2>6. aside' \in [Restores -> Tables] /\ CopiesTidy'
    BY <2>3, <2>5, AsideTable
  <2>7. /\ schema' \in [1..LastVersion -> 0..1] /\ versions' \subseteq 1..LastVersion
        /\ OncePerVersion'
    <3>1. CASE pc = "install"
      <4>1. schema' = packed.schema /\ versions' = packed.versions
        BY <2>3, <3>1 DEF FileOperation
      <4>2. packed \in Tables /\ Tidy(packed)
        BY DEF FilesTypeOK, CopiesTidy
      <4> QED BY <4>1, <4>2, TidyTables
    <3>2. CASE pc # "install"
      <4>1. UNCHANGED <<schema, versions>>
        BY <2>3, <3>2 DEF FileOperation
      <4> QED BY <1>a, <4>1 DEF FilesTypeOK
    <3> QED BY <3>1, <3>2
  <2> QED BY <2>1, <2>4, <2>5, <2>6, <2>7 DEF FilesTypeOK
<1>6. ASSUME NEW r \in Restores, RestoreThrows(r) \/ RestoreDies(r) PROVE Good
  <2>1. PICK pc \in {"undoInstall", "dead"} : restore' = [restore EXCEPT ![r].pc = pc]
    BY <1>6 DEF RestoreThrows, RestoreDies
  <2>2. restore' \in [Restores -> Restore]
    BY <2>1, PcMoves
  <2>3. UNCHANGED <<main, wal, saved, artifact, making, schemaVars>>
    BY <1>6 DEF RestoreThrows, RestoreDies
  <2> QED BY <1>0, <1>a, <2>2, <2>3 DEF schemaVars, FilesTypeOK
<1>7. ASSUME NEW r \in Restores, UndoInstall(r) \/ UndoMain(r) \/ UndoWal(r) PROVE Good
  <2>1. restore' \in [Restores -> Restore]
    <3>1. PICK pc \in {"undoMain", "undoWal", "threw"} : restore' = [restore EXCEPT ![r].pc = pc]
      BY <1>7 DEF UndoInstall, UndoMain, UndoWal
    <3> QED BY <3>1, PcMoves
  <2>2. saved' \in [Restores -> [staged : Content, main : Content, wal : Content]]
    BY <1>7 DEF UndoInstall, UndoMain, UndoWal, FilesTypeOK, Content
  <2>3. main' \in Content /\ wal' \in Content
    <3>1. saved[r].main \in Content /\ saved[r].wal \in Content /\ main \in Content /\ wal \in Content
      BY DEF FilesTypeOK
    <3> QED BY <1>7, <3>1 DEF UndoInstall, UndoMain, UndoWal, Content
  <2>4. UNCHANGED <<artifact, making, packed, aside, opener>>
    BY <1>7 DEF UndoInstall, UndoMain, UndoWal, schemaVars
  <2>5. /\ schema' \in [1..LastVersion -> 0..1] /\ versions' \subseteq 1..LastVersion
        /\ OncePerVersion'
    <3>1. CASE UNCHANGED <<schema, versions>>
      BY <1>a, <3>1 DEF FilesTypeOK
    <3>2. CASE ~UNCHANGED <<schema, versions>>
      <4>1. schema' = aside[r].schema /\ versions' = aside[r].versions
        BY <1>7, <3>2 DEF UndoInstall, UndoMain, UndoWal, schemaVars
      <4>2. aside[r] \in Tables /\ Tidy(aside[r])
        BY DEF FilesTypeOK, CopiesTidy
      <4> QED BY <4>1, <4>2, TidyTables
    <3> QED BY <3>1, <3>2
  <2> QED BY <1>0, <2>1, <2>2, <2>3, <2>4, <2>5 DEF FilesTypeOK
<1>8. ASSUME NEW o \in Openers, Open(o) PROVE Good
  <2>1. main' \in Content /\ wal' \in Content
    BY <1>8 DEF Open, FilesTypeOK, Content
  <2> QED BY <1>0, <1>8, <2>1, OpenTable DEF Open, FilesTypeOK
<1>9. ASSUME NEW o \in Openers, Migrate(o) PROVE Good
  BY <1>0, <1>9, MigrateTable DEF Migrate, FilesTypeOK
<1>10. ASSUME NEW o \in Openers, Opened(o) \/ Close(o) PROVE Good
  <2>1. opener' \in [Openers -> Opener]
    BY <1>10 DEF Opened, Close, FilesTypeOK, Opener
  <2>2. UNCHANGED <<main, wal, saved, artifact, restore, making, schema, versions, packed, aside>>
    BY <1>10 DEF Opened, Close
  <2> QED BY <1>0, <1>a, <2>1, <2>2 DEF FilesTypeOK
<1> QED BY <1>1, <1>2, <1>3, <1>4, <1>5, <1>6, <1>7, <1>8, <1>9, <1>10, <1>11 DEF FilesNext

-----------------------------------------------------------------------------

\* A restore that has started takes a step.
RestoreActs(r) == RestoreStep(r) \/ RestoreThrows(r) \/ RestoreDies(r)
                  \/ UndoInstall(r) \/ UndoMain(r) \/ UndoWal(r)

\* Only a restore, or a process that creates the database, touches files and copies.
LEMMA FilesMove ==
  ASSUME [FilesNext]_filesVars
  PROVE  \/ UNCHANGED <<main, wal, saved, restore>>
         \/ \E o \in Openers : Open(o)
         \/ \E r \in Restores : StartRestore(r) \/ RestoreActs(r)
<1>1. CASE UNCHANGED filesVars
  BY <1>1 DEF filesVars
<1>2. ASSUME NEW b \in Backups, StartBackup(b) \/ PublishBackup(b) \/ PublishManifest(b) \/ BackupStops(b)
      PROVE  UNCHANGED <<main, wal, saved, restore>>
  BY <1>2 DEF StartBackup, PublishBackup, PublishManifest, BackupStops
<1>3. ASSUME NEW o \in Openers, Migrate(o) \/ Opened(o) \/ Close(o)
      PROVE  UNCHANGED <<main, wal, saved, restore>>
  BY <1>3 DEF Migrate, Opened, Close
<1> QED BY <1>1, <1>2, <1>3 DEF FilesNext, RestoreActs

\* An operation that fails starts the way back.
LEMMA ThrowTable ==
  ASSUME FilesTypeOK, NEW r \in Restores, RestoreThrows(r)
  PROVE  /\ restore[r].pc \in Stage /\ restore'[r].pc = "undoInstall"
         /\ restore'[r].moved = restore[r].moved /\ restore'[r].installed = restore[r].installed
         /\ restore'[r].valid = restore[r].valid /\ restore'[r].found = restore[r].found
         /\ \A s \in Restores : s # r => restore'[s] = restore[s]
         /\ UNCHANGED <<main, wal, saved>>
<1>1. restore' = [restore EXCEPT ![r].pc = "undoInstall"]
  BY DEF RestoreThrows
<1> QED BY <1>1, PcMoves, StageOf DEF RestoreThrows

\* A process that dies leaves everything where it is.
LEMMA DeathTable ==
  ASSUME FilesTypeOK, NEW r \in Restores, RestoreDies(r)
  PROVE  /\ Running(r) /\ restore'[r].pc = "dead" /\ restore'[r].valid = restore[r].valid
         /\ \A s \in Restores : s # r => restore'[s] = restore[s]
         /\ UNCHANGED <<main, wal, saved>>
<1>1. restore' = [restore EXCEPT ![r].pc = "dead"]
  BY DEF RestoreDies
<1> QED BY <1>1, PcMoves DEF RestoreDies

\* The way back: the installed file goes,
LEMMA UndoInstallTable ==
  ASSUME FilesTypeOK, NEW r \in Restores, UndoInstall(r)
  PROVE  /\ restore[r].pc = "undoInstall"
         /\ restore'[r].pc = IF restore[r].moved THEN "undoMain" ELSE "threw"
         /\ restore'[r].valid = restore[r].valid /\ restore'[r].found = restore[r].found
         /\ \A s \in Restores : s # r => restore'[s] = restore[s] /\ saved'[s] = saved[s]
         /\ main' = IF restore[r].installed THEN "none" ELSE main
         /\ wal' = wal /\ saved'[r].main = saved[r].main /\ saved'[r].wal = saved[r].wal
<1>1. PICK pc \in {"undoMain", "threw"} :
        /\ pc = IF restore[r].moved THEN "undoMain" ELSE "threw"
        /\ restore' = [restore EXCEPT ![r].pc = pc]
  BY DEF UndoInstall
<1>2. /\ saved'[r].main = saved[r].main /\ saved'[r].wal = saved[r].wal
      /\ \A s \in Restores : s # r => saved'[s] = saved[s]
  BY DEF UndoInstall, FilesTypeOK
<1> QED BY <1>1, <1>2, PcMoves DEF UndoInstall

\* the database returns from its copy,
LEMMA UndoMainTable ==
  ASSUME FilesTypeOK, NEW r \in Restores, UndoMain(r)
  PROVE  /\ restore[r].pc = "undoMain" /\ restore'[r].pc = "undoWal"
         /\ restore'[r].valid = restore[r].valid /\ restore'[r].found = restore[r].found
         /\ \A s \in Restores : s # r => restore'[s] = restore[s] /\ saved'[s] = saved[s]
         /\ main' = IF saved[r].main = "none" THEN main ELSE saved[r].main
         /\ wal' = wal /\ saved'[r].wal = saved[r].wal
<1>1. restore' = [restore EXCEPT ![r].pc = "undoWal"]
  BY DEF UndoMain
<1>2. /\ saved'[r].wal = saved[r].wal
      /\ \A s \in Restores : s # r => saved'[s] = saved[s]
  BY DEF UndoMain, FilesTypeOK
<1> QED BY <1>1, <1>2, PcMoves DEF UndoMain

\* and so does the log.
LEMMA UndoWalTable ==
  ASSUME FilesTypeOK, NEW r \in Restores, UndoWal(r)
  PROVE  /\ restore[r].pc = "undoWal" /\ restore'[r].pc = "threw"
         /\ restore'[r].valid = restore[r].valid
         /\ \A s \in Restores : s # r => restore'[s] = restore[s] /\ saved'[s] = saved[s]
         /\ main' = main /\ saved'[r].main = saved[r].main
<1>1. restore' = [restore EXCEPT ![r].pc = "threw"]
  BY DEF UndoWal
<1>2. /\ saved'[r].main = saved[r].main
      /\ \A s \in Restores : s # r => saved'[s] = saved[s]
  BY DEF UndoWal, FilesTypeOK
<1> QED BY <1>1, <1>2, PcMoves DEF UndoWal

\* Opening the database leaves one that exists as it is.
LEMMA OpenFiles ==
  ASSUME NEW o \in Openers, Open(o)
  PROVE  RestoreIdle /\ (main # "none" => main' = main) /\ UNCHANGED <<saved, restore>>
  BY DEF Open

\* A stage, its files and its record at once.
LEMMA StageMoves ==
  ASSUME FilesTypeOK, NEW r \in Restores, RestoreStep(r)
  PROVE  \E pc \in Stage :
           /\ restore[r].pc = pc /\ restore'[r].pc = NextStage(pc)
           /\ restore'[r].moved <=> (restore[r].moved \/ (pc = "moveMain" /\ main # "none"))
           /\ restore'[r].installed <=> (restore[r].installed \/ pc = "install")
           /\ restore'[r].valid <=> (restore[r].valid \/ pc = "validate")
           /\ restore'[r].found = restore[r].found
           /\ main' = IF pc = "moveMain" THEN "none" ELSE IF pc = "install" THEN "backup" ELSE main
           /\ wal' = IF pc = "moveWal" THEN "none" ELSE wal
           /\ saved'[r].main = IF pc = "moveMain" THEN main
                               ELSE IF pc = "dropMain" THEN "none" ELSE saved[r].main
           /\ saved'[r].wal = IF pc = "moveWal" THEN wal
                              ELSE IF pc = "dropWal" THEN "none" ELSE saved[r].wal
           /\ \A s \in Restores : s # r => restore'[s] = restore[s] /\ saved'[s] = saved[s]
<1>1. restore[r].pc \in Stage
  BY StepTable
<1>2. PICK pc \in Stage : pc = restore[r].pc /\ FileOperation(r, pc)
  BY <1>1 DEF RestoreStep
<1> WITNESS pc \in Stage
<1> QED BY <1>2, StepTable, FileTable

\* A restore that takes a step runs, and leaves the records of the others alone.
LEMMA ActingRuns ==
  ASSUME FilesTypeOK, NEW r \in Restores, RestoreActs(r)
  PROVE  /\ Running(r)
         /\ \A s \in Restores : s # r => restore'[s] = restore[s] /\ saved'[s] = saved[s]
<1>1. CASE RestoreStep(r)
  BY <1>1, StageMoves DEF RestoreStep
<1>2. CASE RestoreThrows(r)
  BY <1>2, ThrowTable DEF RestoreThrows
<1>3. CASE RestoreDies(r)
  BY <1>3, DeathTable
<1>4. CASE UndoInstall(r)
  BY <1>4, UndoInstallTable DEF Running
<1>5. CASE UndoMain(r)
  BY <1>5, UndoMainTable DEF Running
<1>6. CASE UndoWal(r)
  BY <1>6, UndoWalTable DEF Running
<1> QED BY <1>1, <1>2, <1>3, <1>4, <1>5, <1>6 DEF RestoreActs

\* A restore starts only while none runs.
LEMMA OneRestoreStep ==
  ASSUME FilesTypeOK, OneRestore, [FilesNext]_filesVars
  PROVE  OneRestore'
<1>1. CASE UNCHANGED restore
  BY <1>1 DEF OneRestore, Running
<1>2. ASSUME NEW r \in Restores, StartRestore(r) PROVE OneRestore'
  <2>1. \A s \in Restores : ~Running(s) /\ (s # r => restore'[s] = restore[s])
    BY <1>2, StartTable DEF StartRestore, RestoreIdle
  <2>2. \A s \in Restores : Running(s)' => s = r
    BY <2>1 DEF Running
  <2> QED BY <2>2 DEF OneRestore
<1>3. ASSUME NEW r \in Restores, RestoreActs(r) PROVE OneRestore'
  <2>1. \A s \in Restores : (s # r => ~Running(s) /\ restore'[s] = restore[s])
    BY <1>3, ActingRuns DEF OneRestore
  <2>2. \A s \in Restores : Running(s)' => s = r
    BY <2>1 DEF Running
  <2> QED BY <2>2 DEF OneRestore
<1> QED BY <1>1, <1>2, <1>3, FilesMove DEF Open

\* Copies come and go in the order of the stages.
LEMMA InOrderStep ==
  ASSUME FilesTypeOK, \A r \in Restores : InOrder(r), [FilesNext]_filesVars, NEW s \in Restores
  PROVE  InOrder(s)'
<1>1. ASSUME restore'[s] = restore[s], saved'[s] = saved[s] PROVE InOrder(s)'
  BY <1>1 DEF InOrder
<1>2. ASSUME StartRestore(s) PROVE InOrder(s)'
  <2>1. saved' = saved
    BY <1>2 DEF StartRestore
  <2> QED BY <1>2, <2>1, StartTable DEF InOrder
<1>3. ASSUME RestoreStep(s) PROVE InOrder(s)'
  <2>1. PICK pc \in Stage :
          /\ restore[s].pc = pc /\ restore'[s].pc = NextStage(pc)
          /\ restore'[s].moved <=> (restore[s].moved \/ (pc = "moveMain" /\ main # "none"))
          /\ restore'[s].installed <=> (restore[s].installed \/ pc = "install")
          /\ restore'[s].valid <=> (restore[s].valid \/ pc = "validate")
          /\ saved'[s].main = IF pc = "moveMain" THEN main
                              ELSE IF pc = "dropMain" THEN "none" ELSE saved[s].main
          /\ saved'[s].wal = IF pc = "moveWal" THEN wal
                             ELSE IF pc = "dropWal" THEN "none" ELSE saved[s].wal
    BY <1>3, StageMoves
  <2> QED BY <2>1, StageTable DEF InOrder, Stage
<1>4. ASSUME RestoreThrows(s) PROVE InOrder(s)'
  BY <1>4, ThrowTable DEF InOrder
<1>5. ASSUME RestoreDies(s) PROVE InOrder(s)'
  BY <1>5, DeathTable DEF InOrder
<1>6. ASSUME UndoInstall(s) PROVE InOrder(s)'
  BY <1>6, UndoInstallTable DEF InOrder
<1>7. ASSUME UndoMain(s) PROVE InOrder(s)'
  BY <1>7, UndoMainTable DEF InOrder
<1>8. ASSUME UndoWal(s) PROVE InOrder(s)'
  BY <1>8, UndoWalTable DEF InOrder
<1>9. ASSUME NEW r \in Restores, r # s, StartRestore(r) \/ RestoreActs(r) PROVE InOrder(s)'
  <2>1. restore'[s] = restore[s] /\ saved'[s] = saved[s]
    BY <1>9, StartTable, ActingRuns DEF StartRestore
  <2> QED BY <1>1, <2>1
<1>10. ASSUME NEW o \in Openers, Open(o) PROVE InOrder(s)'
  BY <1>1, <1>10 DEF Open
<1>11. ASSUME UNCHANGED <<main, wal, saved, restore>> PROVE InOrder(s)'
  BY <1>1, <1>11
<1> QED
  BY <1>2, <1>3, <1>4, <1>5, <1>6, <1>7, <1>8, <1>9, <1>10, <1>11, FilesMove DEF RestoreActs

\* Stage by stage, what a restore found stays where it can be put back from.
LEMMA StageKeeps ==
  ASSUME FilesTypeOK, NEW r \in Restores, InOrder(r), ~restore[r].valid,
         MainAt(r), WalAt(r), RestoreStep(r), ~restore'[r].valid
  PROVE  MainAt(r)' /\ WalAt(r)'
<1>1. PICK pc \in Stage :
        /\ restore[r].pc = pc /\ restore'[r].pc = NextStage(pc)
        /\ restore'[r].moved <=> (restore[r].moved \/ (pc = "moveMain" /\ main # "none"))
        /\ restore'[r].installed <=> (restore[r].installed \/ pc = "install")
        /\ restore'[r].valid <=> (restore[r].valid \/ pc = "validate")
        /\ restore'[r].found = restore[r].found
        /\ main' = IF pc = "moveMain" THEN "none" ELSE IF pc = "install" THEN "backup" ELSE main
        /\ wal' = IF pc = "moveWal" THEN "none" ELSE wal
        /\ saved'[r].main = IF pc = "moveMain" THEN main
                            ELSE IF pc = "dropMain" THEN "none" ELSE saved[r].main
        /\ saved'[r].wal = IF pc = "moveWal" THEN wal
                           ELSE IF pc = "dropWal" THEN "none" ELSE saved[r].wal
  BY StageMoves
<1>2. pc \in {"copy", "moveMain", "moveWal", "install"}
  BY <1>1 DEF InOrder, Stage
<1>3. WalAt(r)'
  BY <1>1, <1>2 DEF WalAt, InOrder
<1>4. MainAt(r)'
  BY <1>1, <1>2, StageTable DEF MainAt, InOrder
<1> QED BY <1>3, <1>4

\* So it is when an operation fails, whatever the stage.
LEMMA ThrowKeeps ==
  ASSUME FilesTypeOK, NEW r \in Restores, InOrder(r), ~restore[r].valid,
         MainAt(r), WalAt(r), RestoreThrows(r)
  PROVE  MainAt(r)' /\ WalAt(r)'
<1>1. restore[r].pc \in {"copy", "moveMain", "moveWal", "install", "validate"}
  BY ThrowTable DEF InOrder, Stage
<1>2. MainAt(r)'
  BY <1>1, ThrowTable DEF MainAt, InOrder
<1>3. WalAt(r)'
  BY ThrowTable DEF WalAt
<1> QED BY <1>2, <1>3

\* And while it is put back.
LEMMA UndoKeeps ==
  ASSUME FilesTypeOK, NEW r \in Restores, ~restore[r].valid, MainAt(r), WalAt(r),
         UndoInstall(r) \/ UndoMain(r), Running(r)'
  PROVE  MainAt(r)' /\ WalAt(r)'
<1>1. CASE UndoInstall(r)
  <2>1. restore'[r].pc = "undoMain" /\ restore[r].moved
    BY <1>1, UndoInstallTable DEF Running
  <2>2. MainAt(r)'
    BY <1>1, <2>1, UndoInstallTable DEF MainAt
  <2> QED BY <1>1, <2>2, UndoInstallTable DEF WalAt
<1>2. CASE UndoMain(r)
  <2>1. MainAt(r)'
    BY <1>2, UndoMainTable DEF MainAt
  <2> QED BY <1>2, <2>1, UndoMainTable DEF WalAt
<1> QED BY <1>1, <1>2

\* A restore that has not validated a backup can put back what it found.
LEMMA UndoableStep ==
  ASSUME FilesTypeOK, OneRestore, OneRestore', \A r \in Restores : InOrder(r), Undoable,
         [FilesNext]_filesVars
  PROVE  Undoable'
<1> SUFFICES ASSUME NEW r \in Restores, Running(r)', ~restore'[r].valid
             PROVE  MainAt(r)' /\ WalAt(r)'
  BY DEF Undoable
<1>1. CASE UNCHANGED <<main, wal, saved, restore>>
  <2>1. Running(r) /\ ~restore[r].valid
    BY <1>1 DEF Running
  <2>2. MainAt(r) /\ WalAt(r)
    BY <2>1 DEF Undoable
  <2>3. MainAt(r)'
    BY <1>1, <2>2 DEF MainAt
  <2>4. WalAt(r)'
    BY <1>1, <2>2 DEF WalAt
  <2> QED BY <2>3, <2>4
<1>2. ASSUME NEW o \in Openers, Open(o) PROVE FALSE
  BY <1>2, OpenFiles DEF RestoreIdle, Running
<1>3. ASSUME NEW s \in Restores, StartRestore(s) PROVE MainAt(r)' /\ WalAt(r)'
  <2>1. r = s
    BY <1>3, StartTable DEF StartRestore, RestoreIdle, Running
  <2>2. UNCHANGED <<main, wal, saved>>
    BY <1>3 DEF StartRestore
  <2>3. MainAt(r)'
    BY <1>3, <2>1, <2>2, StartTable DEF MainAt
  <2>4. saved[r].wal = "none"
    BY <1>3, <2>1, StartTable DEF InOrder
  <2>5. WalAt(r)'
    BY <1>3, <2>1, <2>2, <2>4, StartTable DEF WalAt
  <2> QED BY <2>3, <2>5
<1>4. ASSUME NEW s \in Restores, RestoreActs(s) PROVE MainAt(r)' /\ WalAt(r)'
  <2>1. r = s
    <3>1. s # r => Running(r)
      BY <1>4, ActingRuns DEF Running
    <3> QED BY <1>4, <3>1, ActingRuns DEF OneRestore
  <2>2. ~restore[r].valid
    BY <1>4, <2>1, StageMoves, ThrowTable, DeathTable, UndoInstallTable, UndoMainTable, UndoWalTable
    DEF RestoreActs
  <2>3. MainAt(r) /\ WalAt(r) /\ InOrder(r)
    BY <1>4, <2>1, <2>2, ActingRuns DEF Undoable
  <2>4. ~RestoreDies(r) /\ ~UndoWal(r)
    BY DeathTable, UndoWalTable DEF Running
  <2> QED BY <1>4, <2>1, <2>2, <2>3, <2>4, StageKeeps, ThrowKeeps, UndoKeeps DEF RestoreActs
<1> QED BY <1>1, <1>2, <1>3, <1>4, FilesMove

\* No step loses the last copy of the old data before a backup is found valid.
LEMMA OldKeptStep ==
  ASSUME FilesTypeOK, \A r \in Restores : InOrder(r), Undoable, OldKept, [FilesNext]_filesVars
  PROVE  OldKept'
<1>1. CASE UNCHANGED <<main, wal, saved, restore>>
  BY <1>1 DEF OldKept
<1>2. ASSUME NEW o \in Openers, Open(o) PROVE OldKept'
  BY <1>2, OpenFiles DEF OldKept
<1>3. ASSUME NEW r \in Restores, StartRestore(r) PROVE OldKept'
  <2>1. \A s \in Restores : restore'[s].valid = restore[s].valid
    BY <1>3, StartTable
  <2> QED BY <1>3, <2>1 DEF StartRestore, OldKept
<1>4. ASSUME NEW r \in Restores, RestoreActs(r) PROVE OldKept'
  <2>1. \A s \in Restores : s # r => restore'[s] = restore[s] /\ saved'[s] = saved[s]
    BY <1>4, ActingRuns
  <2>2. restore[r].valid => restore'[r].valid
    BY <1>4, StageMoves, ThrowTable, DeathTable, UndoInstallTable, UndoMainTable, UndoWalTable
    DEF RestoreActs
  <2>3. CASE \E s \in Restores : restore[s].valid
    BY <2>1, <2>2, <2>3 DEF OldKept
  <2>4. CASE \A s \in Restores : ~restore[s].valid
    <3>1. MainAt(r) /\ InOrder(r)
      BY <1>4, <2>4, ActingRuns DEF Undoable
    <3>2. main = "old" \/ saved[r].main = "old" => main' = "old" \/ saved'[r].main = "old"
      <4>1. CASE RestoreStep(r)
        <5>1. PICK pc \in Stage :
                /\ restore[r].pc = pc
                /\ main' = IF pc = "moveMain" THEN "none"
                           ELSE IF pc = "install" THEN "backup" ELSE main
                /\ saved'[r].main = IF pc = "moveMain" THEN main
                                    ELSE IF pc = "dropMain" THEN "none" ELSE saved[r].main
          BY <4>1, StageMoves
        <5>2. pc # "dropMain"
          BY <2>4, <3>1, <5>1 DEF InOrder
        <5>3. pc = "install" => main = "none"
          BY <3>1, <5>1 DEF MainAt
        <5>4. pc = "moveMain" => saved[r].main = "none"
          BY <3>1, <5>1 DEF InOrder
        <5> QED BY <5>1, <5>2, <5>3, <5>4
      <4>2. CASE RestoreThrows(r) \/ RestoreDies(r)
        BY <4>2, ThrowTable, DeathTable
      <4>3. CASE UndoInstall(r)
        <5>1. restore[r].installed => main = "backup"
          BY <3>1, <4>3, UndoInstallTable DEF MainAt
        <5> QED BY <4>3, <5>1, UndoInstallTable
      <4>4. CASE UndoMain(r)
        <5>1. main = "none"
          BY <3>1, <4>4, UndoMainTable DEF MainAt
        <5> QED BY <4>4, <5>1, UndoMainTable
      <4>5. CASE UndoWal(r)
        BY <4>5, UndoWalTable
      <4> QED BY <1>4, <4>1, <4>2, <4>3, <4>4, <4>5 DEF RestoreActs
    <3> QED BY <2>1, <2>4, <3>2 DEF OldKept
  <2> QED BY <2>3, <2>4
<1> QED BY <1>1, <1>2, <1>3, <1>4, FilesMove

\* The database as found, and nothing under way.
LEMMA FilesStart == FilesInit => FilesInv
<1> SUFFICES ASSUME FilesInit PROVE FilesInv
  OBVIOUS
<1>1. \A r \in Restores : /\ ~Running(r) /\ restore[r].pc = "idle" /\ ~restore[r].valid
                          /\ ~restore[r].moved /\ ~restore[r].installed
                          /\ saved[r].main = "none" /\ saved[r].wal = "none"
  BY DEF FilesInit, Running
<1>2. versions \subseteq 1..LastVersion
  BY FilesAssumption DEF FilesInit
<1>3. /\ restore \in [Restores -> Restore]
      /\ saved \in [Restores -> [staged : Content, main : Content, wal : Content]]
  <2>1. [pc |-> "idle", moved |-> FALSE, installed |-> FALSE, valid |-> FALSE,
         found |-> <<"none", "none">>] \in Restore
    BY DEF Restore, Content
  <2>2. [staged |-> "none", main |-> "none", wal |-> "none"]
          \in [staged : Content, main : Content, wal : Content]
    BY DEF Content
  <2> QED BY <2>1, <2>2 DEF FilesInit
<1>4. main \in Content /\ wal \in Content
  BY DEF FilesInit, Content
<1>5. opener \in [Openers -> Opener] /\ schema \in [1..LastVersion -> 0..1]
  BY DEF FilesInit, Opener
<1>10. OncePerVersion
  BY DEF FilesInit, OncePerVersion
<1>11. /\ packed = Current /\ aside = [r \in Restores |-> Current]
       /\ Current \in Tables /\ Tidy(Current)
  <2>1. Current.schema = schema /\ Current.versions = versions
    BY DEF Current
  <2>2. Current \in Tables
    BY <1>2, <1>5 DEF Current, Tables
  <2> QED BY <1>10, <2>1, <2>2 DEF FilesInit, OncePerVersion, Tidy
<1>6. FilesTypeOK
  BY <1>2, <1>3, <1>4, <1>5, <1>11 DEF FilesTypeOK, FilesInit
<1>7. OneRestore /\ \A r \in Restores : InOrder(r)
  BY <1>1 DEF OneRestore, InOrder
<1>8. Undoable
  BY <1>1 DEF Undoable
<1>9. OldKept
  BY DEF FilesInit, OldKept
<1>12. CopiesTidy
  BY <1>11 DEF CopiesTidy
<1> QED BY <1>6, <1>7, <1>8, <1>9, <1>10, <1>12 DEF FilesInv

\* Every step of a backup, a restore or an opening process preserves it.
LEMMA FilesStep == FilesInv /\ [FilesNext]_filesVars => FilesInv'
<1> SUFFICES ASSUME FilesInv, [FilesNext]_filesVars PROVE FilesInv'
  OBVIOUS
<1>1. FilesTypeOK' /\ OncePerVersion' /\ CopiesTidy' /\ OneRestore'
  BY FilesTypeStep, OneRestoreStep DEF FilesInv
<1>2. \A r \in Restores : InOrder(r)'
  BY InOrderStep DEF FilesInv
<1>3. Undoable' /\ OldKept'
  BY <1>1, UndoableStep, OldKeptStep DEF FilesInv
<1> QED BY <1>1, <1>2, <1>3 DEF FilesInv

\* Whatever dies or fails while a backup is restored, the old database is on disk
\* until the backup was found valid; a restore that throws before that puts back
\* the database and the log it found (one that dies may leave them apart); and
\* each migration is carried out once on the database in use: for any number of
\* restores, backups, migrations and opening processes.
THEOREM OldDataSurvives == FilesSpec => []DataSurvives
<1>1. FilesInv => DataSurvives
  <2> SUFFICES ASSUME FilesInv PROVE DataSurvives
    OBVIOUS
  <2>1. ASSUME NEW r \in Restores, restore[r].pc = "undoWal", ~restore[r].valid
        PROVE  /\ main = restore[r].found[1]
               /\ (IF saved[r].wal = "none" THEN wal ELSE saved[r].wal) = restore[r].found[2]
    <3>1. MainAt(r) /\ WalAt(r)
      BY <2>1 DEF FilesInv, Undoable, Running
    <3>2. main = restore[r].found[1]
      BY <2>1, <3>1 DEF MainAt
    <3> QED BY <3>1, <3>2 DEF WalAt
  <2>2. main = "old" \/ \E r \in Restores : saved[r].main = "old" \/ restore[r].valid
    BY DEF FilesInv, OldKept
  <2>3. \A v \in 1..LastVersion : schema[v] = 1 <=> v \in versions
    BY DEF FilesInv, OncePerVersion
  <2> QED BY <2>1, <2>2, <2>3 DEF DataSurvives
<1> QED BY <1>1, FilesStart, FilesStep, PTL DEF FilesSpec

-----------------------------------------------------------------------------
(* The first escrow contract.                                              *)

Event == [event : {"Deposited", "Released", "Refunded"}, to : Addresses,
          escrow : SlotRow]

\* Deposits, each followed by at most one pay-out that matches it.
Alternates(told) ==
  \A i \in DOMAIN told :
    LET e == told[i]
    IN  /\ (e.event = "Deposited") <=> (i % 2 = 1)
        /\ e.event = "Released" => i = Len(told) /\ e.to = told[i - 1].escrow.agent
        /\ e.event = "Refunded" => e.to = told[i - 1].escrow.issuer
        /\ i % 2 = 0 => e.escrow.amount = told[i - 1].escrow.amount

\* The contract holds the money of a row: it is not paid out, or to the contract.
StillHeld(row) == row.status = "Funded" \/ (row.status = "Released" /\ row.agent = Vault)

\* The last event of a slot is how the slot came to be as it is.
Tells(told, row) ==
  IF told = <<>> THEN row = NoDeposit
  ELSE LET e == told[Len(told)]
       IN  /\ e.escrow = row
           /\ e.event = IF row.status = "Funded" THEN "Deposited" ELSE row.status
           /\ e.to = Vault <=> StillHeld(row)

HeldTable == [s \in Slots |-> HeldFor(s)]

V1Inv ==
  /\ V1TypeOK /\ log \in [Slots -> Seq(Event)]
  /\ \A s \in Slots : Alternates(log[s])
  /\ \A s \in Slots : Tells(log[s], slot[s])
  /\ purse[Vault] = gifts + SumFunctionOnSet(HeldTable, Slots)

-----------------------------------------------------------------------------

\* Even and odd take turns.
LEMMA Parity ==
  \A n \in Nat : /\ n % 2 \in {0, 1}
                 /\ (n + 1) % 2 = 1 <=> n % 2 = 0
                 /\ (n + 1) % 2 = 0 <=> n % 2 = 1
  OBVIOUS

\* One event more.
LEMMA AppendAlternates ==
  ASSUME NEW told \in Seq(Event), NEW e \in Event, Alternates(told),
         told # <<>> => told[Len(told)].event # "Released",
         e.event = "Deposited" <=> Len(told) % 2 = 0,
         e.event = "Released" => e.to = told[Len(told)].escrow.agent,
         e.event = "Refunded" => e.to = told[Len(told)].escrow.issuer,
         e.event # "Deposited" => e.escrow.amount = told[Len(told)].escrow.amount
  PROVE  Alternates(Append(told, e))
<1> DEFINE n == Len(told)
           more == Append(told, e)
<1>1. /\ n \in Nat /\ Len(more) = n + 1 /\ DOMAIN more = 1..(n + 1) /\ DOMAIN told = 1..n
      /\ more[n + 1] = e /\ \A i \in 1..n : more[i] = told[i]
  OBVIOUS
<1> SUFFICES ASSUME NEW i \in 1..(n + 1)
             PROVE  /\ (more[i].event = "Deposited") <=> (i % 2 = 1)
                    /\ more[i].event = "Released" =>
                         i = Len(more) /\ more[i].to = more[i - 1].escrow.agent
                    /\ more[i].event = "Refunded" => more[i].to = more[i - 1].escrow.issuer
                    /\ i % 2 = 0 => more[i].escrow.amount = more[i - 1].escrow.amount
  BY <1>1 DEF Alternates
<1> HIDE DEF n, more
<1>2. CASE i = n + 1
  <2>1. (e.event = "Deposited") <=> (i % 2 = 1)
    BY <1>1, <1>2, Parity DEF n
  <2>2. n = 0 => e.event = "Deposited"
    BY DEF n
  <2>3. e.event # "Deposited" => n \in 1..n /\ more[i - 1] = told[n]
    BY <1>1, <1>2, <2>2
  <2>4. i % 2 = 0 => e.event # "Deposited"
    BY <2>1
  <2> QED BY <1>1, <1>2, <2>1, <2>3, <2>4 DEF n
<1>3. CASE i \in 1..n
  <2>1. /\ (told[i].event = "Deposited") <=> (i % 2 = 1)
        /\ told[i].event = "Released" => i = n
        /\ told[i].event = "Refunded" => told[i].to = told[i - 1].escrow.issuer
        /\ i % 2 = 0 => told[i].escrow.amount = told[i - 1].escrow.amount
    BY <1>1, <1>3 DEF Alternates, n
  <2>2. told[i].event # "Released"
    <3>1. told # <<>> /\ told[n].event # "Released"
      BY <1>1, <1>3 DEF n
    <3> QED BY <2>1, <3>1
  <2>3. i # 1 => i - 1 \in 1..n /\ more[i - 1] = told[i - 1]
    BY <1>1, <1>3
  <2>4. i = 1 => i % 2 = 1
    OBVIOUS
  <2>5. told[i].event # "Deposited" => i # 1
    BY <2>1, <2>4
  <2> QED BY <1>1, <1>3, <2>1, <2>2, <2>3, <2>4, <2>5
<1> QED BY <1>1, <1>2, <1>3

-----------------------------------------------------------------------------

\* A slot without a deposit has no status of a deposit.
LEMMA FundedIsRow ==
  ASSUME V1TypeOK, NEW s \in Slots, slot[s].status # "None"
  PROVE  slot[s] \in SlotRow
  BY DEF V1TypeOK, NoDeposit

\* The amount that a row says the contract holds.
InRow(row) == IF StillHeld(row) THEN row.amount ELSE 0

\* What the events of a slot say the contract holds for it is what the slot says.
LEMMA HeldIs ==
  ASSUME NEW told \in Seq(Event), NEW row \in SlotRow \cup {NoDeposit}, Tells(told, row)
  PROVE  /\ InRow(row) \in Nat
         /\ InRow(row) = IF told # <<>> /\ told[Len(told)].to = Vault
                         THEN told[Len(told)].escrow.amount ELSE 0
<1>1. InRow(row) \in Nat
  <2>1. CASE row \in SlotRow
    BY <2>1, EscrowV1Assumption DEF InRow, SlotRow
  <2>2. CASE row = NoDeposit
    BY <2>2 DEF InRow, StillHeld, NoDeposit
  <2> QED BY <2>1, <2>2
<1>2. CASE told = <<>>
  BY <1>1, <1>2 DEF Tells, InRow, StillHeld, NoDeposit
<1>3. CASE told # <<>>
  BY <1>1, <1>3 DEF Tells, InRow
<1> QED BY <1>2, <1>3

\* An event is written to the log of its slot.
LEMMA EmitTable ==
  ASSUME log \in [Slots -> Seq(Event)], NEW s \in Slots, NEW row \in SlotRow, slot'[s] = row,
         NEW event \in {"Deposited", "Released", "Refunded"}, NEW to \in Addresses,
         Emit(s, event, to)
  PROVE  \E e \in Event :
           /\ e.event = event /\ e.to = to /\ e.escrow = row
           /\ log' \in [Slots -> Seq(Event)]
           /\ log'[s] = Append(log[s], e)
           /\ \A t \in Slots : t # s => log'[t] = log[t]
<1> PICK e : e = [event |-> event, to |-> to, escrow |-> row]
  OBVIOUS
<1>1. e \in Event /\ e.event = event /\ e.to = to /\ e.escrow = row
  BY DEF Event
<1>2. log' = [log EXCEPT ![s] = Append(log[s], e)]
  BY DEF Emit
<1>3. Append(log[s], e) \in Seq(Event)
  BY <1>1
<1> WITNESS e \in Event
<1> QED BY <1>1, <1>2, <1>3

\* A transfer takes from one balance what it adds to another, which may be the same.
LEMMA PaysTable ==
  ASSUME purse \in [Addresses -> Nat], NEW from \in Addresses, NEW to \in Addresses,
         NEW amount \in Nat, Pays(from, to, amount)
  PROVE  /\ purse' \in [Addresses -> Nat]
         /\ purse'[Vault] = purse[Vault] - (IF from = Vault THEN amount ELSE 0)
                                        + (IF to = Vault THEN amount ELSE 0)
<1>1. ASSUME NEW a \in Addresses
      PROVE  /\ purse[a] \in Nat /\ a = from => purse[a] >= amount
             /\ purse'[a] = purse[a] - (IF a = from THEN amount ELSE 0)
                                    + (IF a = to THEN amount ELSE 0)
  BY DEF Pays
<1>2. \A a \in Addresses : purse'[a] \in Nat
  BY <1>1
<1>3. purse' = [a \in Addresses |-> purse'[a]]
  BY DEF Pays
<1>4. Vault \in Addresses
  BY DEF Addresses
<1>5. purse' \in [Addresses -> Nat]
  BY <1>2, <1>3
<1> QED BY <1>1, <1>4, <1>5

\* What an account sends to the contract is there.
LEMMA ArrivesTable ==
  ASSUME purse \in [Addresses -> Nat], NEW a \in Purses, NEW u \in Units, Pays(a, Vault, u)
  PROVE  purse' \in [Addresses -> Nat] /\ purse'[Vault] = purse[Vault] + u
<1>1. a # Vault /\ u \in Nat /\ a \in Addresses /\ Vault \in Addresses
  BY EscrowV1Assumption DEF Addresses
<1>2. /\ purse' \in [Addresses -> Nat]
      /\ purse'[Vault] = purse[Vault] - (IF a = Vault THEN u ELSE 0)
                                     + (IF Vault = Vault THEN u ELSE 0)
  BY <1>1, PaysTable
<1>3. purse[Vault] \in Nat
  BY <1>1
<1> QED BY <1>1, <1>2, <1>3

\* A deposit fills a slot that holds nothing.
LEMMA DepositTable ==
  ASSUME V1TypeOK, NEW a \in Purses, NEW b \in Addresses, NEW s \in Slots, NEW u \in Units,
         depositV1(a, s, b, u)
  PROVE  /\ slot[s].status \in {"None", "Refunded"} /\ slot'[s] \in SlotRow
         /\ slot'[s].status = "Funded" /\ slot'[s].amount = u
         /\ \A t \in Slots : t # s => slot'[t] = slot[t]
         /\ purse'[Vault] = purse[Vault] + u
         /\ V1TypeOK'
<1>1. a # Vault /\ u \in Nat
  BY EscrowV1Assumption
<1> PICK row : row = [issuer |-> a, agent |-> b, amount |-> u, status |-> "Funded"]
  OBVIOUS
<1>2. row \in SlotRow /\ row.status = "Funded" /\ row.amount = u
  BY DEF SlotRow
<1>3. slot' = [slot EXCEPT ![s] = row] /\ slot[s].status \in {"None", "Refunded"}
  BY DEF depositV1
<1>4. slot' \in [Slots -> SlotRow \cup {NoDeposit}] /\ slot'[s] = row
      /\ \A t \in Slots : t # s => slot'[t] = slot[t]
  BY <1>2, <1>3 DEF V1TypeOK
<1>5. purse' \in [Addresses -> Nat] /\ purse'[Vault] = purse[Vault] + u
  BY ArrivesTable DEF depositV1, V1TypeOK
<1>6. gifts' = gifts /\ tool' = tool /\ operator' = operator
  BY DEF depositV1
<1> QED BY <1>2, <1>3, <1>4, <1>5, <1>6 DEF V1TypeOK

\* A pay-out empties one, to the agent or back to the issuer.
LEMMA PayOutTable ==
  ASSUME V1TypeOK, NEW a \in Purses, NEW s \in Slots, releaseV1(a, s) \/ refundV1(a, s)
  PROVE  /\ slot[s].status = "Funded" /\ slot[s] \in SlotRow /\ slot'[s] \in SlotRow
         /\ slot'[s].status \in {"Released", "Refunded"} /\ slot'[s].amount = slot[s].amount
         /\ Emit(s, slot'[s].status, IF slot'[s].status = "Released" THEN slot[s].agent
                                                                  ELSE slot[s].issuer)
         /\ \A t \in Slots : t # s => slot'[t] = slot[t]
         /\ slot[s].agent \in Addresses /\ slot'[s].agent = slot[s].agent
         /\ purse' \in [Addresses -> Nat]
         /\ purse'[Vault] = purse[Vault] - slot[s].amount + InRow(slot'[s])
         /\ slot' \in [Slots -> SlotRow \cup {NoDeposit}] /\ operator' = operator /\ gifts' = gifts
<1>1. PICK status \in {"Released", "Refunded"} :
        PayOut(a, s, status, IF status = "Released" THEN slot[s].agent ELSE slot[s].issuer)
  BY DEF releaseV1, refundV1
<1> PICK to : to = IF status = "Released" THEN slot[s].agent ELSE slot[s].issuer
  OBVIOUS
<1>2. slot[s].status = "Funded" /\ slot[s] \in SlotRow
  BY <1>1, FundedIsRow DEF PayOut, InFundedState
<1>3. PICK row \in SlotRow : row = slot[s]
  BY <1>2
<1>4. /\ to \in Addresses /\ row.amount \in Nat
      /\ to = Vault <=> (status = "Released" /\ row.agent = Vault)
  BY <1>3, EscrowV1Assumption DEF SlotRow, Addresses
<1> PICK paid : paid = [row EXCEPT !.status = status]
  OBVIOUS
<1>5. /\ paid \in SlotRow /\ paid.status = status /\ paid.amount = row.amount
      /\ paid.agent = row.agent
  BY <1>3 DEF SlotRow
<1>6. slot' = [slot EXCEPT ![s] = paid]
  BY <1>1, <1>3 DEF PayOut
<1>7. /\ slot' \in [Slots -> SlotRow \cup {NoDeposit}] /\ slot'[s] = paid
      /\ \A t \in Slots : t # s => slot'[t] = slot[t]
  BY <1>5, <1>6 DEF V1TypeOK
<1>8. InRow(paid) = IF to = Vault THEN row.amount ELSE 0
  BY <1>4, <1>5 DEF InRow, StillHeld
<1>9. /\ purse' \in [Addresses -> Nat]
      /\ purse'[Vault] = purse[Vault] - row.amount + InRow(paid)
  <2>1. Pays(Vault, to, row.amount) /\ Vault \in Addresses
    BY <1>1, <1>3 DEF PayOut, Addresses
  <2> QED BY <1>4, <1>8, <2>1, PaysTable DEF V1TypeOK
<1>10. Emit(s, status, to) /\ operator' = operator /\ gifts' = gifts
  BY <1>1 DEF PayOut
<1>11. slot[s].agent \in Addresses
  BY <1>3 DEF SlotRow
<1> QED BY <1>2, <1>3, <1>5, <1>7, <1>9, <1>10, <1>11

-----------------------------------------------------------------------------

\* A slot that moves with its event and its money.
Moves(s, e) ==
  /\ log' \in [Slots -> Seq(Event)] /\ log'[s] = Append(log[s], e) /\ e.escrow = slot'[s]
  /\ \A t \in Slots : t # s => slot'[t] = slot[t] /\ log'[t] = log[t]
  /\ Alternates(log'[s])
  /\ e.event = IF slot'[s].status = "Funded" THEN "Deposited" ELSE slot'[s].status
  /\ e.to = Vault <=> StillHeld(slot'[s])
  /\ gifts' = gifts /\ purse'[Vault] = purse[Vault] - InRow(slot[s]) + InRow(slot'[s])

\* The deposits held add up to a number.
LEMMA HeldIsNat ==
  ASSUME V1Inv PROVE SumFunctionOnSet(HeldTable, Slots) \in Nat
<1> PICK w : w = HeldTable
  OBVIOUS
<1>1. ASSUME NEW t \in Slots PROVE w[t] \in Nat
  <2>1. log[t] \in Seq(Event) /\ slot[t] \in SlotRow \cup {NoDeposit} /\ Tells(log[t], slot[t])
    BY DEF V1Inv, V1TypeOK
  <2>2. w[t] = IF log[t] # <<>> /\ log[t][Len(log[t])].to = Vault
               THEN log[t][Len(log[t])].escrow.amount ELSE 0
    BY DEF HeldTable, HeldFor
  <2> QED BY <2>1, <2>2, HeldIs
<1>2. PICK s \in Slots : TRUE
  BY EscrowV1Assumption
<1>3. PICK rest \in Nat : SumFunctionOnSet(w, Slots) = rest + w[s]
  BY <1>1, <1>2, EscrowV1Assumption, SumMoves
<1> QED BY <1>1, <1>3

\* Such a step keeps the books.
LEMMA MoveKeeps ==
  ASSUME V1Inv, V1TypeOK', NEW s \in Slots, NEW e \in Event, Moves(s, e)
  PROVE  V1Inv'
<1>1. \A t \in Slots : Alternates(log'[t])
  BY DEF V1Inv, Moves
<1>2. ASSUME NEW t \in Slots PROVE Tells(log'[t], slot'[t])
  <2>1. CASE t # s
    BY <2>1 DEF V1Inv, Moves
  <2>2. CASE t = s
    <3> PICK told \in Seq(Event) : told = log[s]
      BY DEF V1Inv
    <3> PICK more : more = Append(told, e)
      OBVIOUS
    <3>1. more # <<>> /\ more[Len(more)] = e
      OBVIOUS
    <3>2. log'[t] = more
      BY <2>2 DEF Moves
    <3> QED BY <2>2, <3>1, <3>2 DEF Tells, Moves
  <2> QED BY <2>1, <2>2
<1>10. PICK w : w = HeldTable
  OBVIOUS
<1>11. PICK v : v = HeldTable'
  OBVIOUS
<1>3. ASSUME NEW t \in Slots PROVE w[t] = InRow(slot[t]) /\ w[t] \in Nat
  <2>1. log[t] \in Seq(Event) /\ slot[t] \in SlotRow \cup {NoDeposit}
    BY DEF V1Inv, V1TypeOK
  <2>2. Tells(log[t], slot[t])
    BY DEF V1Inv
  <2>3. w[t] = IF log[t] # <<>> /\ log[t][Len(log[t])].to = Vault
               THEN log[t][Len(log[t])].escrow.amount ELSE 0
    BY <1>10 DEF HeldTable, HeldFor
  <2> QED BY <2>1, <2>2, <2>3, HeldIs
<1>4. ASSUME NEW t \in Slots PROVE v[t] = InRow(slot'[t]) /\ v[t] \in Nat
  <2>1. log'[t] \in Seq(Event) /\ slot'[t] \in SlotRow \cup {NoDeposit}
    BY DEF V1TypeOK, Moves
  <2>2. v[t] = IF log'[t] # <<>> /\ log'[t][Len(log'[t])].to = Vault
               THEN log'[t][Len(log'[t])].escrow.amount ELSE 0
    BY <1>11 DEF HeldTable, HeldFor
  <2> QED BY <1>2, <2>1, <2>2, HeldIs
<1>5. \A t \in Slots \ {s} : v[t] = w[t]
  BY <1>3, <1>4 DEF Moves
<1>6. (\A t \in Slots : w[t] \in Nat) /\ (\A t \in Slots : v[t] \in Nat)
  BY <1>3, <1>4
<1>7. /\ purse[Vault] \in Nat /\ purse'[Vault] \in Nat /\ gifts \in Nat /\ gifts' = gifts
      /\ purse[Vault] = gifts + SumFunctionOnSet(w, Slots)
  BY <1>10 DEF V1Inv, V1TypeOK, Addresses, Moves
<1>8. purse'[Vault] = gifts' + SumFunctionOnSet(v, Slots)
  <2>1. IsFiniteSet(Slots)
    BY EscrowV1Assumption
  <2>2. PICK rest \in Nat : /\ SumFunctionOnSet(w, Slots) = rest + w[s]
                           /\ SumFunctionOnSet(v, Slots) = rest + v[s]
    BY <1>5, <1>6, <2>1, SumMoves
  <2>3. purse'[Vault] = purse[Vault] - w[s] + v[s] /\ w[s] \in Nat /\ v[s] \in Nat
    BY <1>3, <1>4 DEF Moves
  <2> QED BY <1>7, <2>2, <2>3
<1>9. (purse[Vault] = gifts + SumFunctionOnSet(HeldTable, Slots))'
  BY <1>11, <1>8
<1> QED BY <1>1, <1>2, <1>9 DEF V1Inv, Moves

\* The last event of a slot with a deposit is that deposit, of the same escrow.
LEMMA FundedTells ==
  ASSUME NEW told \in Seq(Event), NEW row \in SlotRow, Alternates(told), Tells(told, row)
  PROVE  /\ told # <<>> /\ told[Len(told)].escrow = row
         /\ told[Len(told)].event # "Released" <=> row.status # "Released"
         /\ Len(told) % 2 = 1 <=> row.status = "Funded"
<1>1. told # <<>>
  BY DEF Tells, SlotRow, NoDeposit
<1>2. Len(told) \in DOMAIN told
  BY <1>1
<1>3. told[Len(told)].event = "Deposited" <=> Len(told) % 2 = 1
  BY <1>2 DEF Alternates
<1> QED BY <1>1, <1>3 DEF Tells, SlotRow

\* A deposit is the event after nothing or after a refund.
LEMMA DepositKeeps ==
  ASSUME V1Inv, NEW a \in Purses, NEW b \in Addresses, NEW s \in Slots, NEW u \in Units,
         depositV1(a, s, b, u)
  PROVE  V1Inv'
<1>1. /\ slot[s].status \in {"None", "Refunded"} /\ slot'[s] \in SlotRow
      /\ slot'[s].status = "Funded" /\ slot'[s].amount = u
      /\ \A t \in Slots : t # s => slot'[t] = slot[t]
      /\ purse'[Vault] = purse[Vault] + u /\ V1TypeOK'
  BY DepositTable DEF V1Inv
<1>2. PICK e \in Event :
        /\ e.event = "Deposited" /\ e.escrow = slot'[s] /\ e.to = Vault
        /\ log' \in [Slots -> Seq(Event)] /\ log'[s] = Append(log[s], e)
        /\ \A t \in Slots : t # s => log'[t] = log[t]
  <2>1. PICK row \in SlotRow : row = slot'[s]
    BY <1>1
  <2>2. Emit(s, "Deposited", Vault) /\ log \in [Slots -> Seq(Event)] /\ Vault \in Addresses
    BY DEF depositV1, V1Inv, Addresses
  <2> QED BY <2>1, <2>2, EmitTable
<1> PICK told \in Seq(Event) : told = log[s]
  BY DEF V1Inv
<1>3. Alternates(told) /\ Tells(told, slot[s])
  BY DEF V1Inv
<1>4. Len(told) % 2 = 0 /\ (told # <<>> => told[Len(told)].event # "Released")
  <2>1. CASE told = <<>>
    BY <2>1
  <2>2. CASE told # <<>>
    <3>1. slot[s].status # "None"
      <4>1. told[Len(told)].event = slot[s].status
        BY <1>1, <1>3, <2>2 DEF Tells
      <4>2. told[Len(told)] \in Event
        BY <2>2
      <4> QED BY <4>1, <4>2 DEF Event
    <3>2. slot[s] \in SlotRow
      BY <3>1, FundedIsRow DEF V1Inv
    <3>3. Len(told) % 2 # 1 /\ told[Len(told)].event # "Released"
      BY <1>1, <1>3, <3>2, FundedTells
    <3>4. Len(told) \in Nat
      OBVIOUS
    <3> QED BY <3>3, <3>4, Parity
  <2> QED BY <2>1, <2>2
<1>5. Alternates(Append(told, e))
  BY <1>2, <1>3, <1>4, AppendAlternates
<1>6. purse'[Vault] = purse[Vault] - InRow(slot[s]) + InRow(slot'[s])
  <2>1. purse[Vault] \in Nat /\ u \in Nat
    BY EscrowV1Assumption DEF V1Inv, V1TypeOK, Addresses
  <2>2. InRow(slot[s]) = 0 /\ InRow(slot'[s]) = u
    BY <1>1 DEF InRow, StillHeld
  <2> QED BY <1>1, <2>1, <2>2
<1>7. StillHeld(slot'[s]) /\ gifts' = gifts
  BY <1>1 DEF StillHeld, depositV1
<1> QED BY <1>1, <1>2, <1>5, <1>6, <1>7, MoveKeeps DEF Moves

\* A pay-out is the event after the deposit it pays out.
LEMMA PayOutKeeps ==
  ASSUME V1Inv, NEW a \in Purses, NEW s \in Slots, releaseV1(a, s) \/ refundV1(a, s), V1TypeOK'
  PROVE  V1Inv'
<1> PICK to : to = IF slot'[s].status = "Released" THEN slot[s].agent ELSE slot[s].issuer
  OBVIOUS
<1>1. /\ slot[s].status = "Funded" /\ slot[s] \in SlotRow /\ slot'[s] \in SlotRow
      /\ slot'[s].status \in {"Released", "Refunded"} /\ slot'[s].amount = slot[s].amount
      /\ Emit(s, slot'[s].status, to)
      /\ \A t \in Slots : t # s => slot'[t] = slot[t]
      /\ slot[s].agent \in Addresses /\ slot'[s].agent = slot[s].agent
      /\ purse'[Vault] = purse[Vault] - slot[s].amount + InRow(slot'[s]) /\ gifts' = gifts
  BY PayOutTable DEF V1Inv
<1>2. to \in Addresses /\ (to = Vault <=> StillHeld(slot'[s]))
  BY <1>1, EscrowV1Assumption DEF SlotRow, Addresses, StillHeld
<1>3. PICK e \in Event :
        /\ e.event = slot'[s].status /\ e.to = to /\ e.escrow = slot'[s]
        /\ log' \in [Slots -> Seq(Event)] /\ log'[s] = Append(log[s], e)
        /\ \A t \in Slots : t # s => log'[t] = log[t]
  <2>1. PICK row \in SlotRow : row = slot'[s]
    BY <1>1
  <2>2. PICK event \in {"Released", "Refunded"} : event = slot'[s].status
    BY <1>1
  <2>3. Emit(s, event, to) /\ log \in [Slots -> Seq(Event)]
    BY <1>1, <2>2 DEF V1Inv
  <2> QED BY <1>2, <2>1, <2>2, <2>3, EmitTable
<1> PICK told \in Seq(Event) : told = log[s]
  BY DEF V1Inv
<1>4. Alternates(told) /\ Tells(told, slot[s])
  BY DEF V1Inv
<1>5. /\ told[Len(told)].escrow = slot[s] /\ told[Len(told)].event # "Released"
      /\ Len(told) % 2 = 1
  BY <1>1, <1>4, FundedTells
<1>6. Alternates(Append(told, e))
  <2>1. ~(Len(told) % 2 = 0) /\ e.event # "Deposited"
    <3>1. e.event # "Deposited"
      BY <1>1, <1>3
    <3>2. \A n : n = 1 => ~(n = 0)
      OBVIOUS
    <3> QED BY <1>5, <3>1, <3>2
  <2> QED BY <1>1, <1>3, <1>4, <1>5, <2>1, AppendAlternates
<1>7. purse'[Vault] = purse[Vault] - InRow(slot[s]) + InRow(slot'[s])
  <2>1. InRow(slot[s]) = slot[s].amount
    BY <1>1 DEF InRow, StillHeld
  <2> QED BY <1>1, <2>1
<1>8. e.event = IF slot'[s].status = "Funded" THEN "Deposited" ELSE slot'[s].status
  BY <1>1, <1>3
<1> QED BY <1>1, <1>2, <1>3, <1>6, <1>7, <1>8, MoveKeeps DEF Moves

\* No deposit, no event, no money.
LEMMA V1Start == V1Init => V1Inv
<1> SUFFICES ASSUME V1Init PROVE V1Inv
  OBVIOUS
<1>1. V1TypeOK
  <2>1. (CHOOSE s \in Slots : TRUE) \in Slots
    BY EscrowV1Assumption
  <2>2. tool \in [Tools -> ToolRow]
    BY <2>1 DEF V1Init, ToolRow
  <2>3. purse \in [Addresses -> Nat] /\ operator \in Addresses /\ gifts \in Nat
    BY EscrowV1Assumption DEF V1Init, Addresses
  <2> QED BY <2>2, <2>3 DEF V1Init, V1TypeOK
<1>2. log \in [Slots -> Seq(Event)]
  BY DEF V1Init
<1>3. \A s \in Slots : Alternates(log[s]) /\ Tells(log[s], slot[s])
  BY DEF V1Init, Alternates, Tells
<1>4. purse[Vault] = gifts + SumFunctionOnSet(HeldTable, Slots)
  <2>1. PICK w : w = HeldTable
    OBVIOUS
  <2>2. ASSUME NEW s \in Slots PROVE w[s] = 0
    <3>1. log[s] = <<>>
      BY DEF V1Init
    <3> QED BY <2>1, <3>1 DEF HeldTable, HeldFor
  <2>3. SumFunctionOnSet(w, Slots) = 0
    BY <2>2, EscrowV1Assumption, SumOfZeroes
  <2>4. purse[Vault] = 0 /\ gifts = 0
    BY DEF V1Init, Addresses
  <2> QED BY <2>1, <2>3, <2>4
<1> QED BY <1>1, <1>2, <1>3, <1>4 DEF V1Inv

\* A step that leaves slots, purses and events alone keeps the books.
LEMMA QuietKeeps ==
  ASSUME V1Inv, UNCHANGED <<slot, purse, log, gifts>>, V1TypeOK' PROVE V1Inv'
<1>1. HeldTable' = HeldTable
  BY DEF HeldTable, HeldFor
<1> QED BY <1>1 DEF V1Inv

\* A gift adds to what the contract holds and to what it was given.
LEMMA GiftKeeps ==
  ASSUME V1Inv, NEW a \in Purses, NEW u \in Units, Gives(a, u)
  PROVE  V1Inv'
<1>1. a # Vault /\ u \in Nat
  BY EscrowV1Assumption
<1>2. purse' \in [Addresses -> Nat] /\ purse'[Vault] = purse[Vault] + u
  BY ArrivesTable DEF Gives, V1Inv, V1TypeOK
<1>3. /\ UNCHANGED <<slot, operator, log, tool>> /\ gifts' = gifts + u /\ gifts \in Nat
      /\ purse[Vault] \in Nat
  BY DEF Gives, V1Inv, V1TypeOK, Addresses
<1>4. V1TypeOK'
  BY <1>1, <1>2, <1>3 DEF V1Inv, V1TypeOK
<1> PICK held : held = SumFunctionOnSet(HeldTable, Slots)
  OBVIOUS
<1>5. HeldTable' = HeldTable
  BY <1>3 DEF HeldTable, HeldFor
<1>6. purse[Vault] = gifts + held /\ held = purse[Vault] - gifts
  <2>1. SumFunctionOnSet(HeldTable, Slots) \in Nat
    BY HeldIsNat
  <2> QED BY <1>3, <2>1 DEF V1Inv
<1>7. (purse[Vault] = gifts + SumFunctionOnSet(HeldTable, Slots))'
  <2>1. (SumFunctionOnSet(HeldTable, Slots))' = held
    BY <1>5
  <2>2. purse'[Vault] = gifts' + held
    BY <1>1, <1>2, <1>3, <1>6
  <2> QED BY <2>1, <2>2
<1> QED BY <1>3, <1>4, <1>7 DEF V1Inv

\* Every call and every process preserves the invariant.
LEMMA V1Step == V1Inv /\ [V1Next]_v1Vars => V1Inv'
<1> SUFFICES ASSUME V1Inv, [V1Next]_v1Vars PROVE V1Inv'
  OBVIOUS
<1>1. CASE UNCHANGED v1Vars
  <2>1. V1TypeOK'
    BY <1>1 DEF V1Inv, V1TypeOK, v1Vars
  <2> QED BY <1>1, <2>1, QuietKeeps DEF v1Vars
<1>2. ASSUME NEW a \in Purses, NEW b \in Addresses, NEW s \in Slots, NEW u \in Units,
             depositV1(a, s, b, u)
      PROVE  V1Inv'
  BY <1>2, DepositKeeps
<1>3. ASSUME NEW a \in Purses, NEW s \in Slots, releaseV1(a, s) \/ refundV1(a, s), UNCHANGED tool
      PROVE  V1Inv'
  <2>1. V1TypeOK'
    BY <1>3, PayOutTable DEF V1Inv, V1TypeOK
  <2> QED BY <1>3, <2>1, PayOutKeeps
<1>4. ASSUME NEW a \in Purses, NEW b \in Addresses, transferOperatorV1(a, b) PROVE V1Inv'
  <2>1. V1TypeOK'
    BY <1>4 DEF transferOperatorV1, V1Inv, V1TypeOK
  <2> QED BY <1>4, <2>1, QuietKeeps DEF transferOperatorV1
<1>5. ASSUME NEW t \in Tools, NEW j \in JobIds, NEW pc \in {"release", "refund"},
             ToolReads(t, j, pc)
      PROVE  V1Inv'
  <2>1. SlotOf[j] \in Slots
    BY EscrowV1Assumption
  <2>2. V1TypeOK'
    BY <1>5, <2>1 DEF ToolReads, V1Inv, V1TypeOK, ToolRow
  <2> QED BY <1>5, <2>2, QuietKeeps DEF ToolReads
<1>6. ASSUME NEW t \in Tools, ToolSends(t) PROVE V1Inv'
  <2> PICK s \in Slots : s = tool[t].slot
    BY DEF V1Inv, V1TypeOK, ToolRow
  <2>1. tool' \in [Tools -> ToolRow]
    BY <1>6 DEF ToolSends, V1Inv, V1TypeOK, ToolRow
  <2>2. CASE releaseV1(ToolKey, s) \/ refundV1(ToolKey, s)
    <3>1. ToolKey \in Purses
      BY EscrowV1Assumption
    <3>2. V1TypeOK'
      BY <2>1, <2>2, <3>1, PayOutTable DEF V1Inv, V1TypeOK
    <3> QED BY <2>2, <3>1, <3>2, PayOutKeeps
  <2>3. CASE UNCHANGED <<slot, purse, operator, log, gifts>>
    <3>1. V1TypeOK'
      BY <2>1, <2>3 DEF V1Inv, V1TypeOK
    <3> QED BY <2>3, <3>1, QuietKeeps
  <2> QED BY <1>6, <2>2, <2>3 DEF ToolSends
<1>7. ASSUME NEW a \in Purses, NEW u \in Units, Gives(a, u) PROVE V1Inv'
  BY <1>7, GiftKeeps
<1> QED BY <1>1, <1>2, <1>3, <1>4, <1>5, <1>6, <1>7 DEF V1Next

\* However many operators and processes there are and whatever addresses they
\* name, the events of a slot are its history, and beside what it was given the
\* contract holds what they say it has not paid out or has paid to itself.
THEOREM EventsAccount == V1Spec => []EventsAccountForDeposits
<1>1. V1Inv => EventsAccountForDeposits
  BY DEF V1Inv, EventsAccountForDeposits, Alternates, HeldTable
<1> QED BY <1>1, V1Start, V1Step, PTL DEF V1Spec

-----------------------------------------------------------------------------
(* Side by side.                                                           *)

\* What each of the seven services keeps.
ServicesInv ==
  /\ SettlementInv /\ AdjudicationInv /\ IdentityInv
  /\ FilesInv /\ DashInv /\ PageInv /\ V1Inv

\* The services share no row, so what each keeps is kept beside the others.
LEMMA SideBySide == ServicesInv /\ [Next]_vars => ServicesInv'
<1> SUFFICES ASSUME ServicesInv, [Next]_vars PROVE ServicesInv'
  OBVIOUS
<1>1. /\ [SettlementNext]_settlementVars /\ [AdjudicationNext]_adjudicationVars
      /\ [IdentityNext]_identityVars /\ [FilesNext]_filesVars /\ [DashNext]_dashVars
      /\ [PageNext]_pageVars /\ [V1Next]_v1Vars
  BY DEF Next, vars
<1> QED
  BY <1>1, StepKeeps, StepKeepsInvariant, IdentityStep, FilesStep, DashStep, PageStep, V1Step
     DEF ServicesInv

\* Every table, file, page, request and runner keeps the domain of its values.
THEOREM TypeCorrect == Spec => []TypeOK
<1>1. Init => ServicesInv
  BY InitHolds, StartsInInvariant, IdentityStarts, FilesStart, DashStarts, PageStarts, V1Start
     DEF Init, ServicesInv
<1>2. ServicesInv => TypeOK
  BY DEF ServicesInv, TypeOK, SettlementInv, AdjudicationInv, IdentityInv, FilesInv,
         DashInv, PageInv, V1Inv
<1> QED BY <1>1, <1>2, SideBySide, PTL DEF Spec

=============================================================================
