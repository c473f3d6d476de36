----------------------------- MODULE IssuerPage -----------------------------
(***************************************************************************)
(* An issuer's browser page and the bulk uploads behind it.  The page sends*)
(* each request as the client it has when the button is pressed and applies*)
(* the answer to whatever it shows by then; the API validates a file into  *)
(* rows with job ids, and creates all of their jobs when it is confirmed.  *)
(* Only SQLite: the transactions of uploads.mjs do not run on Postgres.    *)
(***************************************************************************)
EXTENDS Integers, FiniteSets

CONSTANTS
  Issuers, NoIssuer,
  Uploads, Rows     \* uploads, and their valid rows, in order

ASSUME PageAssumption == NoIssuer \notin Issuers /\ Rows \in Nat \ {0}

VARIABLES
  upload,     \* issuer_uploads
  jobRow,     \* jobs: whose the job is that has the id of a row, and what created it
  client,     \* the issuer the page is connected as
  view,       \* whose jobs, proofs and settlements the tables show
  preview,    \* the upload on display, and whether as confirmed
  refreshes,  \* refresh() under way: for whom, and whether connect() waits for it
  confirms    \* confirmations on their way

pageVars == <<upload, jobRow, client, view, preview, refreshes, confirms>>

Modes    == {"strict", "validOnly"}
NoUpload == [issuer |-> NoIssuer, status |-> "none", invalid |-> FALSE, expired |-> FALSE]
Upload   == [issuer : Issuers \cup {NoIssuer}, status : {"none", "validated", "confirmed"},
             invalid : BOOLEAN, expired : BOOLEAN]
NoJob    == [issuer |-> NoIssuer, from |-> "none"]
Job      == [issuer : Issuers \cup {NoIssuer}, from : {"none", "upload", "post"}]
RowIds   == Uploads \X (1..Rows)

PageInit ==
  /\ upload = [u \in Uploads |-> NoUpload]
  /\ jobRow = [r \in RowIds |-> NoJob]
  /\ client = NoIssuer /\ view = NoIssuer
  /\ preview = <<>>
  /\ refreshes = {} /\ confirms = {}

-----------------------------------------------------------------------------

Taken(u) == {n \in 1..Rows : jobRow[<<u, n>>] # NoJob}

RowsPosted(u, i, inserted) ==
  [r \in RowIds |-> IF r[1] = u /\ r[2] \in inserted THEN [issuer |-> i, from |-> "upload"]
                    ELSE jobRow[r]]

(* Slips: single definitions below, changed the way a bug would.           *)

NoRollback(u, i) == RowsPosted(u, i, {n \in 1..Rows : \A m \in Taken(u) : n < m})

-----------------------------------------------------------------------------
(* The API.                                                                *)

\* validateUpload: the rows get their ids now.
ValidateFile(u, invalid) ==
  /\ client # NoIssuer /\ upload[u] = NoUpload
  /\ upload' = [upload EXCEPT ![u] = [issuer |-> client, status |-> "validated",
                                      invalid |-> invalid, expired |-> FALSE]]
  /\ preview' \in {<<u, "validated">>, preview}
  /\ UNCHANGED <<jobRow, client, view, refreshes, confirms>>

PreviewExpires(u) ==
  /\ upload[u].status = "validated" /\ ~upload[u].expired
  /\ upload' = [upload EXCEPT ![u].expired = TRUE]
  /\ UNCHANGED <<jobRow, client, view, preview, refreshes, confirms>>

\* POST /jobs with the id of a row
PostJob(i, r) ==
  /\ jobRow[r] = NoJob /\ upload[r[1]].issuer = i
  /\ jobRow' = [jobRow EXCEPT ![r] = [issuer |-> i, from |-> "post"]]
  /\ UNCHANGED <<upload, client, view, preview, refreshes, confirms>>

\* The inserts of one transaction: an id that is taken rolls all of them back.
Inserted(u, i) == IF Taken(u) = {} THEN RowsPosted(u, i, 1..Rows) ELSE jobRow

Found(u, i) == upload[u].issuer = i

Creates(u, mode) == /\ upload[u].status = "validated" /\ ~upload[u].expired
                    /\ ~(mode = "strict" /\ upload[u].invalid)

\* confirmUpload; the answer may be lost, and refresh() follows one that is not.
ConfirmUpload(c, answered) ==
  /\ c \in confirms /\ confirms' = confirms \ {c}
  /\ LET u == c[1]  i == c[2]
         created == Found(u, i) /\ Creates(u, c[3])
         accepted == \/ Found(u, i) /\ upload[u].status = "confirmed"
                     \/ created /\ Taken(u) = {}
     IN  /\ jobRow' = IF created THEN Inserted(u, i) ELSE jobRow
         /\ upload' = IF accepted THEN [upload EXCEPT ![u].status = "confirmed"] ELSE upload
         /\ IF accepted /\ answered
            THEN /\ preview' = <<u, "confirmed">>
                 /\ refreshes' = IF client = NoIssuer THEN refreshes
                                 ELSE refreshes \cup {<<client, FALSE>>}
            ELSE UNCHANGED <<preview, refreshes>>
  /\ UNCHANGED <<client, view>>

-----------------------------------------------------------------------------
(* The page.                                                               *)

ConnectIssuer(i) ==
  /\ client' = i /\ refreshes' = refreshes \cup {<<i, TRUE>>}
  /\ UNCHANGED <<upload, jobRow, view, preview, confirms>>

\* Clear session, or a change of the mode tab
ClearIssuer ==
  /\ client # NoIssuer /\ client' = NoIssuer /\ view' = NoIssuer
  /\ UNCHANGED <<upload, jobRow, preview, refreshes, confirms>>

\* The four answers arrive, or one fails: then connect() ends the session,
\* whichever session that is by now.
RefreshEnds(f, ok) ==
  /\ f \in refreshes /\ refreshes' = refreshes \ {f}
  /\ IF ok THEN view' = f[1] /\ UNCHANGED client
     ELSE IF f[2] THEN view' = NoIssuer /\ client' = NoIssuer
     ELSE UNCHANGED <<client, view>>
  /\ UNCHANGED <<upload, jobRow, preview, confirms>>

\* The buttons of the preview stay until a confirmed one replaces it.
PressConfirm(mode) ==
  /\ preview # <<>> /\ preview[2] = "validated" /\ client # NoIssuer
  /\ mode = "validOnly" => upload[preview[1]].invalid
  /\ confirms' = confirms \cup {<<preview[1], client, mode>>}
  /\ UNCHANGED <<upload, jobRow, client, view, preview, refreshes>>

PageNext ==
  \/ \E u \in Uploads : PreviewExpires(u) \/ \E invalid \in BOOLEAN : ValidateFile(u, invalid)
  \/ \E i \in Issuers : ConnectIssuer(i) \/ \E r \in RowIds : PostJob(i, r)
  \/ \E c \in confirms, answered \in BOOLEAN : ConfirmUpload(c, answered)
  \/ \E f \in refreshes, ok \in BOOLEAN : RefreshEnds(f, ok)
  \/ ClearIssuer \/ \E mode \in Modes : PressConfirm(mode)

-----------------------------------------------------------------------------
(* Properties.                                                             *)

PageTypeOK ==
  /\ upload \in [Uploads -> Upload] /\ jobRow \in [RowIds -> Job]
  /\ client \in Issuers \cup {NoIssuer} /\ view \in Issuers \cup {NoIssuer}
  /\ preview \in {<<>>} \cup (Uploads \X {"validated", "confirmed"})
  /\ refreshes \subseteq Issuers \X BOOLEAN
  /\ confirms \subseteq Uploads \X Issuers \X Modes

\* An upload makes all of its jobs or none, for the issuer who validated it, however often
\* it is confirmed, under whichever session, and whether or not ids of its preview are in
\* use by then (confirmUpload); the page says "jobs created" only of such an upload.
UploadsBecomeJobsOnce ==
  /\ \A u \in Uploads, n \in 1..Rows :
       IF upload[u].status = "confirmed"
       THEN jobRow[<<u, n>>] = [issuer |-> upload[u].issuer, from |-> "upload"]
       ELSE jobRow[<<u, n>>].from # "upload"
  /\ preview # <<>> /\ preview[2] = "confirmed" => upload[preview[1]].status = "confirmed"

=============================================================================
