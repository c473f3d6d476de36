--------------------------- MODULE DatabaseFiles ---------------------------
(***************************************************************************)
(* The SQLite database as files: online backup with a manifest, offline    *)
(* restore with a rollback copy, and the migrations every process runs when*)
(* it opens the database.  A process may die between any two file          *)
(* operations, and any of them may fail.  The API is stopped during a      *)
(* restore, as the command asks (--confirm-api-stopped).                   *)
(***************************************************************************)
EXTENDS Integers, FiniteSets

CONSTANTS
  Restores,     \* runs of db:restore, one at a time; each has names of its own
  Backups,      \* runs of db:backup to one path, one at a time
  Openers,      \* processes that open the database
  LastVersion,  \* migrations 1..LastVersion
  OldestVersion \* validateProofletDatabase refuses a schema below it

ASSUME FilesAssumption == LastVersion \in Nat /\ OldestVersion \in Nat

VARIABLES
  main, wal,     \* the database and its write-ahead log: whose content
  saved,         \* the rollback copies of each restore, and its staged file
  artifact,      \* the backup and its manifest: the run that wrote each
  restore,       \* where each restore is
  making,        \* where each backup is
  schema,        \* how often each migration of the database was carried out
  versions,      \* rows of its schema_migrations
  packed,        \* the same two of the copy that the last backup run made
  aside,          \* and of the database that each restore moved aside
  opener         \* where each opening process is

filesVars == <<main, wal, saved, artifact, restore, making, schema, versions, packed, aside, opener>>

Content == {"none", "old", "new", "backup"}
Restore == [pc : {"idle", "copy", "moveMain", "moveWal", "install", "validate", "dropMain", "dropWal",
                  "sync", "undoInstall", "undoMain", "undoWal", "restored", "threw", "dead"},
            moved : BOOLEAN, installed : BOOLEAN, valid : BOOLEAN,
            found : Content \X Content]
Tables  == [schema : [1..LastVersion -> 0..1], versions : SUBSET (1..LastVersion)]
Opener  == [pc : {"closed", "migrate", "open", "failed"}, seen : SUBSET (1..LastVersion)]

\* The migrations of the database as it is.
Current == [schema |-> schema, versions |-> versions]

FilesInit ==
  /\ main = "old" /\ wal \in {"none", "old"}
  /\ saved = [r \in Restores |-> [staged |-> "none", main |-> "none", wal |-> "none"]]
  /\ artifact = [db |-> "none", manifest |-> "none"]
  /\ restore = [r \in Restores |-> [pc |-> "idle", moved |-> FALSE, installed |-> FALSE,
                                    valid |-> FALSE, found |-> <<"none", "none">>]]
  /\ making = [b \in Backups |-> "idle"]
  /\ versions \in {1..v : v \in 0..LastVersion}
  /\ schema = [v \in 1..LastVersion |-> IF v \in versions THEN 1 ELSE 0]
  /\ packed = Current /\ aside = [r \in Restores |-> Current]
  /\ opener = [o \in Openers |-> [pc |-> "closed", seen |-> {}]]

-----------------------------------------------------------------------------
(* Slips: single definitions below, changed the way a bug would.           *)

DropsBeforeValidating(pc) == CASE pc = "copy" -> "moveMain" [] pc = "moveMain" -> "moveWal"
                               [] pc = "moveWal" -> "install" [] pc = "install" -> "dropMain"
                               [] pc = "dropMain" -> "dropWal" [] pc = "dropWal" -> "validate"
                               [] OTHER -> "restored"

-----------------------------------------------------------------------------
(* Backup.                                                                 *)

schemaVars == <<schema, versions, packed, aside, opener>>

\* The online copy, with the migrations the database has by then, and its
\* validation: a copy that fails it is removed.
StartBackup(b) ==
  /\ making[b] = "idle" /\ \A c \in Backups : making[c] \in {"idle", "ended"}
  /\ artifact.db = "none" /\ artifact.manifest = "none" /\ main # "none"
  /\ \E v \in versions : v >= OldestVersion
  /\ making' = [making EXCEPT ![b] = "staged"] /\ packed' = Current
  /\ UNCHANGED <<main, wal, saved, artifact, restore, schema, versions, aside, opener>>

\* Two renames; if the second fails the first is taken back.
PublishBackup(b) ==
  /\ making[b] = "staged"
  /\ artifact' = [artifact EXCEPT !.db = b] /\ making' = [making EXCEPT ![b] = "renamed"]
  /\ UNCHANGED <<main, wal, saved, restore, schemaVars>>

PublishManifest(b) ==
  /\ making[b] = "renamed"
  /\ artifact' \in {[artifact EXCEPT !.manifest = b], [artifact EXCEPT !.db = "none"]}
  /\ making' = [making EXCEPT ![b] = "ended"]
  /\ UNCHANGED <<main, wal, saved, restore, schemaVars>>

BackupStops(b) ==
  /\ making[b] \in {"staged", "renamed"} /\ making' = [making EXCEPT ![b] = "ended"]
  /\ UNCHANGED <<main, wal, saved, artifact, restore, schemaVars>>

-----------------------------------------------------------------------------
(* Restore.                                                                *)

Running(r) == restore[r].pc \notin {"idle", "restored", "threw", "dead"}
RestoreIdle == \A r \in Restores : ~Running(r)

\* validateBackupArtifact: a manifest, and one that matches the artifact
Restorable == artifact.manifest # "none" /\ artifact.manifest = artifact.db

StartRestore(r) ==
  /\ restore[r].pc = "idle" /\ RestoreIdle /\ Restorable
  /\ main = "none" => wal = "none"
  /\ \A o \in Openers : opener[o].pc \in {"closed", "failed"}
  /\ restore' = [restore EXCEPT ![r].pc = "copy", ![r].found = <<main, wal>>]
  /\ UNCHANGED <<main, wal, saved, artifact, making, schemaVars>>

NextStage(pc) == CASE pc = "copy" -> "moveMain" [] pc = "moveMain" -> "moveWal"
                   [] pc = "moveWal" -> "install" [] pc = "install" -> "validate"
                   [] pc = "validate" -> "dropMain" [] pc = "dropMain" -> "dropWal"
                   [] pc = "dropWal" -> "sync" [] OTHER -> "restored"

\* The file operation of each stage of the try block.
FileOperation(r, pc) ==
  /\ main' = CASE pc = "moveMain" -> "none" [] pc = "install" -> "backup" [] OTHER -> main
  /\ wal'  = IF pc = "moveWal" THEN "none" ELSE wal
  /\ saved' = [saved EXCEPT ![r] =
       CASE pc = "copy"     -> [@ EXCEPT !.staged = "backup"]
         [] pc = "moveMain" -> [@ EXCEPT !.main = main]
         [] pc = "moveWal"  -> [@ EXCEPT !.wal = wal]
         [] pc = "install"  -> [@ EXCEPT !.staged = "none"]
         [] pc = "dropMain" -> [@ EXCEPT !.main = "none"]
         [] pc = "dropWal"  -> [@ EXCEPT !.wal = "none"]
         [] OTHER           -> @]
  /\ aside' = IF pc = "moveMain" THEN [aside EXCEPT ![r] = Current] ELSE aside
  /\ IF pc = "install" THEN schema' = packed.schema /\ versions' = packed.versions
     ELSE UNCHANGED <<schema, versions>>

RestoreStep(r) ==
  LET pc == restore[r].pc
  IN  /\ Running(r) /\ pc \notin {"undoInstall", "undoMain", "undoWal"}
      /\ FileOperation(r, pc)
      /\ restore' = [restore EXCEPT ![r].pc = NextStage(pc),
                       ![r].moved = @ \/ (pc = "moveMain" /\ main # "none"),
                       ![r].installed = @ \/ pc = "install",
                       ![r].valid = @ \/ pc = "validate"]
      /\ UNCHANGED <<artifact, making, packed, opener>>

\* An operation throws before it changed anything: the catch block runs.
RestoreThrows(r) ==
  /\ Running(r) /\ restore[r].pc \notin {"undoInstall", "undoMain", "undoWal"}
  /\ restore' = [restore EXCEPT ![r].pc = "undoInstall"]
  /\ UNCHANGED <<main, wal, saved, artifact, making, schemaVars>>

UndoInstall(r) ==
  /\ restore[r].pc = "undoInstall"
  /\ main' = IF restore[r].installed THEN "none" ELSE main
  /\ saved' = [saved EXCEPT ![r].staged = "none"]
  /\ restore' = [restore EXCEPT ![r].pc = IF restore[r].moved THEN "undoMain" ELSE "threw"]
  /\ UNCHANGED <<wal, artifact, making, schemaVars>>

\* Back from the rollback copy, if there still is one.
UndoMain(r) ==
  /\ restore[r].pc = "undoMain"
  /\ IF saved[r].main = "none" THEN UNCHANGED <<main, schema, versions>>
     ELSE main' = saved[r].main /\ schema' = aside[r].schema /\ versions' = aside[r].versions
  /\ saved' = [saved EXCEPT ![r].main = "none"]
  /\ restore' = [restore EXCEPT ![r].pc = "undoWal"]
  /\ UNCHANGED <<wal, artifact, making, packed, aside, opener>>

UndoWal(r) ==
  /\ restore[r].pc = "undoWal"
  /\ wal' = IF saved[r].wal = "none" THEN wal ELSE saved[r].wal
  /\ saved' = [saved EXCEPT ![r].wal = "none"]
  /\ restore' = [restore EXCEPT ![r].pc = "threw"]
  /\ UNCHANGED <<main, artifact, making, schemaVars>>

RestoreDies(r) ==
  /\ Running(r) /\ restore' = [restore EXCEPT ![r].pc = "dead"]
  /\ UNCHANGED <<main, wal, saved, artifact, making, schemaVars>>

-----------------------------------------------------------------------------
(* Opening the database.                                                   *)

\* openDatabase creates what is missing; runMigrations reads what is applied.
Open(o) ==
  /\ opener[o].pc = "closed" /\ RestoreIdle
  /\ main' = IF main = "none" THEN "new" ELSE main
  /\ wal' = IF main = "none" THEN "none" ELSE wal
  /\ LET known == IF main = "none" THEN {} ELSE versions
     IN  /\ versions' = known
         /\ schema' = [v \in 1..LastVersion |-> IF v \in known THEN schema[v] ELSE 0]
         /\ opener' = [opener EXCEPT ![o] = [pc |-> "migrate", seen |-> known]]
  /\ UNCHANGED <<saved, artifact, restore, making, packed, aside>>

Missing(o) == (1..LastVersion) \ opener[o].seen

\* One migration, its row and the COMMIT; a row that another process inserted
\* meanwhile rolls it back and stops the process.
Migrate(o) ==
  /\ opener[o].pc = "migrate" /\ Missing(o) # {}
  /\ LET v == CHOOSE v \in Missing(o) : \A u \in Missing(o) : v <= u
     IN  IF v \in versions
         THEN opener' = [opener EXCEPT ![o].pc = "failed"] /\ UNCHANGED <<schema, versions>>
         ELSE /\ schema' = [schema EXCEPT ![v] = @ + 1] /\ versions' = versions \cup {v}
              /\ opener' = [opener EXCEPT ![o].seen = @ \cup {v}]
  /\ UNCHANGED <<main, wal, saved, artifact, restore, making, packed, aside>>

Opened(o) ==
  /\ opener[o].pc = "migrate" /\ Missing(o) = {}
  /\ opener' = [opener EXCEPT ![o].pc = "open"]
  /\ UNCHANGED <<main, wal, saved, artifact, restore, making, schema, versions, packed, aside>>

Close(o) ==
  /\ opener[o].pc # "closed"
  /\ opener' = [opener EXCEPT ![o] = [pc |-> "closed", seen |-> {}]]
  /\ UNCHANGED <<main, wal, saved, artifact, restore, making, schema, versions, packed, aside>>

FilesNext ==
  \/ \E b \in Backups : StartBackup(b) \/ PublishBackup(b) \/ PublishManifest(b) \/ BackupStops(b)
  \/ \E r \in Restores : \/ StartRestore(r) \/ RestoreStep(r) \/ RestoreThrows(r) \/ RestoreDies(r)
                         \/ UndoInstall(r) \/ UndoMain(r) \/ UndoWal(r)
  \/ \E o \in Openers : Open(o) \/ Migrate(o) \/ Opened(o) \/ Close(o)

-----------------------------------------------------------------------------
(* Properties.                                                             *)

FilesTypeOK ==
  /\ main \in Content /\ wal \in Content
  /\ saved \in [Restores -> [staged : Content, main : Content, wal : Content]]
  /\ artifact \in [db : Backups \cup {"none"}, manifest : Backups \cup {"none"}]
  /\ restore \in [Restores -> Restore]
  /\ making \in [Backups -> {"idle", "staged", "renamed", "ended"}]
  /\ schema \in [1..LastVersion -> 0..1] /\ versions \subseteq 1..LastVersion
  /\ packed \in Tables /\ aside \in [Restores -> Tables]
  /\ opener \in [Openers -> Opener]

\* The old data is on disk until a backup has been installed and found valid, in
\* spite of crashes and failing file operations; a restore that throws before that
\* leaves database and log as it found them.  Each migration is carried out once
\* on the database in use, whether it was opened, restored or put back.
DataSurvives ==
  /\ \/ main = "old" \/ \E r \in Restores : saved[r].main = "old" \/ restore[r].valid
  /\ \A r \in Restores : restore[r].pc = "undoWal" /\ ~restore[r].valid =>
       /\ main = restore[r].found[1]
       /\ (IF saved[r].wal = "none" THEN wal ELSE saved[r].wal) = restore[r].found[2]
  /\ \A v \in 1..LastVersion : schema[v] = 1 <=> v \in versions

=============================================================================
