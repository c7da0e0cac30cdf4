------------------------------ MODULE CorpusBackup ------------------------------
(* The weekly backup of the corpus (scripts/backup-corpus.mjs, run by
   .github/workflows/backup-corpus.yml): an archive and a manifest taken in one
   exported snapshot while collection and migrations go on, a proof that the
   archive restores into a scratch database built from the repository's own
   migrations, the encryption, and the upload.  Any step may fail or the job may be
   killed; only a run whose every earlier step passed uploads.  Rows are the moment
   they are of, and the shape of a row's text is the level of the migrations. *)
EXTENDS Naturals

CONSTANTS MaxWrites,         \* bound on collection's writes
          MaxLevel,          \* bound on migrations applied meanwhile
          MaxBackups,        \* bound on runs
          MaxBackupFaults    \* bound on failures

VARIABLES corpus,    \* the production database: its rows and its migrations' level
          job,       \* the step the run is at, and the snapshot it holds
          locked,    \* the tables the dump or the session has read: no migration alters them
          folder,    \* the archive, the manifest and the encrypted copy in backup/
          scratch,   \* the scratch database of the restore proof
          kept,      \* the artifacts uploaded
          backupSpent   \* the bounds used up, and the drops that failed

backupVars == <<corpus, job, locked, folder, scratch, kept, backupSpent>>

Absent == [level |-> 0, rows |-> 0]
Idle == [at |-> "idle", snapshot |-> Absent]
EmptyFolder == [archive |-> Absent, manifest |-> Absent, hashed |-> Absent, sealed |-> Absent]

BackupInit ==
  /\ corpus = [level |-> 1, rows |-> 1]
  /\ job = Idle
  /\ locked = FALSE
  /\ folder = EmptyFolder
  /\ scratch = Absent
  /\ kept = {}
  /\ backupSpent = [runs |-> 0, faults |-> 0, drops |-> 0]

Collect ==
  /\ corpus.rows < MaxWrites
  /\ corpus' = [corpus EXCEPT !.rows = @ + 1]
  /\ UNCHANGED <<job, locked, folder, scratch, kept, backupSpent>>

\* A migration that alters a table waits for every session that has read it.
ApplyMigration ==
  /\ corpus.level < MaxLevel
  /\ ~locked
  /\ corpus' = [corpus EXCEPT !.level = @ + 1]
  /\ UNCHANGED <<job, locked, folder, scratch, kept, backupSpent>>

Step(from, to) == job.at = from /\ job' = [job EXCEPT !.at = to]

StartBackup ==
  /\ job = Idle
  /\ backupSpent.runs < MaxBackups
  /\ backupSpent' = [backupSpent EXCEPT !.runs = @ + 1]
  /\ job' = [Idle EXCEPT !.at = "snapshot"]
  /\ folder' = EmptyFolder
  /\ UNCHANGED <<corpus, locked, scratch, kept>>

ExportSnapshot ==
  /\ job.at = "snapshot"
  /\ job' = [at |-> "dump", snapshot |-> corpus]
  /\ UNCHANGED <<corpus, locked, folder, scratch, kept, backupSpent>>

\* pg_dump reads the snapshot's rows in the tables' current shape, locking them while it runs.
DumpStarts ==
  /\ Step("dump", "dumping")
  /\ locked' = TRUE
  /\ folder' = [folder EXCEPT !.archive = [level |-> corpus.level, rows |-> job.snapshot.rows]]
  /\ UNCHANGED <<corpus, scratch, kept, backupSpent>>

DumpEnds ==
  /\ Step("dumping", "hash")
  /\ locked' = FALSE
  /\ UNCHANGED <<corpus, folder, scratch, kept, backupSpent>>

\* The session's own hashes, of the snapshot's rows in the shape they have now.
HashTables ==
  /\ Step("hash", "level")
  /\ locked' = TRUE
  /\ folder' = [folder EXCEPT !.hashed = [level |-> corpus.level, rows |-> job.snapshot.rows]]
  /\ UNCHANGED <<corpus, scratch, kept, backupSpent>>

\* The migrations' table is data, so the level is the snapshot's.
WriteManifest ==
  /\ Step("level", "create scratch")
  /\ locked' = FALSE
  /\ folder' = [folder EXCEPT !.manifest = [level |-> job.snapshot.level, rows |-> folder.hashed.rows]]
  /\ UNCHANGED <<corpus, scratch, kept, backupSpent>>

CreateScratch ==
  /\ Step("create scratch", "restore")
  /\ scratch' = [level |-> folder.manifest.level, rows |-> 0]
  /\ UNCHANGED <<corpus, locked, folder, kept, backupSpent>>

(* One transaction that stops at the first error: an archive of another shape does not load. *)
PgRestore ==
  /\ job.at = "restore"
  /\ IF folder.archive.level = scratch.level
       THEN Step("restore", "verify") /\ scratch' = [scratch EXCEPT !.rows = folder.archive.rows]
       ELSE Step("restore", "drop after failure") /\ UNCHANGED scratch
  /\ UNCHANGED <<corpus, locked, folder, kept, backupSpent>>

MutantVerifyAgainst ==
  /\ Step("verify", "drop")
  /\ UNCHANGED <<corpus, locked, folder, scratch, kept, backupSpent>>

VerifyAgainst ==
  /\ job.at = "verify"
  /\ Step("verify", IF scratch = folder.hashed THEN "drop" ELSE "drop after failure")
  /\ UNCHANGED <<corpus, locked, folder, scratch, kept, backupSpent>>

\* Whatever failed before; a drop that fails is only printed.
DropScratch ==
  /\ job.at \in {"drop", "drop after failure"}
  /\ job' = IF job.at = "drop" THEN [job EXCEPT !.at = "encrypt"] ELSE Idle
  /\ \/ scratch' = Absent /\ UNCHANGED backupSpent
     \/ /\ backupSpent.faults < MaxBackupFaults
        /\ backupSpent' = [backupSpent EXCEPT !.faults = @ + 1, !.drops = @ + 1]
        /\ UNCHANGED scratch
  /\ UNCHANGED <<corpus, locked, folder, kept>>

\* gpg writes the encrypted copy; the plaintext is removed before the step may pass.
Encrypt ==
  /\ Step("encrypt", "upload")
  /\ folder' = [folder EXCEPT !.sealed = folder.archive, !.archive = Absent]
  /\ UNCHANGED <<corpus, locked, scratch, kept, backupSpent>>

Upload ==
  /\ job.at = "upload"
  /\ job' = Idle
  /\ kept' = kept \cup {[manifest |-> folder.manifest, sealed |-> folder.sealed, hashed |-> folder.hashed]}
  /\ UNCHANGED <<corpus, locked, folder, scratch, backupSpent>>

\* A failing step ends the run; inside the restore proof the scratch is dropped first.
StepFails ==
  /\ job.at \notin {"idle", "drop", "drop after failure"}
  /\ backupSpent.faults < MaxBackupFaults
  /\ backupSpent' = [backupSpent EXCEPT !.faults = @ + 1]
  /\ job' = IF job.at \in {"restore", "verify"} THEN [job EXCEPT !.at = "drop after failure"] ELSE Idle
  /\ locked' = FALSE
  /\ UNCHANGED <<corpus, folder, scratch, kept>>

\* The runner goes, and with it the folder and the service container that holds the scratch database.
JobKilled ==
  /\ job # Idle
  /\ backupSpent.faults < MaxBackupFaults
  /\ backupSpent' = [backupSpent EXCEPT !.faults = @ + 1]
  /\ job' = Idle
  /\ locked' = FALSE
  /\ folder' = EmptyFolder
  /\ scratch' = Absent
  /\ UNCHANGED <<corpus, kept>>

BackupNext == \/ Collect \/ ApplyMigration \/ StartBackup \/ ExportSnapshot \/ DumpStarts
              \/ DumpEnds \/ HashTables \/ WriteManifest \/ CreateScratch \/ PgRestore
              \/ VerifyAgainst \/ DropScratch \/ Encrypt \/ Upload \/ StepFails \/ JobKilled

BackupSpec == BackupInit /\ [][BackupNext]_backupVars

--------------------------------------------------------------------------------
(* A backup that was kept restores: its archive and its manifest are the rows of
   one moment, and at the level the manifest names, whatever collection wrote and
   whichever migration was applied while it was taken. *)
KeptRestores ==
  \A b \in kept : b.sealed = b.manifest /\ b.hashed = b.manifest

(* The restore proof leaves no scratch database behind, whatever failed, unless the
   drop itself did (backup-corpus.mjs:392). *)
NoScratchLeft == job = Idle /\ backupSpent.drops = 0 => scratch = Absent

(* A night's backup leaves a file that restores, or nothing, and never a database. *)
BackupIsSafe == KeptRestores /\ NoScratchLeft
================================================================================
