-------------------------- MODULE OperationsProofs --------------------------
(***************************************************************************)
(* The scripts that look after production keep their word for any number   *)
(* of runs, faults, writes, migrations and changes by hand. They share no  *)
(* state, and each part below has an invariant of its own: BackupInv is    *)
(* what each step of a backup knows of the archive, the manifest, the      *)
(* hashes and the scratch database; AlertsInv what the run of a problem    *)
(* knows of its issues; PreflightInv and GrantsInv that a verdict is of    *)
(* what it was given for until something changes; HealthInv how much of    *)
(* the attempts the collection report has read.                            *)
(*                                                                         *)
(* One part is of another thing that is kept beside the database, the      *)
(* user's calendar at Google (CalendarSync).                               *)
(***************************************************************************)
EXTENDS OpsAlerts, CorpusBackup, CollectionHealth, DatabaseGrants, Preflight, CalendarSync,
        FiniteSetTheorems, FunctionTheorems, SequenceTheorems, TLAPS

(***************************************************************************)
(* The backup.                                                             *)
(***************************************************************************)
Copies == [level : Nat, rows : Nat]

\* The bounds of a backup.
Spent == [runs : Nat, faults : Nat, drops : Nat]

BackupSteps == {"idle", "snapshot", "dump", "dumping", "hash", "level", "create scratch", "restore",
                "verify", "drop", "drop after failure", "encrypt", "upload"}

BackupTypes ==
    /\ corpus \in Copies
    /\ job \in [at : BackupSteps, snapshot : Copies]
    /\ folder \in [archive : Copies, manifest : Copies, hashed : Copies, sealed : Copies]
    /\ scratch \in Copies
    /\ backupSpent \in Spent

\* What the restore proof has yet to establish, and what it has.
ManifestIsTheHashes ==
    /\ job.at = "level" => folder.hashed.rows = job.snapshot.rows
    /\ job.at \in {"create scratch", "restore", "verify"} => folder.manifest.rows = folder.hashed.rows

ScratchIsTheArchive ==
    /\ job.at \in {"restore", "verify"} => scratch.level = folder.manifest.level
    /\ job.at = "verify" => scratch = folder.archive

ArchiveIsProved ==
    /\ job.at \in {"drop", "encrypt"} => /\ folder.archive = folder.manifest
                                         /\ folder.hashed = folder.manifest
    /\ job.at = "upload" => /\ folder.sealed = folder.manifest
                            /\ folder.hashed = folder.manifest

ScratchIsInUse ==
    backupSpent.drops = 0 /\ scratch # Absent
        => job.at \in {"restore", "verify", "drop", "drop after failure"}

BackupInv == /\ BackupTypes /\ ManifestIsTheHashes /\ ScratchIsTheArchive /\ ArchiveIsProved
             /\ ScratchIsInUse /\ KeptRestores

\* Two copies are the same when they are of one level and of the same rows.
LEMMA SameCopy ==
    ASSUME NEW a \in Copies, NEW b \in Copies, a.level = b.level, a.rows = b.rows
    PROVE  a = b
BY DEF Copies

LEMMA NothingYet ==
    /\ Idle.at = "idle"
    /\ Idle \in [at : BackupSteps, snapshot : Copies]
    /\ [Idle EXCEPT !.at = "snapshot"] \in [at : BackupSteps, snapshot : Copies]
    /\ [Idle EXCEPT !.at = "snapshot"].at = "snapshot"
    /\ Absent \in Copies
    /\ EmptyFolder \in [archive : Copies, manifest : Copies, hashed : Copies, sealed : Copies]
BY DEF Idle, EmptyFolder, Absent, Copies, BackupSteps

LEMMA SpentGrows ==
    ASSUME NEW s \in Spent
    PROVE  /\ [s EXCEPT !.runs = @ + 1] \in Spent
           /\ [s EXCEPT !.faults = @ + 1] \in Spent
           /\ [s EXCEPT !.faults = @ + 1, !.drops = @ + 1] \in Spent
           /\ [s EXCEPT !.runs = @ + 1].drops = s.drops
           /\ [s EXCEPT !.faults = @ + 1].drops = s.drops
           /\ [s EXCEPT !.faults = @ + 1, !.drops = @ + 1].drops # 0
<1>1. /\ s.runs \in Nat /\ s.faults \in Nat /\ s.drops \in Nat
      /\ DOMAIN s = {"runs", "faults", "drops"}
  BY DEF Spent
<1>2. s.runs + 1 \in Nat /\ s.faults + 1 \in Nat /\ s.drops + 1 \in Nat /\ s.drops + 1 # 0
  BY <1>1
<1>3. /\ [s EXCEPT !.faults = @ + 1, !.drops = @ + 1] \in Spent
      /\ [s EXCEPT !.faults = @ + 1, !.drops = @ + 1].drops = s.drops + 1
  <2> DEFINE f == s.faults + 1
             d == s.drops + 1
             t == [s EXCEPT !.faults = f, !.drops = d]
  <2>1. t \in Spent
    <3>1. f \in Nat /\ d \in Nat
      BY <1>2
    <3> HIDE DEF f, d
    <3>. QED BY <3>1 DEF Spent
  <2>2. t.drops = d
    <3>. HIDE DEF d, f
    <3>. QED BY <1>1
  <2>. QED BY <2>1, <2>2
<1>4. [s EXCEPT !.runs = @ + 1] \in Spent /\ [s EXCEPT !.faults = @ + 1] \in Spent
  BY <1>1, <1>2 DEF Spent
<1>5. [s EXCEPT !.runs = @ + 1].drops = s.drops /\ [s EXCEPT !.faults = @ + 1].drops = s.drops
  BY <1>1
<1>. QED BY <1>2, <1>3, <1>4, <1>5 DEF Spent

LEMMA BackupStart == ASSUME BackupInit PROVE BackupInv
BY DEF BackupInit, BackupInv, BackupTypes, ManifestIsTheHashes, ScratchIsTheArchive, ArchiveIsProved,
   ScratchIsInUse, KeptRestores, Copies, BackupSteps, Spent, Idle, EmptyFolder, Absent

\* What goes on beside the run changes neither its files nor its scratch database.
LEMMA CorpusMoves ==
    ASSUME BackupInv, Collect \/ ApplyMigration
    PROVE  BackupInv'
<1>1. /\ UNCHANGED <<job, folder, scratch, kept, backupSpent>>
      /\ corpus' \in Copies
  BY DEF BackupInv, BackupTypes, Collect, ApplyMigration, Copies
<1>. QED BY <1>1 DEF BackupInv, BackupTypes, ManifestIsTheHashes, ScratchIsTheArchive,
                    ArchiveIsProved, ScratchIsInUse, KeptRestores

\* The steps up to the manifest, during which there is no scratch database.
LEMMA ArchiveIsMade ==
    ASSUME BackupInv,
           StartBackup \/ ExportSnapshot \/ DumpStarts \/ DumpEnds \/ HashTables \/ WriteManifest
    PROVE  BackupInv'
<1>1. CASE StartBackup
  <2>1. /\ job = Idle /\ job' = [Idle EXCEPT !.at = "snapshot"]
        /\ backupSpent' = [backupSpent EXCEPT !.runs = @ + 1]
        /\ folder' = EmptyFolder
        /\ UNCHANGED <<corpus, scratch, kept>>
    BY <1>1, NothingYet DEF StartBackup
  <2>2. BackupTypes'
    <3>1. backupSpent' \in Spent
      BY <2>1, SpentGrows DEF BackupInv, BackupTypes
    <3>2. job' \in [at : BackupSteps, snapshot : Copies]
      BY <2>1, NothingYet
    <3>. QED BY <2>1, <3>1, <3>2, NothingYet DEF BackupInv, BackupTypes
  <2>. QED BY <2>1, <2>2, NothingYet DEF BackupInv, ManifestIsTheHashes, ScratchIsTheArchive,
       ArchiveIsProved, ScratchIsInUse, KeptRestores, BackupTypes
<1>2. CASE ExportSnapshot
  BY <1>2 DEF ExportSnapshot, BackupInv, BackupTypes, ManifestIsTheHashes, ScratchIsTheArchive,
     ArchiveIsProved, ScratchIsInUse, KeptRestores, BackupSteps
<1>3. CASE DumpStarts
  BY <1>3 DEF DumpStarts, Step, BackupInv, BackupTypes, ManifestIsTheHashes, ScratchIsTheArchive,
     ArchiveIsProved, ScratchIsInUse, KeptRestores, Copies, BackupSteps
<1>4. CASE DumpEnds
  BY <1>4 DEF DumpEnds, Step, BackupInv, BackupTypes, ManifestIsTheHashes, ScratchIsTheArchive,
     ArchiveIsProved, ScratchIsInUse, KeptRestores, BackupSteps
<1>5. CASE HashTables
  BY <1>5 DEF HashTables, Step, BackupInv, BackupTypes, ManifestIsTheHashes, ScratchIsTheArchive,
     ArchiveIsProved, ScratchIsInUse, KeptRestores, Copies, BackupSteps
<1>6. CASE WriteManifest
  BY <1>6 DEF WriteManifest, Step, BackupInv, BackupTypes, ManifestIsTheHashes, ScratchIsTheArchive,
     ArchiveIsProved, ScratchIsInUse, KeptRestores, Copies, BackupSteps
<1>. QED BY <1>1, <1>2, <1>3, <1>4, <1>5, <1>6

\* The restore proof: only an archive that is the manifest leaves it for the encryption.
LEMMA ArchiveIsRestored ==
    ASSUME BackupInv, CreateScratch \/ PgRestore \/ VerifyAgainst \/ DropScratch
    PROVE  BackupInv'
<1>1. CASE CreateScratch
  BY <1>1 DEF CreateScratch, Step, BackupInv, BackupTypes, ManifestIsTheHashes, ScratchIsTheArchive,
     ArchiveIsProved, ScratchIsInUse, KeptRestores, Copies, BackupSteps
<1>2. CASE PgRestore
  <2>1. CASE folder.archive.level = scratch.level
    <3>1. /\ job.at = "restore" /\ job' = [job EXCEPT !.at = "verify"]
          /\ scratch' = [scratch EXCEPT !.rows = folder.archive.rows]
          /\ UNCHANGED <<corpus, folder, kept, backupSpent>>
      BY <1>2, <2>1 DEF PgRestore, Step
    <3>2. /\ scratch' \in Copies /\ folder.archive \in Copies
          /\ scratch'.level = scratch.level /\ scratch'.rows = folder.archive.rows
      BY <3>1 DEF BackupInv, BackupTypes, Copies
    <3>3. scratch' = folder.archive
      BY <2>1, <3>2, SameCopy
    <3>. QED BY <3>1, <3>2, <3>3 DEF BackupInv, BackupTypes, ManifestIsTheHashes, ScratchIsTheArchive,
                ArchiveIsProved, ScratchIsInUse, KeptRestores, BackupSteps
  <2>2. CASE folder.archive.level # scratch.level
    BY <1>2, <2>2 DEF PgRestore, Step, BackupInv, BackupTypes, ManifestIsTheHashes, ScratchIsTheArchive,
       ArchiveIsProved, ScratchIsInUse, KeptRestores, BackupSteps
  <2>. QED BY <2>1, <2>2
<1>3. CASE VerifyAgainst
  <2>1. CASE scratch = folder.hashed
    <3>1. /\ job.at = "verify" /\ job' = [job EXCEPT !.at = "drop"]
          /\ UNCHANGED <<corpus, folder, scratch, kept, backupSpent>>
      BY <1>3, <2>1 DEF VerifyAgainst, Step
    <3>2. /\ folder.hashed = folder.archive
          /\ folder.hashed.level = folder.manifest.level
          /\ folder.hashed.rows = folder.manifest.rows
      BY <2>1, <3>1 DEF BackupInv, ManifestIsTheHashes, ScratchIsTheArchive
    <3>3. folder.hashed = folder.manifest
      <4>1. folder.hashed \in Copies /\ folder.manifest \in Copies
        BY DEF BackupInv, BackupTypes
      <4>. QED BY <3>2, <4>1, SameCopy
    <3>. QED BY <3>1, <3>2, <3>3 DEF BackupInv, BackupTypes, ManifestIsTheHashes, ScratchIsTheArchive,
                ArchiveIsProved, ScratchIsInUse, KeptRestores, BackupSteps
  <2>2. CASE scratch # folder.hashed
    BY <1>3, <2>2 DEF VerifyAgainst, Step, BackupInv, BackupTypes, ManifestIsTheHashes,
       ScratchIsTheArchive, ArchiveIsProved, ScratchIsInUse, KeptRestores, BackupSteps
  <2>. QED BY <2>1, <2>2
<1>4. CASE DropScratch
  <2>1. /\ job.at \in {"drop", "drop after failure"}
        /\ \/ job.at = "drop" /\ job' = [job EXCEPT !.at = "encrypt"]
           \/ job.at # "drop" /\ job' = Idle
        /\ \/ scratch' = Absent /\ UNCHANGED backupSpent
           \/ /\ backupSpent' = [backupSpent EXCEPT !.faults = @ + 1, !.drops = @ + 1]
              /\ UNCHANGED scratch
        /\ UNCHANGED <<corpus, folder, kept>>
    BY <1>4, NothingYet DEF DropScratch
  <2>2. BackupTypes'
    <3>1. backupSpent' \in Spent
      BY <2>1, SpentGrows DEF BackupInv, BackupTypes
    <3>2. job' \in [at : BackupSteps, snapshot : Copies]
      BY <2>1, NothingYet DEF BackupInv, BackupTypes, BackupSteps
    <3>. QED BY <2>1, <3>1, <3>2, NothingYet DEF BackupInv, BackupTypes
  <2>3. ScratchIsInUse'
    BY <2>1, SpentGrows, NothingYet DEF BackupInv, BackupTypes, ScratchIsInUse
  <2>4. job'.at = "encrypt" \/ job'.at = "idle"
    BY <2>1, NothingYet DEF BackupInv, BackupTypes
  <2>5. ArchiveIsProved'
    <3>1. job'.at = "encrypt" => job.at = "drop"
      BY <2>1, NothingYet
    <3>. QED BY <2>1, <2>4, <3>1 DEF BackupInv, ArchiveIsProved
  <2>6. KeptRestores'
    BY <2>1 DEF BackupInv, KeptRestores
  <2>7. ManifestIsTheHashes' /\ ScratchIsTheArchive'
    BY <2>4 DEF ManifestIsTheHashes, ScratchIsTheArchive
  <2>. QED BY <2>2, <2>3, <2>5, <2>6, <2>7 DEF BackupInv
<1>. QED BY <1>1, <1>2, <1>3, <1>4

LEMMA ArchiveIsKept ==
    ASSUME BackupInv, Encrypt \/ Upload \/ StepFails \/ JobKilled
    PROVE  BackupInv'
<1>1. CASE Encrypt
  BY <1>1, NothingYet DEF Encrypt, Step, BackupInv, BackupTypes, ManifestIsTheHashes, ScratchIsTheArchive,
     ArchiveIsProved, ScratchIsInUse, KeptRestores, Copies, BackupSteps
<1>2. CASE Upload
  <2>1. /\ job.at = "upload" /\ job' = Idle
        /\ kept' = kept \cup {[manifest |-> folder.manifest, sealed |-> folder.sealed,
                               hashed |-> folder.hashed]}
        /\ UNCHANGED <<corpus, folder, scratch, backupSpent>>
    BY <1>2, NothingYet DEF Upload
  <2>2. BackupTypes'
    <3>1. backupSpent' \in Spent
      BY <2>1, SpentGrows DEF BackupInv, BackupTypes
    <3>2. job' \in [at : BackupSteps, snapshot : Copies]
      BY <2>1, NothingYet
    <3>. QED BY <2>1, <3>1, <3>2, NothingYet DEF BackupInv, BackupTypes
  <2>. QED BY <2>1, <2>2, NothingYet DEF BackupInv, ManifestIsTheHashes, ScratchIsTheArchive,
       ArchiveIsProved, ScratchIsInUse, KeptRestores
<1>3. CASE StepFails
  <2>1. /\ job.at \notin {"drop", "drop after failure"}
        /\ backupSpent' = [backupSpent EXCEPT !.faults = @ + 1]
        /\ \/ job.at \in {"restore", "verify"} /\ job' = [job EXCEPT !.at = "drop after failure"]
           \/ job.at \notin {"restore", "verify"} /\ job' = Idle
        /\ UNCHANGED <<corpus, folder, scratch, kept>>
    BY <1>3, NothingYet DEF StepFails
  <2>2. BackupTypes'
    <3>1. backupSpent' \in Spent
      BY <2>1, SpentGrows DEF BackupInv, BackupTypes
    <3>2. job' \in [at : BackupSteps, snapshot : Copies]
      BY <2>1, NothingYet DEF BackupInv, BackupTypes, BackupSteps
    <3>. QED BY <2>1, <3>1, <3>2 DEF BackupInv, BackupTypes
  <2>3. /\ job'.at \in {"idle", "drop after failure"}
        /\ job'.at = "idle" => job.at \notin {"restore", "verify", "drop", "drop after failure"}
    BY <2>1, NothingYet DEF BackupInv, BackupTypes
  <2>4. backupSpent'.drops = backupSpent.drops
    BY <2>1, SpentGrows DEF BackupInv, BackupTypes
  <2>5. ManifestIsTheHashes' /\ ScratchIsTheArchive' /\ ArchiveIsProved'
    BY <2>3 DEF ManifestIsTheHashes, ScratchIsTheArchive, ArchiveIsProved
  <2>6. ScratchIsInUse' /\ KeptRestores'
    BY <2>1, <2>3, <2>4 DEF BackupInv, ScratchIsInUse, KeptRestores
  <2>. QED BY <2>2, <2>5, <2>6 DEF BackupInv
<1>4. CASE JobKilled
  <2>1. /\ backupSpent' = [backupSpent EXCEPT !.faults = @ + 1]
        /\ job' = Idle /\ folder' = EmptyFolder /\ scratch' = Absent
        /\ UNCHANGED <<corpus, kept>>
    BY <1>4, NothingYet DEF JobKilled
  <2>2. BackupTypes'
    <3>1. backupSpent' \in Spent
      BY <2>1, SpentGrows DEF BackupInv, BackupTypes
    <3>2. job' \in [at : BackupSteps, snapshot : Copies]
      BY <2>1, NothingYet
    <3>. QED BY <2>1, <3>1, <3>2, NothingYet DEF BackupInv, BackupTypes
  <2>. QED BY <2>1, <2>2, NothingYet DEF BackupInv, ManifestIsTheHashes, ScratchIsTheArchive,
       ArchiveIsProved, ScratchIsInUse, KeptRestores
<1>. QED BY <1>1, <1>2, <1>3, <1>4

(* For any number of backups, faults, writes and migrations: a kept backup restores
   to the rows of one moment at the level its manifest names, and no scratch
   database is left unless dropping it failed. *)
THEOREM BackupsAreSafe == BackupSpec => []BackupIsSafe
<1>1. BackupInit => BackupInv
  BY BackupStart
<1>2. BackupInv /\ [BackupNext]_backupVars => BackupInv'
  <2> SUFFICES ASSUME BackupInv, [BackupNext]_backupVars PROVE BackupInv'
    OBVIOUS
  <2>1. CASE UNCHANGED backupVars
    BY <2>1 DEF backupVars, BackupInv, BackupTypes, ManifestIsTheHashes, ScratchIsTheArchive,
       ArchiveIsProved, ScratchIsInUse, KeptRestores
  <2>2. CASE BackupNext
    BY <2>2, CorpusMoves, ArchiveIsMade, ArchiveIsRestored, ArchiveIsKept DEF BackupNext
  <2>. QED BY <2>1, <2>2
<1>3. BackupInv => BackupIsSafe
  BY NothingYet DEF BackupInv, ScratchIsInUse, BackupIsSafe, NoScratchLeft
<1>. QED BY <1>1, <1>2, <1>3, PTL DEF BackupSpec

(***************************************************************************)
(* The alerts.  ProblemInv says of each problem what its run knows of the  *)
(* issues at the place it is at, and that the owner was told no later than *)
(* the issue says, of what the issue says.                                 *)
(***************************************************************************)
AlertPlaces == {"idle", "find", "label", "open", "edit", "comment", "say resolved", "close"}

Found == SUBSET (Checks \cup {"success", "failure", "cancelled"})

AlertRuns == [at : AlertPlaces, saw : Found, issue : Nat, notify : BOOLEAN]

IssueRecords == [key : Problems, fingerprint : Found, notified : Nat, open : BOOLEAN]

Notices == [what : Found \cup {Red}, when : Nat]

Ends == {"quiet", "red", "none_open", "opened", "updated", "notified", "resolved"}

RunVerdicts == [saw : Found, when : Nat, how : Ends]

AlertTypes ==
    /\ world \in [service : [Checks -> ServiceAnswers], ended : Found]
    /\ issues \in Seq(IssueRecords)
    /\ alertRun \in [Problems -> AlertRuns]
    /\ ticks \in Nat
    /\ told \in [Problems -> Notices]
    /\ verdictOf \in [Problems -> RunVerdicts]
    /\ cutShort \in [Problems -> BOOLEAN]

Of(p, i) == issues[i].key = p
OpenFor(p, i) == issues[i].key = p /\ issues[i].open

OneOpen(p) == \A i, j \in DOMAIN issues : OpenFor(p, i) /\ OpenFor(p, j) => i = j

\* A run that found an issue holds the only one that can be open; one that found none has none.
IssueIsHeld(p) ==
    /\ alertRun[p].at \in {"label", "open"} => \A i \in DOMAIN issues : ~OpenFor(p, i)
    /\ alertRun[p].at \in {"edit", "comment", "say resolved", "close"}
         => /\ alertRun[p].issue \in DOMAIN issues
            /\ Of(p, alertRun[p].issue)
            /\ \A i \in DOMAIN issues : OpenFor(p, i) => i = alertRun[p].issue
    /\ alertRun[p].at \in {"say resolved", "close"} => alertRun[p].saw = AllClear
    /\ alertRun[p].at = "comment" => issues[alertRun[p].issue].fingerprint = alertRun[p].saw

NoticesArePast(p) == \A i \in DOMAIN issues : Of(p, i) => issues[i].notified <= ticks

\* The issues whose word about the last notice matters: the open one, and the one being edited.
Matters(p, i) == OpenFor(p, i) \/ (alertRun[p].at = "edit" /\ i = alertRun[p].issue)

IssueIsTold(p) ==
    ~cutShort[p] /\ alertRun[p].at \notin {"comment", "close"}
        => \A i \in DOMAIN issues :
              Matters(p, i) => /\ told[p].what \in {issues[i].fingerprint, Red}
                               /\ issues[i].notified <= told[p].when

VerdictIsTold(p) ==
    ~cutShort[p] /\ alertRun[p].at # "close" /\ verdictOf[p].saw # AllClear
        => /\ told[p].what \in {verdictOf[p].saw, Red}
           /\ verdictOf[p].when - told[p].when <= RemindAfter

ProblemInv(p) == /\ OneOpen(p) /\ IssueIsHeld(p) /\ NoticesArePast(p)
                 /\ IssueIsTold(p) /\ VerdictIsTold(p)

AlertsInv == AlertTypes /\ \A p \in Problems : ProblemInv(p)

LEMMA AlertsStart == ASSUME AlertsInit PROVE AlertsInv
<1>1. AlertTypes
  BY DEF AlertsInit, AlertTypes, Found, AlertRuns, AlertPlaces, IssueRecords, Notices, RunVerdicts,
     Ends, IdleRun, AllClear,
     ServiceAnswers
<1>2. /\ DOMAIN issues = {}
      /\ \A p \in Problems : /\ alertRun[p].at = "idle"
                             /\ verdictOf[p].saw = AllClear
  BY DEF AlertsInit, IdleRun
<1>3. ASSUME NEW p \in Problems PROVE ProblemInv(p)
  BY <1>2 DEF ProblemInv, OneOpen, IssueIsHeld, NoticesArePast, IssueIsTold, VerdictIsTold
<1>. QED BY <1>1, <1>3 DEF AlertsInv

\* A step that leaves a problem alone: nothing of its run changes, and of its issues at most
\* that one is closed.
LeavesIssue(p, i) ==
    /\ issues'[i].key = issues[i].key
    /\ Of(p, i) => /\ issues'[i].fingerprint = issues[i].fingerprint
                   /\ issues'[i].notified = issues[i].notified
                   /\ issues'[i].open => issues[i].open

LeavesProblem(p) ==
    /\ alertRun'[p] = alertRun[p] /\ told'[p] = told[p]
    /\ verdictOf'[p] = verdictOf[p] /\ cutShort'[p] = cutShort[p]
    /\ ticks <= ticks'
    /\ DOMAIN issues \subseteq DOMAIN issues'
    /\ \A i \in DOMAIN issues : LeavesIssue(p, i)
    /\ \A i \in DOMAIN issues' \ DOMAIN issues : issues'[i].key # p

LEMMA ProblemStays ==
    ASSUME AlertTypes, AlertTypes', NEW p \in Problems, ProblemInv(p), LeavesProblem(p)
    PROVE  ProblemInv(p)'
<1>1. ASSUME NEW i \in DOMAIN issues', Of(p, i)'
      PROVE  /\ i \in DOMAIN issues /\ Of(p, i)
             /\ issues'[i].fingerprint = issues[i].fingerprint
             /\ issues'[i].notified = issues[i].notified
             /\ issues'[i].open => issues[i].open
  BY <1>1 DEF LeavesProblem, LeavesIssue, Of
<1>2. OneOpen(p)'
  BY <1>1 DEF ProblemInv, OneOpen, OpenFor, Of
<1>3. IssueIsHeld(p)'
  <2>1. ASSUME NEW i \in DOMAIN issues', OpenFor(p, i)' PROVE i \in DOMAIN issues /\ OpenFor(p, i)
    BY <1>1, <2>1 DEF OpenFor, Of
  <2>2. ASSUME NEW i \in DOMAIN issues, Of(p, i)
        PROVE  i \in DOMAIN issues' /\ Of(p, i)' /\ issues'[i].fingerprint = issues[i].fingerprint
    BY <2>2 DEF LeavesProblem, LeavesIssue, Of
  <2>3. alertRun'[p] = alertRun[p]
    BY DEF LeavesProblem
  <2>. QED BY <2>1, <2>2, <2>3 DEF ProblemInv, IssueIsHeld
<1>4. NoticesArePast(p)'
  <2>1. ASSUME NEW i \in DOMAIN issues', Of(p, i)' PROVE issues'[i].notified <= ticks'
    <3>1. i \in DOMAIN issues /\ issues'[i].notified = issues[i].notified /\ issues[i].notified <= ticks
      BY <1>1, <2>1 DEF ProblemInv, NoticesArePast
    <3>2. issues[i].notified \in Nat /\ ticks \in Nat /\ ticks' \in Nat
      <4>1. issues \in Seq(IssueRecords) /\ ticks \in Nat /\ ticks' \in Nat
        BY DEF AlertTypes
      <4>2. issues[i] \in IssueRecords
        BY <3>1, <4>1
      <4>. QED BY <4>1, <4>2 DEF IssueRecords
    <3>. QED BY <3>1, <3>2 DEF LeavesProblem
  <2>. QED BY <2>1 DEF NoticesArePast
<1>5. IssueIsTold(p)'
  <2>1. ASSUME NEW i \in DOMAIN issues', Matters(p, i)', alertRun[p].at \notin {"comment", "close"}
        PROVE  /\ i \in DOMAIN issues /\ Matters(p, i)
               /\ issues'[i].fingerprint = issues[i].fingerprint
               /\ issues'[i].notified = issues[i].notified
    <3>1. CASE OpenFor(p, i)'
      BY <1>1, <3>1 DEF Matters, OpenFor, Of
    <3>2. CASE ~OpenFor(p, i)'
      <4>1. alertRun[p].at = "edit" /\ i = alertRun[p].issue
        BY <2>1, <3>2 DEF Matters, LeavesProblem
      <4>2. i \in DOMAIN issues /\ Of(p, i)
        BY <4>1 DEF ProblemInv, IssueIsHeld
      <4>. QED BY <4>1, <4>2 DEF LeavesProblem, LeavesIssue, Matters
    <3>. QED BY <3>1, <3>2
  <2>. QED BY <2>1 DEF ProblemInv, IssueIsTold, LeavesProblem
<1>6. VerdictIsTold(p)'
  BY DEF ProblemInv, VerdictIsTold, LeavesProblem
<1>. QED BY <1>2, <1>3, <1>4, <1>5, <1>6 DEF ProblemInv

\* Where the issues are the same but for one of another problem, the others are left alone.
LEMMA OnlyOneProblemMoves ==
    ASSUME AlertsInv, AlertTypes', NEW p \in Problems, ProblemInv(p)',
           \A q \in Problems \ {p} : LeavesProblem(q)
    PROVE  AlertsInv'
BY ProblemStays DEF AlertsInv

\* What the world does.
LEMMA WorldMoves ==
    ASSUME AlertsInv, Tick \/ WorkflowEnds \/ \E c \in Checks : ServiceChanges(c)
    PROVE  AlertsInv'
<1>1. /\ UNCHANGED <<issues, alertRun, told, verdictOf, cutShort>>
      /\ ticks' \in Nat /\ ticks <= ticks'
  BY DEF Tick, WorkflowEnds, ServiceChanges, AlertsInv, AlertTypes
<1>2. world' \in [service : [Checks -> ServiceAnswers], ended : Found]
  <2>1. world \in [service : [Checks -> ServiceAnswers], ended : Found]
    BY DEF AlertsInv, AlertTypes
  <2>2. CASE Tick
    BY <2>1, <2>2 DEF Tick
  <2>3. CASE WorkflowEnds
    <3>1. PICK how \in {"success", "failure", "cancelled"} : world' = [world EXCEPT !.ended = {how}]
      BY <2>3 DEF WorkflowEnds
    <3>2. {how} \in Found
      BY DEF Found
    <3>. QED BY <2>1, <3>1, <3>2
  <2>4. CASE \E c \in Checks : ServiceChanges(c)
    <3>1. PICK c \in Checks : \E a \in ServiceAnswers : world' = [world EXCEPT !.service[c] = a]
      BY <2>4 DEF ServiceChanges
    <3>2. PICK a \in ServiceAnswers : world' = [world EXCEPT !.service[c] = a]
      BY <3>1
    <3>. QED BY <2>1, <3>2
  <2>. QED BY <2>2, <2>3, <2>4
<1>3. AlertTypes'
  BY <1>1, <1>2 DEF AlertsInv, AlertTypes
<1>4. \A p \in Problems : LeavesProblem(p)
  BY <1>1 DEF LeavesProblem, LeavesIssue
<1>. QED BY <1>3, <1>4, ProblemStays DEF AlertsInv

\* The owner closes an issue by hand.
LEMMA OwnerMoves ==
    ASSUME AlertsInv, NEW i \in DOMAIN issues, OwnerCloses(i)
    PROVE  AlertsInv'
<1>1. /\ issues' = [issues EXCEPT ![i].open = FALSE]
      /\ UNCHANGED <<world, alertRun, ticks, told, verdictOf, cutShort>>
  BY DEF OwnerCloses
<1>2. issues \in Seq(IssueRecords) /\ issues[i] \in IssueRecords
  BY DEF AlertsInv, AlertTypes
<1>3. [issues[i] EXCEPT !.open = FALSE] \in IssueRecords
  BY <1>2 DEF IssueRecords
<1>4. issues' \in Seq(IssueRecords) /\ DOMAIN issues' = DOMAIN issues
  BY <1>1, <1>2, <1>3
<1>5. \A p \in Problems, j \in DOMAIN issues : LeavesIssue(p, j)
  BY <1>1, <1>2 DEF LeavesIssue, IssueRecords
<1>6. AlertTypes'
  BY <1>1, <1>4 DEF AlertsInv, AlertTypes
<1>7. \A p \in Problems : LeavesProblem(p)
  BY <1>1, <1>4, <1>5 DEF LeavesProblem, AlertsInv, AlertTypes
<1>. QED BY <1>6, <1>7, ProblemStays DEF AlertsInv

\* What a step of the run of one problem changes: its own entries, and issues of that problem.
RunMoves(p) ==
    /\ \E r \in AlertRuns : alertRun' = [alertRun EXCEPT ![p] = r]
    /\ told' = told \/ \E n \in Notices : told' = [told EXCEPT ![p] = n]
    /\ verdictOf' = verdictOf \/ \E v \in RunVerdicts : verdictOf' = [verdictOf EXCEPT ![p] = v]
    /\ cutShort' = cutShort \/ \E b \in BOOLEAN : cutShort' = [cutShort EXCEPT ![p] = b]
    /\ UNCHANGED <<world, ticks>>

IssuesMove(p) ==
    /\ issues' \in Seq(IssueRecords)
    /\ DOMAIN issues \subseteq DOMAIN issues'
    /\ \A i \in DOMAIN issues : /\ issues'[i].key = issues[i].key
                                /\ issues[i].key # p => issues'[i] = issues[i]
    /\ \A i \in DOMAIN issues' \ DOMAIN issues : issues'[i].key = p

LEMMA OneRunMoves ==
    ASSUME AlertsInv, NEW p \in Problems, RunMoves(p), IssuesMove(p)
    PROVE  AlertTypes' /\ \A q \in Problems \ {p} : LeavesProblem(q)
<1>1. AlertTypes'
  <2>1. alertRun' \in [Problems -> AlertRuns]
    BY DEF RunMoves, AlertsInv, AlertTypes
  <2>2. told' \in [Problems -> Notices]
    BY DEF RunMoves, AlertsInv, AlertTypes
  <2>3. verdictOf' \in [Problems -> RunVerdicts]
    BY DEF RunMoves, AlertsInv, AlertTypes
  <2>4. cutShort' \in [Problems -> BOOLEAN]
    BY DEF RunMoves, AlertsInv, AlertTypes
  <2>. QED BY <2>1, <2>2, <2>3, <2>4 DEF RunMoves, IssuesMove, AlertsInv, AlertTypes
<1>2. ASSUME NEW q \in Problems \ {p} PROVE LeavesProblem(q)
  <2>1. /\ alertRun'[q] = alertRun[q] /\ told'[q] = told[q]
        /\ verdictOf'[q] = verdictOf[q] /\ cutShort'[q] = cutShort[q]
    BY DEF RunMoves, AlertsInv, AlertTypes
  <2>2. ticks <= ticks'
    BY DEF RunMoves, AlertsInv, AlertTypes
  <2>3. \A i \in DOMAIN issues : LeavesIssue(q, i)
    BY DEF IssuesMove, LeavesIssue, Of
  <2>. QED BY <2>1, <2>2, <2>3 DEF LeavesProblem, IssuesMove
<1>. QED BY <1>1, <1>2

LEMMA SameIssues ==
    ASSUME AlertTypes, NEW p \in Problems, issues' = issues
    PROVE  IssuesMove(p)
BY DEF AlertTypes, IssuesMove

\* The run's own entries after the step, in one place for each way of writing them.
LEMMA RunRecords ==
    ASSUME AlertTypes, NEW p \in Problems
    PROVE  /\ alertRun[p] \in AlertRuns /\ alertRun[p].saw \in Found
           /\ IdleRun \in AlertRuns /\ IdleRun.at = "idle"
           /\ \A place \in AlertPlaces : /\ [alertRun[p] EXCEPT !.at = place] \in AlertRuns
                                         /\ [alertRun[p] EXCEPT !.at = place].at = place
                                         /\ [alertRun[p] EXCEPT !.at = place].saw = alertRun[p].saw
                                         /\ [alertRun[p] EXCEPT !.at = place].issue = alertRun[p].issue
           /\ \A what \in Found \cup {Red} : [what |-> what, when |-> ticks] \in Notices
           /\ \A saw \in Found, how \in Ends : [saw |-> saw, when |-> ticks, how |-> how] \in RunVerdicts
           /\ AllClear \in Found
<1>1. alertRun[p] \in AlertRuns /\ ticks \in Nat
  BY DEF AlertTypes
<1>2. AllClear \in Found
  BY DEF AllClear, Found
<1>3. IdleRun \in AlertRuns /\ IdleRun.at = "idle"
  BY <1>2 DEF IdleRun, AlertRuns, AlertPlaces
<1>4. ASSUME NEW place \in AlertPlaces
      PROVE  /\ [alertRun[p] EXCEPT !.at = place] \in AlertRuns
             /\ [alertRun[p] EXCEPT !.at = place].at = place
             /\ [alertRun[p] EXCEPT !.at = place].saw = alertRun[p].saw
             /\ [alertRun[p] EXCEPT !.at = place].issue = alertRun[p].issue
  BY <1>1 DEF AlertRuns
<1>5. \A what \in Found \cup {Red} : [what |-> what, when |-> ticks] \in Notices
  BY <1>1 DEF Notices
<1>6. \A saw \in Found, how \in Ends : [saw |-> saw, when |-> ticks, how |-> how] \in RunVerdicts
  BY <1>1 DEF RunVerdicts
<1>. QED BY <1>1, <1>2, <1>3, <1>4, <1>5, <1>6 DEF AlertRuns

\* A run that ends by itself: its verdict is of now.
LEMMA EndOfRun ==
    ASSUME AlertsInv, NEW p \in Problems, NEW how \in Ends, Ended(p, how)
    PROVE  /\ alertRun' = [alertRun EXCEPT ![p] = IdleRun]
           /\ verdictOf' = [verdictOf EXCEPT ![p] = [saw |-> alertRun[p].saw, when |-> ticks, how |-> how]]
           /\ alertRun'[p] = IdleRun /\ alertRun'[p].at = "idle"
           /\ verdictOf'[p].saw = alertRun[p].saw /\ verdictOf'[p].when = ticks
           /\ [saw |-> alertRun[p].saw, when |-> ticks, how |-> how] \in RunVerdicts
BY RunRecords DEF AlertsInv, AlertTypes, Ended

LEMMA NoticeOf ==
    ASSUME AlertsInv, NEW p \in Problems, NEW what \in Found \cup {Red}, Tell(p, what)
    PROVE  /\ told' = [told EXCEPT ![p] = [what |-> what, when |-> ticks]]
           /\ [what |-> what, when |-> ticks] \in Notices
           /\ told'[p].what = what /\ told'[p].when = ticks
BY RunRecords DEF AlertsInv, AlertTypes, Tell

\* An owner who was told just now, of the trouble or of a red run, was told in time.
LEMMA ToldJustNow ==
    ASSUME AlertTypes, NEW p \in Problems, ticks' = ticks, told'[p].when = ticks,
           told'[p].what = Red \/ verdictOf'[p].saw = told'[p].what,
           verdictOf'[p].saw = AllClear \/ verdictOf'[p].when = ticks,
           IssueIsHeld(p)', NoticesArePast(p)',
           told'[p].what = Red
             \/ \A i \in DOMAIN issues' : Matters(p, i)' => issues'[i].fingerprint = told'[p].what
    PROVE  IssueIsTold(p)' /\ VerdictIsTold(p)'
<1>1. ASSUME NEW i \in DOMAIN issues', Matters(p, i)' PROVE issues'[i].notified <= told'[p].when
  <2>1. Of(p, i)'
    BY <1>1 DEF Matters, OpenFor, Of, IssueIsHeld
  <2>. QED BY <2>1 DEF NoticesArePast
<1>2. IssueIsTold(p)'
  BY <1>1 DEF IssueIsTold
<1>3. ticks - ticks <= RemindAfter
  BY AlertConstants DEF AlertTypes
<1>. QED BY <1>2, <1>3 DEF VerdictIsTold

LEMMA LookMoves ==
    ASSUME AlertsInv, NEW p \in Problems, Look(p)
    PROVE  AlertsInv'
<1>1. /\ alertRun[p].at = "idle"
      /\ UNCHANGED <<world, issues, ticks, cutShort>>
  BY DEF Look, At
<1>. DEFINE run == [IdleRun EXCEPT !.at = "find", !.saw = Wrong(p)]
<1>2. CASE CannotReport(p)
  <2>1. /\ Tell(p, Red)
        /\ verdictOf' = [verdictOf EXCEPT ![p] = [saw |-> AllClear, when |-> ticks, how |-> "red"]]
        /\ alertRun' = alertRun
    BY <1>2 DEF Look
  <2>2. RunMoves(p)
    <3>1. alertRun' = [alertRun EXCEPT ![p] = alertRun[p]] /\ alertRun[p] \in AlertRuns
      BY <2>1 DEF AlertsInv, AlertTypes
    <3>2. [saw |-> AllClear, when |-> ticks, how |-> "red"] \in RunVerdicts
      BY RunRecords DEF AlertsInv, Ends
    <3>. QED BY <1>1, <2>1, <3>1, <3>2, NoticeOf DEF RunMoves
  <2>3. IssuesMove(p)
    BY <1>1, SameIssues DEF AlertsInv
  <2>4. /\ told'[p].what = Red /\ told'[p].when = ticks
        /\ verdictOf'[p].saw = AllClear /\ alertRun'[p].at = "idle"
    BY <1>1, <2>1, NoticeOf DEF AlertsInv, AlertTypes
  <2>5. OneOpen(p)' /\ NoticesArePast(p)'
    BY <1>1 DEF AlertsInv, ProblemInv, OneOpen, OpenFor, Of, NoticesArePast
  <2>6. IssueIsHeld(p)'
    BY <2>4 DEF IssueIsHeld
  <2>7. ProblemInv(p)'
    BY <1>1, <2>4, <2>5, <2>6, ToldJustNow DEF AlertsInv, ProblemInv
  <2>. QED BY <2>2, <2>3, <2>7, OneRunMoves, OnlyOneProblemMoves
<1>3. CASE ~CannotReport(p)
  <2>1. alertRun' = [alertRun EXCEPT ![p] = run] /\ UNCHANGED <<told, verdictOf>>
    BY <1>3 DEF Look
  <2>2. Wrong(p) \in Found
    BY DEF Wrong, Found, Problems, AlertsInv, AlertTypes
  <2>3. run \in AlertRuns /\ run.at = "find"
    <3>. HIDE DEF IdleRun
    <3>1. IdleRun \in AlertRuns
      BY RunRecords DEF AlertsInv
    <3>2. "find" \in AlertPlaces
      BY DEF AlertPlaces
    <3>. QED BY <2>2, <3>1, <3>2 DEF AlertRuns
  <2>. HIDE DEF run
  <2>4. RunMoves(p)
    BY <1>1, <2>1, <2>3 DEF RunMoves
  <2>5. IssuesMove(p)
    BY <1>1, SameIssues DEF AlertsInv
  <2>6. alertRun'[p].at = "find"
    BY <2>1, <2>3 DEF AlertsInv, AlertTypes
  <2>7. ProblemInv(p)'
    <3>1. OneOpen(p)' /\ NoticesArePast(p)'
      BY <1>1 DEF AlertsInv, ProblemInv, OneOpen, OpenFor, Of, NoticesArePast
    <3>2. IssueIsHeld(p)'
      BY <2>6 DEF IssueIsHeld
    <3>3. IssueIsTold(p)'
      BY <1>1, <2>1, <2>6 DEF AlertsInv, ProblemInv, IssueIsTold, Matters, OpenFor, Of
    <3>4. VerdictIsTold(p)'
      BY <1>1, <2>1 DEF AlertsInv, ProblemInv, VerdictIsTold
    <3>. QED BY <3>1, <3>2, <3>3, <3>4 DEF ProblemInv
  <2>. QED BY <2>4, <2>5, <2>7, OneRunMoves, OnlyOneProblemMoves
<1>. QED BY <1>2, <1>3

LEMMA IssueNumbers ==
    ASSUME AlertTypes
    PROVE  \A i \in DOMAIN issues : i \in Nat /\ issues[i] \in IssueRecords
<1>1. issues \in Seq(IssueRecords)
  BY DEF AlertTypes
<1>. QED BY <1>1

LEMMA FindIssueMoves ==
    ASSUME AlertsInv, NEW p \in Problems, FindIssue(p)
    PROVE  AlertsInv'
<1>1. /\ alertRun[p].at = "find"
      /\ UNCHANGED <<world, issues, ticks, told, cutShort>>
  BY DEF FindIssue, At
<1>2. IssuesMove(p)
  BY <1>1, SameIssues DEF AlertsInv
<1>3. OneOpen(p)' /\ NoticesArePast(p)'
  BY <1>1 DEF AlertsInv, ProblemInv, OneOpen, OpenFor, Of, NoticesArePast
<1>4. CASE FindOpen(p) = {} /\ alertRun[p].saw = AllClear
  <2>1. Ended(p, "none_open")
    BY <1>4 DEF FindIssue
  <2>2. "none_open" \in Ends
    BY DEF Ends
  <2>3. RunMoves(p)
    BY <1>1, <2>1, <2>2, EndOfRun, RunRecords DEF RunMoves, AlertsInv
  <2>4. alertRun'[p].at = "idle" /\ verdictOf'[p].saw = AllClear
    BY <1>4, <2>1, <2>2, EndOfRun
  <2>5. ProblemInv(p)'
    BY <1>1, <1>3, <2>4 DEF AlertsInv, ProblemInv, OpenFor, Of, IssueIsHeld, IssueIsTold, Matters,
       VerdictIsTold
  <2>. QED BY <1>2, <2>3, <2>5, OneRunMoves, OnlyOneProblemMoves
<1>5. CASE FindOpen(p) = {} /\ alertRun[p].saw # AllClear
  <2>1. PICK place \in {"open", "label"} : Go(p, place) /\ UNCHANGED verdictOf
    BY <1>5 DEF FindIssue
  <2>2. place \in AlertPlaces
    BY <2>1 DEF AlertPlaces
  <2>3. alertRun' = [alertRun EXCEPT ![p] = [alertRun[p] EXCEPT !.at = place]]
    BY <2>1 DEF Go
  <2>4. RunMoves(p)
    BY <1>1, <2>1, <2>2, <2>3, RunRecords DEF RunMoves, AlertsInv
  <2>5. alertRun'[p].at = place
    BY <2>2, <2>3, RunRecords DEF AlertsInv, AlertTypes
  <2>6. \A i \in DOMAIN issues : ~OpenFor(p, i)
    BY <1>5 DEF FindOpen, OpenFor
  <2>7. IssueIsHeld(p)' /\ IssueIsTold(p)'
    BY <1>1, <2>5, <2>6 DEF IssueIsHeld, IssueIsTold, Matters, OpenFor
  <2>8. VerdictIsTold(p)'
    BY <1>1, <2>1, <2>5 DEF AlertsInv, ProblemInv, VerdictIsTold
  <2>. QED BY <1>2, <1>3, <2>4, <2>7, <2>8, OneRunMoves, OnlyOneProblemMoves DEF ProblemInv
<1>6. CASE FindOpen(p) # {}
  <2>0. \E i \in FindOpen(p) : \A j \in FindOpen(p) : j <= i
    <3>1. PICK i \in FindOpen(p) : TRUE
      BY <1>6
    <3>2. i \in Nat
      BY IssueNumbers DEF FindOpen, AlertsInv
    <3>3. \A j \in FindOpen(p) : j = i
      BY DEF FindOpen, AlertsInv, ProblemInv, OneOpen, OpenFor
    <3>4. ASSUME NEW j \in FindOpen(p) PROVE j <= i
      <4>1. j = i
        BY <3>3
      <4>. QED BY <3>2, <4>1
    <3>. QED BY <3>4
  <2>. DEFINE found == CHOOSE i \in FindOpen(p) : \A j \in FindOpen(p) : j <= i
  <2>1. PICK place \in {"say resolved", "edit"} :
          /\ alertRun' = [alertRun EXCEPT ![p].issue = found, ![p].at = place]
          /\ place = "say resolved" => alertRun[p].saw = AllClear
          /\ UNCHANGED verdictOf
    BY <1>6 DEF FindIssue
  <2>2. found \in FindOpen(p)
    BY <2>0
  <2>3. found \in DOMAIN issues /\ OpenFor(p, found) /\ found \in Nat
    BY <2>2, IssueNumbers DEF FindOpen, OpenFor, AlertsInv
  <2>. HIDE DEF found
  <2>4. \A i \in DOMAIN issues : OpenFor(p, i) => i = found
    BY <2>3 DEF AlertsInv, ProblemInv, OneOpen
  <2>. DEFINE run == [alertRun[p] EXCEPT !.issue = found, !.at = place]
  <2>5. /\ run \in AlertRuns /\ run.at = place /\ run.issue = found
        /\ run.saw = alertRun[p].saw
    <3>1. alertRun[p] \in AlertRuns /\ place \in AlertPlaces
      BY <2>1, RunRecords DEF AlertsInv, AlertPlaces
    <3>. QED BY <2>3, <3>1 DEF AlertRuns
  <2>6. alertRun' = [alertRun EXCEPT ![p] = run]
    BY <2>1 DEF AlertsInv, AlertTypes
  <2>. HIDE DEF run
  <2>7. RunMoves(p)
    BY <1>1, <2>1, <2>5, <2>6 DEF RunMoves
  <2>8. /\ alertRun'[p].at = place /\ alertRun'[p].issue = found
        /\ alertRun'[p].saw = alertRun[p].saw
    BY <2>5, <2>6 DEF AlertsInv, AlertTypes
  <2>9. IssueIsHeld(p)'
    BY <1>1, <2>1, <2>3, <2>4, <2>8 DEF IssueIsHeld, OpenFor, Of
  <2>10. IssueIsTold(p)'
    BY <1>1, <2>3, <2>8 DEF AlertsInv, ProblemInv, IssueIsTold, Matters, OpenFor
  <2>11. VerdictIsTold(p)'
    BY <1>1, <2>1, <2>8 DEF AlertsInv, ProblemInv, VerdictIsTold
  <2>. QED BY <1>2, <1>3, <2>7, <2>9, <2>10, <2>11, OneRunMoves, OnlyOneProblemMoves DEF ProblemInv
<1>. QED BY <1>4, <1>5, <1>6

LEMMA LabelMoves ==
    ASSUME AlertsInv, NEW p \in Problems, EnsureLabel(p)
    PROVE  AlertsInv'
<1>1. /\ alertRun[p].at = "label"
      /\ alertRun' = [alertRun EXCEPT ![p] = [alertRun[p] EXCEPT !.at = "open"]]
      /\ UNCHANGED <<world, issues, ticks, told, verdictOf, cutShort>>
  BY DEF EnsureLabel, At, Go
<1>2. "open" \in AlertPlaces
  BY DEF AlertPlaces
<1>3. RunMoves(p)
  BY <1>1, <1>2, RunRecords DEF RunMoves, AlertsInv
<1>4. IssuesMove(p)
  BY <1>1, SameIssues DEF AlertsInv
<1>5. alertRun'[p].at = "open"
  BY <1>1, <1>2, RunRecords DEF AlertsInv, AlertTypes
<1>6. OneOpen(p)' /\ NoticesArePast(p)'
  BY <1>1 DEF AlertsInv, ProblemInv, OneOpen, OpenFor, Of, NoticesArePast
<1>7. \A i \in DOMAIN issues : ~OpenFor(p, i)
  BY <1>1 DEF AlertsInv, ProblemInv, IssueIsHeld
<1>8. IssueIsHeld(p)' /\ IssueIsTold(p)'
  BY <1>1, <1>5, <1>7 DEF IssueIsHeld, IssueIsTold, Matters, OpenFor
<1>9. VerdictIsTold(p)'
  BY <1>1, <1>5 DEF AlertsInv, ProblemInv, VerdictIsTold
<1>. QED BY <1>3, <1>4, <1>6, <1>8, <1>9, OneRunMoves, OnlyOneProblemMoves DEF ProblemInv

LEMMA CommentMoves ==
    ASSUME AlertsInv, NEW p \in Problems, Comment(p)
    PROVE  AlertsInv'
<1>1. /\ alertRun[p].at = "comment"
      /\ Tell(p, alertRun[p].saw)
      /\ cutShort' = [cutShort EXCEPT ![p] = FALSE]
      /\ Ended(p, "notified")
      /\ UNCHANGED <<world, issues, ticks>>
  BY DEF Comment, At
<1>2. "notified" \in Ends /\ alertRun[p].saw \in Found \cup {Red} /\ alertRun[p].saw \in Found
  BY RunRecords DEF AlertsInv, Ends
<1>3. RunMoves(p)
  <2>1. \E r \in AlertRuns : alertRun' = [alertRun EXCEPT ![p] = r]
    BY <1>1, <1>2, EndOfRun, RunRecords DEF AlertsInv
  <2>2. \E v \in RunVerdicts : verdictOf' = [verdictOf EXCEPT ![p] = v]
    BY <1>1, <1>2, EndOfRun
  <2>3. \E n \in Notices : told' = [told EXCEPT ![p] = n]
    BY <1>1, <1>2, NoticeOf
  <2>. QED BY <1>1, <2>1, <2>2, <2>3 DEF RunMoves
<1>4. IssuesMove(p)
  BY <1>1, SameIssues DEF AlertsInv
<1>5. OneOpen(p)' /\ NoticesArePast(p)'
  BY <1>1 DEF AlertsInv, ProblemInv, OneOpen, OpenFor, Of, NoticesArePast
<1>6. /\ alertRun'[p].at = "idle"
      /\ verdictOf'[p].saw = alertRun[p].saw /\ verdictOf'[p].when = ticks
      /\ told'[p].what = alertRun[p].saw /\ told'[p].when = ticks
  BY <1>1, <1>2, EndOfRun, NoticeOf
<1>7. IssueIsHeld(p)'
  BY <1>6 DEF IssueIsHeld
<1>8. \A i \in DOMAIN issues' : Matters(p, i)' => issues'[i].fingerprint = told'[p].what
  <2>1. \A i \in DOMAIN issues : OpenFor(p, i) => issues[i].fingerprint = alertRun[p].saw
    BY <1>1 DEF AlertsInv, ProblemInv, IssueIsHeld
  <2>. QED BY <1>1, <1>6, <2>1 DEF Matters, OpenFor
<1>9. IssueIsTold(p)' /\ VerdictIsTold(p)'
  BY <1>1, <1>5, <1>6, <1>7, <1>8, ToldJustNow DEF AlertsInv
<1>. QED BY <1>3, <1>4, <1>5, <1>7, <1>9, OneRunMoves, OnlyOneProblemMoves DEF ProblemInv

LEMMA ResolvedMoves ==
    ASSUME AlertsInv, NEW p \in Problems, SayResolved(p)
    PROVE  AlertsInv'
<1>1. /\ alertRun[p].at = "say resolved"
      /\ Tell(p, AllClear)
      /\ alertRun' = [alertRun EXCEPT ![p] = [alertRun[p] EXCEPT !.at = "close"]]
      /\ UNCHANGED <<world, issues, ticks, verdictOf, cutShort>>
  BY DEF SayResolved, At, Go
<1>2. "close" \in AlertPlaces /\ AllClear \in Found \cup {Red}
  BY RunRecords DEF AlertsInv, AlertPlaces
<1>3. RunMoves(p)
  <2>1. \E r \in AlertRuns : alertRun' = [alertRun EXCEPT ![p] = r]
    BY <1>1, <1>2, RunRecords DEF AlertsInv
  <2>2. \E n \in Notices : told' = [told EXCEPT ![p] = n]
    <3>1. Tell(p, AllClear)
      BY <1>1
    <3>. QED BY <1>2, <3>1, NoticeOf
  <2>. QED BY <1>1, <2>1, <2>2 DEF RunMoves
<1>4. IssuesMove(p)
  BY <1>1, SameIssues DEF AlertsInv
<1>5. OneOpen(p)' /\ NoticesArePast(p)'
  BY <1>1 DEF AlertsInv, ProblemInv, OneOpen, OpenFor, Of, NoticesArePast
<1>6. /\ alertRun'[p].at = "close" /\ alertRun'[p].issue = alertRun[p].issue
      /\ alertRun'[p].saw = alertRun[p].saw
  BY <1>1, <1>2, RunRecords DEF AlertsInv, AlertTypes
<1>7. IssueIsHeld(p)'
  BY <1>1, <1>6 DEF AlertsInv, ProblemInv, IssueIsHeld, OpenFor, Of
<1>8. IssueIsTold(p)' /\ VerdictIsTold(p)'
  BY <1>6 DEF IssueIsTold, VerdictIsTold
<1>. QED BY <1>3, <1>4, <1>5, <1>7, <1>8, OneRunMoves, OnlyOneProblemMoves DEF ProblemInv

\* A request that rewrites an issue of a problem, keeping whose it is.
LEMMA IssueIsRewritten ==
    ASSUME AlertsInv, NEW p \in Problems, NEW i \in DOMAIN issues, Of(p, i),
           NEW r \in IssueRecords, r.key = p, issues' = [issues EXCEPT ![i] = r]
    PROVE  IssuesMove(p) /\ DOMAIN issues' = DOMAIN issues
<1>1. issues \in Seq(IssueRecords)
  BY DEF AlertsInv, AlertTypes
<1>2. issues' \in Seq(IssueRecords) /\ DOMAIN issues' = DOMAIN issues
  BY <1>1
<1>3. issues'[i] = r /\ \A j \in DOMAIN issues : j # i => issues'[j] = issues[j]
  BY <1>1
<1>. QED BY <1>2, <1>3 DEF IssuesMove, Of

LEMMA IssueIsAppended ==
    ASSUME AlertsInv, NEW p \in Problems, NEW r \in IssueRecords, r.key = p,
           issues' = Append(issues, r)
    PROVE  /\ IssuesMove(p)
           /\ \A i \in DOMAIN issues' : issues'[i] = IF i \in DOMAIN issues THEN issues[i] ELSE r
           /\ \A i, j \in DOMAIN issues' \ DOMAIN issues : i = j
<1>1. issues \in Seq(IssueRecords)
  BY DEF AlertsInv, AlertTypes
<1>2. /\ issues' \in Seq(IssueRecords)
      /\ DOMAIN issues = 1..Len(issues) /\ DOMAIN issues' = 1..(Len(issues) + 1)
      /\ Len(issues) \in Nat
  BY <1>1
<1>3. /\ issues'[Len(issues) + 1] = r
      /\ \A i \in DOMAIN issues : issues'[i] = issues[i]
  BY <1>1
<1>4. \A i \in DOMAIN issues' \ DOMAIN issues : i = Len(issues) + 1
  BY <1>2
<1>5. DOMAIN issues \subseteq DOMAIN issues'
  BY <1>2
<1>. QED BY <1>2, <1>3, <1>4, <1>5 DEF IssuesMove

\* The record a request writes for a problem whose run saw trouble or its end.
LEMMA ComposedIssue ==
    ASSUME AlertsInv, NEW p \in Problems, NEW n \in Nat
    PROVE  /\ Compose(p, n) \in IssueRecords
           /\ Compose(p, n).key = p /\ Compose(p, n).fingerprint = alertRun[p].saw
           /\ Compose(p, n).notified = n
           /\ \A b \in BOOLEAN :
                LET r == [Compose(p, n) EXCEPT !.open = b] IN
                /\ r \in IssueRecords /\ r.key = p /\ r.open = b
                /\ r.fingerprint = alertRun[p].saw /\ r.notified = n
<1>1. alertRun[p].saw \in Found
  BY RunRecords DEF AlertsInv
<1>. QED BY <1>1 DEF Compose, IssueRecords

\* What opening an issue does to the problem, when its answer comes and when it is lost.
LEMMA IssueIsOpened ==
    ASSUME AlertsInv, NEW p \in Problems, alertRun[p].at = "open",
           issues' = Append(issues, Compose(p, ticks)), ticks' = ticks
    PROVE  /\ IssuesMove(p) /\ OneOpen(p)' /\ NoticesArePast(p)'
           /\ \A i \in DOMAIN issues' : OpenFor(p, i)' => issues'[i].fingerprint = alertRun[p].saw
<1>1. ticks \in Nat
  BY DEF AlertsInv, AlertTypes
<1>. DEFINE r == Compose(p, ticks)
<1>2. /\ r \in IssueRecords /\ r.key = p /\ r.notified = ticks
      /\ r.fingerprint = alertRun[p].saw
  BY <1>1, ComposedIssue
<1>. HIDE DEF r
<1>3. issues' = Append(issues, r)
  BY DEF r
<1>4. /\ IssuesMove(p)
      /\ \A i \in DOMAIN issues' : issues'[i] = IF i \in DOMAIN issues THEN issues[i] ELSE r
      /\ \A i, j \in DOMAIN issues' \ DOMAIN issues : i = j
  BY <1>2, <1>3, IssueIsAppended
<1>5. \A i \in DOMAIN issues : ~OpenFor(p, i)
  BY DEF AlertsInv, ProblemInv, IssueIsHeld
<1>6. ASSUME NEW i \in DOMAIN issues', OpenFor(p, i)'
      PROVE  i \notin DOMAIN issues /\ issues'[i] = r
  BY <1>4, <1>5, <1>6 DEF OpenFor
<1>7. OneOpen(p)'
  BY <1>4, <1>6 DEF OneOpen
<1>8. NoticesArePast(p)'
  <2>1. \A i \in DOMAIN issues : Of(p, i) => issues[i].notified <= ticks
    BY DEF AlertsInv, ProblemInv, NoticesArePast
  <2>2. ticks <= ticks
    BY <1>1
  <2>. QED BY <1>2, <1>4, <2>1, <2>2 DEF NoticesArePast, Of
<1>. QED BY <1>2, <1>4, <1>6, <1>7, <1>8

LEMMA OpenMoves ==
    ASSUME AlertsInv, NEW p \in Problems, OpenIssue(p)
    PROVE  AlertsInv'
<1>1. /\ alertRun[p].at = "open"
      /\ issues' = Append(issues, Compose(p, ticks))
      /\ Tell(p, alertRun[p].saw)
      /\ cutShort' = [cutShort EXCEPT ![p] = FALSE]
      /\ Ended(p, "opened")
      /\ UNCHANGED <<world, ticks>>
  BY DEF OpenIssue, At
<1>2. "opened" \in Ends /\ alertRun[p].saw \in Found \cup {Red}
  BY RunRecords DEF AlertsInv, Ends
<1>3. RunMoves(p)
  <2>1. \E r \in AlertRuns : alertRun' = [alertRun EXCEPT ![p] = r]
    BY <1>1, <1>2, EndOfRun, RunRecords DEF AlertsInv
  <2>2. \E v \in RunVerdicts : verdictOf' = [verdictOf EXCEPT ![p] = v]
    BY <1>1, <1>2, EndOfRun
  <2>3. \E n \in Notices : told' = [told EXCEPT ![p] = n]
    BY <1>1, <1>2, NoticeOf
  <2>. QED BY <1>1, <2>1, <2>2, <2>3 DEF RunMoves
<1>4. /\ IssuesMove(p) /\ OneOpen(p)' /\ NoticesArePast(p)'
      /\ \A i \in DOMAIN issues' : OpenFor(p, i)' => issues'[i].fingerprint = alertRun[p].saw
  BY <1>1, IssueIsOpened
<1>5. /\ alertRun'[p].at = "idle"
      /\ verdictOf'[p].saw = alertRun[p].saw /\ verdictOf'[p].when = ticks
      /\ told'[p].what = alertRun[p].saw /\ told'[p].when = ticks
  BY <1>1, <1>2, EndOfRun, NoticeOf
<1>6. IssueIsHeld(p)'
  BY <1>5 DEF IssueIsHeld
<1>7. \A i \in DOMAIN issues' : Matters(p, i)' => issues'[i].fingerprint = told'[p].what
  BY <1>4, <1>5 DEF Matters
<1>8. IssueIsTold(p)' /\ VerdictIsTold(p)'
  BY <1>1, <1>4, <1>5, <1>6, <1>7, ToldJustNow DEF AlertsInv
<1>. QED BY <1>3, <1>4, <1>6, <1>8, OneRunMoves, OnlyOneProblemMoves DEF ProblemInv

\* What closing the issue does to the problem.
LEMMA IssueIsClosed ==
    ASSUME AlertsInv, NEW p \in Problems, alertRun[p].at = "close",
           issues' = [issues EXCEPT ![alertRun[p].issue].open = FALSE], ticks' = ticks
    PROVE  /\ IssuesMove(p) /\ OneOpen(p)' /\ NoticesArePast(p)'
           /\ \A i \in DOMAIN issues' : ~OpenFor(p, i)'
<1>. DEFINE i == alertRun[p].issue
           r == [issues[i] EXCEPT !.open = FALSE]
<1>1. /\ i \in DOMAIN issues /\ Of(p, i)
      /\ \A j \in DOMAIN issues : OpenFor(p, j) => j = i
  BY DEF AlertsInv, ProblemInv, IssueIsHeld
<1>. HIDE DEF i
<1>2. issues[i] \in IssueRecords
  BY <1>1, IssueNumbers DEF AlertsInv
<1>3. /\ r \in IssueRecords /\ r.key = p /\ r.open = FALSE
      /\ r.notified = issues[i].notified
  BY <1>1, <1>2 DEF IssueRecords, Of
<1>4. issues' = [issues EXCEPT ![i] = r]
  BY DEF i
<1>. HIDE DEF r
<1>5. IssuesMove(p) /\ DOMAIN issues' = DOMAIN issues
  BY <1>1, <1>3, <1>4, IssueIsRewritten
<1>6. issues'[i] = r /\ \A j \in DOMAIN issues : j # i => issues'[j] = issues[j]
  BY <1>1, <1>4 DEF AlertsInv, AlertTypes
<1>7. \A j \in DOMAIN issues' : ~OpenFor(p, j)'
  BY <1>1, <1>3, <1>5, <1>6 DEF OpenFor
<1>8. NoticesArePast(p)'
  BY <1>1, <1>3, <1>5, <1>6 DEF AlertsInv, ProblemInv, NoticesArePast, Of
<1>. QED BY <1>5, <1>7, <1>8 DEF OneOpen

LEMMA CloseMoves ==
    ASSUME AlertsInv, NEW p \in Problems, CloseIssue(p)
    PROVE  AlertsInv'
<1>1. /\ alertRun[p].at = "close"
      /\ issues' = [issues EXCEPT ![alertRun[p].issue].open = FALSE]
      /\ cutShort' = [cutShort EXCEPT ![p] = FALSE]
      /\ Ended(p, "resolved")
      /\ UNCHANGED <<world, ticks, told>>
  BY DEF CloseIssue, At
<1>2. "resolved" \in Ends
  BY DEF Ends
<1>3. RunMoves(p)
  <2>1. \E r \in AlertRuns : alertRun' = [alertRun EXCEPT ![p] = r]
    BY <1>1, <1>2, EndOfRun, RunRecords DEF AlertsInv
  <2>2. \E v \in RunVerdicts : verdictOf' = [verdictOf EXCEPT ![p] = v]
    BY <1>1, <1>2, EndOfRun
  <2>. QED BY <1>1, <2>1, <2>2 DEF RunMoves
<1>4. /\ IssuesMove(p) /\ OneOpen(p)' /\ NoticesArePast(p)'
      /\ \A i \in DOMAIN issues' : ~OpenFor(p, i)'
  BY <1>1, IssueIsClosed
<1>5. alertRun'[p].at = "idle" /\ verdictOf'[p].saw = AllClear
  BY <1>1, <1>2, EndOfRun DEF AlertsInv, ProblemInv, IssueIsHeld
<1>6. IssueIsHeld(p)' /\ IssueIsTold(p)' /\ VerdictIsTold(p)'
  BY <1>4, <1>5 DEF IssueIsHeld, IssueIsTold, Matters, VerdictIsTold
<1>. QED BY <1>3, <1>4, <1>6, OneRunMoves, OnlyOneProblemMoves DEF ProblemInv

\* The record an edit writes, and what it does to the problem.
Edited(p) ==
    LET i == alertRun[p].issue IN
    [Compose(p, NotifiedAt(issues[i], Notifies(issues[i], alertRun[p].saw)))
       EXCEPT !.open = issues[i].open]

LEMMA IssueIsEdited ==
    ASSUME AlertsInv, NEW p \in Problems, alertRun[p].at = "edit",
           issues' = [issues EXCEPT ![alertRun[p].issue] = Edited(p)], ticks' = ticks
    PROVE  LET i == alertRun[p].issue IN
           /\ IssuesMove(p) /\ OneOpen(p)' /\ NoticesArePast(p)'
           /\ i \in DOMAIN issues' /\ issues'[i].key = p
           /\ \A j \in DOMAIN issues' : OpenFor(p, j)' => j = i
           /\ issues'[i].fingerprint = alertRun[p].saw
           /\ ~Notifies(issues[i], alertRun[p].saw)
                => /\ issues[i].fingerprint = alertRun[p].saw
                   /\ issues'[i].notified = issues[i].notified
                   /\ ticks - issues[i].notified <= RemindAfter
<1>. DEFINE i == alertRun[p].issue
           n == NotifiedAt(issues[i], Notifies(issues[i], alertRun[p].saw))
           r == Edited(p)
<1>1. /\ i \in DOMAIN issues /\ Of(p, i)
      /\ \A j \in DOMAIN issues : OpenFor(p, j) => j = i
  BY DEF AlertsInv, ProblemInv, IssueIsHeld
<1>2. issues[i] \in IssueRecords /\ ticks \in Nat
  BY <1>1, IssueNumbers DEF AlertsInv, AlertTypes
<1>3. issues[i].notified \in Nat /\ issues[i].notified <= ticks /\ issues[i].open \in BOOLEAN
  BY <1>1, <1>2 DEF AlertsInv, ProblemInv, NoticesArePast, IssueRecords
<1>4. n \in Nat /\ n <= ticks
  <2>1. n = ticks \/ n = issues[i].notified
    BY DEF NotifiedAt
  <2>. HIDE DEF n
  <2>. QED BY <1>2, <1>3, <2>1
<1>5. r = [Compose(p, n) EXCEPT !.open = issues[i].open]
  BY DEF Edited
<1>6. ~Notifies(issues[i], alertRun[p].saw)
        => /\ issues[i].fingerprint = alertRun[p].saw
           /\ n = issues[i].notified
           /\ ticks - issues[i].notified <= RemindAfter
  <2>1. SUFFICES ASSUME ~Notifies(issues[i], alertRun[p].saw)
                 PROVE  /\ issues[i].fingerprint = alertRun[p].saw
                        /\ n = issues[i].notified
                        /\ ticks - issues[i].notified <= RemindAfter
    OBVIOUS
  <2>2. /\ issues[i].fingerprint = alertRun[p].saw
        /\ ~(ticks - issues[i].notified > RemindAfter)
    BY <2>1 DEF Notifies
  <2>3. n = issues[i].notified
    BY <2>1 DEF NotifiedAt
  <2>4. ticks - issues[i].notified <= RemindAfter
    <3>. HIDE DEF n, i, r
    <3>. QED BY <1>2, <1>3, <2>2, AlertConstants
  <2>. QED BY <2>2, <2>3, <2>4
<1>. HIDE DEF n, i
<1>7. /\ r \in IssueRecords /\ r.key = p /\ r.open = issues[i].open
      /\ r.fingerprint = alertRun[p].saw /\ r.notified = n
  BY <1>3, <1>4, <1>5, ComposedIssue
<1>8. issues' = [issues EXCEPT ![i] = r]
  BY DEF i
<1>. HIDE DEF r
<1>9. IssuesMove(p) /\ DOMAIN issues' = DOMAIN issues
  <2>1. i \in DOMAIN issues /\ Of(p, i)
    BY <1>1
  <2>2. r \in IssueRecords /\ r.key = p
    BY <1>7
  <2>3. ASSUME NEW j \in DOMAIN issues, Of(p, j), issues' = [issues EXCEPT ![j] = r]
        PROVE  IssuesMove(p) /\ DOMAIN issues' = DOMAIN issues
    BY <2>2, <2>3, IssueIsRewritten
  <2>. QED BY <1>8, <2>1, <2>3
<1>10. issues'[i] = r /\ \A j \in DOMAIN issues : j # i => issues'[j] = issues[j]
  BY <1>1, <1>8 DEF AlertsInv, AlertTypes
<1>11. \A j \in DOMAIN issues' : OpenFor(p, j)' => OpenFor(p, j)
  BY <1>1, <1>7, <1>9, <1>10 DEF OpenFor, Of
<1>12. OneOpen(p)' /\ \A j \in DOMAIN issues' : OpenFor(p, j)' => j = i
  BY <1>1, <1>9, <1>11 DEF OneOpen
<1>13. NoticesArePast(p)'
  BY <1>4, <1>7, <1>9, <1>10 DEF AlertsInv, ProblemInv, NoticesArePast, Of
<1>14. issues'[i].key = p
  BY <1>7, <1>10
<1>. QED BY <1>1, <1>6, <1>7, <1>9, <1>10, <1>12, <1>13, <1>14 DEF i

LEMMA EditMoves ==
    ASSUME AlertsInv, NEW p \in Problems, EditIssue(p)
    PROVE  AlertsInv'
<1>. DEFINE i == alertRun[p].issue
           notify == Notifies(issues[i], alertRun[p].saw)
<1>1. /\ alertRun[p].at = "edit"
      /\ issues' = [issues EXCEPT ![i] = Edited(p)]
      /\ UNCHANGED <<world, ticks, told, cutShort>>
  BY DEF EditIssue, At, Edited
<1>2. /\ IssuesMove(p) /\ OneOpen(p)' /\ NoticesArePast(p)'
      /\ i \in DOMAIN issues' /\ issues'[i].key = p
      /\ \A j \in DOMAIN issues' : OpenFor(p, j)' => j = i
      /\ issues'[i].fingerprint = alertRun[p].saw
      /\ ~notify => /\ issues[i].fingerprint = alertRun[p].saw
                    /\ issues'[i].notified = issues[i].notified
                    /\ ticks - issues[i].notified <= RemindAfter
  BY <1>1, IssueIsEdited
<1>3. i \in DOMAIN issues
  BY <1>1 DEF AlertsInv, ProblemInv, IssueIsHeld
<1>4. CASE notify
  <2>1. /\ alertRun' = [alertRun EXCEPT ![p] = [alertRun[p] EXCEPT !.at = "comment"]]
        /\ UNCHANGED verdictOf
    BY <1>4 DEF EditIssue, Go
  <2>2. "comment" \in AlertPlaces
    BY DEF AlertPlaces
  <2>3. RunMoves(p)
    BY <1>1, <2>1, <2>2, RunRecords DEF RunMoves, AlertsInv
  <2>4. /\ alertRun'[p].at = "comment" /\ alertRun'[p].issue = i
        /\ alertRun'[p].saw = alertRun[p].saw
    BY <2>1, <2>2, RunRecords DEF AlertsInv, AlertTypes
  <2>. HIDE DEF i, notify
  <2>5. IssueIsHeld(p)'
    BY <1>2, <2>4 DEF IssueIsHeld, Of
  <2>6. IssueIsTold(p)'
    BY <2>4 DEF IssueIsTold
  <2>7. VerdictIsTold(p)'
    BY <1>1, <2>1, <2>4 DEF AlertsInv, ProblemInv, VerdictIsTold
  <2>. QED BY <1>2, <2>3, <2>5, <2>6, <2>7, OneRunMoves, OnlyOneProblemMoves DEF ProblemInv
<1>5. CASE ~notify
  <2>1. Ended(p, "updated") /\ "updated" \in Ends
    BY <1>5 DEF EditIssue, Ends
  <2>2. RunMoves(p)
    <3>1. \E r \in AlertRuns : alertRun' = [alertRun EXCEPT ![p] = r]
      BY <2>1, EndOfRun, RunRecords DEF AlertsInv
    <3>2. \E v \in RunVerdicts : verdictOf' = [verdictOf EXCEPT ![p] = v]
      <4>1. verdictOf' = [verdictOf EXCEPT ![p] = [saw |-> alertRun[p].saw, when |-> ticks, how |-> "updated"]]
        BY <2>1 DEF Ended
      <4>2. [saw |-> alertRun[p].saw, when |-> ticks, how |-> "updated"] \in RunVerdicts
        BY <2>1, EndOfRun
      <4>. QED BY <4>1, <4>2
    <3>. QED BY <1>1, <3>1, <3>2 DEF RunMoves
  <2>3. /\ alertRun'[p].at = "idle"
        /\ verdictOf'[p].saw = alertRun[p].saw /\ verdictOf'[p].when = ticks
    BY <2>1, EndOfRun
  <2>4. issues[i] \in IssueRecords /\ told[p] \in Notices /\ ticks \in Nat
    BY <1>3, IssueNumbers DEF AlertsInv, AlertTypes
  <2>5. ~cutShort[p] => /\ told[p].what \in {alertRun[p].saw, Red}
                        /\ issues[i].notified <= told[p].when
    BY <1>1, <1>2, <1>3, <1>5 DEF AlertsInv, ProblemInv, IssueIsTold, Matters
  <2>. HIDE DEF i, notify
  <2>6. IssueIsHeld(p)'
    BY <2>3 DEF IssueIsHeld
  <2>7. IssueIsTold(p)'
    <3>1. \A j \in DOMAIN issues' : Matters(p, j)' => j = i
      BY <1>2, <2>3 DEF Matters
    <3>. QED BY <1>1, <1>2, <1>5, <2>5, <3>1 DEF IssueIsTold
  <2>8. VerdictIsTold(p)'
    <3>1. ~cutShort[p] => ticks - told[p].when <= RemindAfter
      <4>1. issues[i].notified \in Nat /\ told[p].when \in Nat
        BY <2>4 DEF IssueRecords, Notices
      <4>. QED BY <1>2, <1>5, <2>4, <2>5, <4>1, AlertConstants
    <3>. QED BY <1>1, <2>3, <2>5, <3>1 DEF VerdictIsTold
  <2>. QED BY <1>2, <2>2, <2>6, <2>7, <2>8, OneRunMoves, OnlyOneProblemMoves DEF ProblemInv
<1>. QED BY <1>4, <1>5

LEMMA FaultMoves ==
    ASSUME AlertsInv, NEW p \in Problems, RequestFails(p)
    PROVE  AlertsInv'
<1>1. PICK reached \in BOOLEAN :
        issues' = IF reached /\ At(p, "open") THEN Append(issues, Compose(p, ticks))
                  ELSE IF reached /\ At(p, "edit")
                  THEN [issues EXCEPT ![alertRun[p].issue] = Edited(p)]
                  ELSE IF reached /\ At(p, "close")
                  THEN [issues EXCEPT ![alertRun[p].issue].open = FALSE]
                  ELSE issues
  BY DEF RequestFails, Edited
<1>2. /\ Tell(p, Red) /\ Ended(p, "red")
      /\ UNCHANGED <<world, ticks, cutShort>>
      /\ "red" \in Ends /\ Red \in Found \cup {Red}
  BY DEF RequestFails, Ends
<1>3. RunMoves(p)
  <2>1. \E r \in AlertRuns : alertRun' = [alertRun EXCEPT ![p] = r]
    BY <1>2, EndOfRun, RunRecords DEF AlertsInv
  <2>2. \E v \in RunVerdicts : verdictOf' = [verdictOf EXCEPT ![p] = v]
    <3>1. verdictOf' = [verdictOf EXCEPT ![p] = [saw |-> alertRun[p].saw, when |-> ticks, how |-> "red"]]
      BY <1>2 DEF Ended
    <3>2. [saw |-> alertRun[p].saw, when |-> ticks, how |-> "red"] \in RunVerdicts
      BY <1>2, EndOfRun
    <3>. QED BY <3>1, <3>2
  <2>3. \E n \in Notices : told' = [told EXCEPT ![p] = n]
    BY <1>2, NoticeOf
  <2>. QED BY <1>2, <2>1, <2>2, <2>3 DEF RunMoves
<1>4. /\ alertRun'[p].at = "idle" /\ verdictOf'[p].when = ticks
      /\ told'[p].what = Red /\ told'[p].when = ticks
  BY <1>2, EndOfRun, NoticeOf
<1>5. IssuesMove(p) /\ OneOpen(p)' /\ NoticesArePast(p)'
  <2>1. CASE issues' = issues
    <3>1. OneOpen(p)' /\ NoticesArePast(p)'
      BY <1>2, <2>1 DEF AlertsInv, ProblemInv, OneOpen, OpenFor, Of, NoticesArePast
    <3>. QED BY <2>1, <3>1, SameIssues DEF AlertsInv
  <2>2. CASE At(p, "open") /\ issues' = Append(issues, Compose(p, ticks))
    BY <1>2, <2>2, IssueIsOpened DEF At
  <2>3. CASE At(p, "edit") /\ issues' = [issues EXCEPT ![alertRun[p].issue] = Edited(p)]
    BY <1>2, <2>3, IssueIsEdited DEF At
  <2>4. CASE At(p, "close") /\ issues' = [issues EXCEPT ![alertRun[p].issue].open = FALSE]
    BY <1>2, <2>4, IssueIsClosed DEF At
  <2>. QED BY <1>1, <2>1, <2>2, <2>3, <2>4
<1>6. IssueIsHeld(p)'
  BY <1>4 DEF IssueIsHeld
<1>7. IssueIsTold(p)' /\ VerdictIsTold(p)'
  BY <1>2, <1>4, <1>5, <1>6, ToldJustNow DEF AlertsInv
<1>. QED BY <1>3, <1>5, <1>6, <1>7, OneRunMoves, OnlyOneProblemMoves DEF ProblemInv

LEMMA ReplacedMoves ==
    ASSUME AlertsInv, Replaced
    PROVE  AlertsInv'
<1>. DEFINE p == "health"
<1>1. /\ alertRun' = [alertRun EXCEPT ![p] = IdleRun]
      /\ cutShort' = [cutShort EXCEPT
           ![p] = cutShort[p] \/ alertRun[p].at = "comment" \/ alertRun[p].at = "close"]
      /\ UNCHANGED <<world, issues, ticks, told, verdictOf>>
      /\ p \in Problems
  BY DEF Replaced, At, Problems
<1>. HIDE DEF p
<1>2. RunMoves(p)
  BY <1>1, RunRecords DEF RunMoves, AlertsInv
<1>3. IssuesMove(p)
  BY <1>1, SameIssues DEF AlertsInv
<1>4. /\ alertRun'[p].at = "idle"
      /\ ~cutShort'[p] => ~cutShort[p] /\ alertRun[p].at \notin {"comment", "close"}
  BY <1>1, RunRecords DEF AlertsInv, AlertTypes
<1>5. OneOpen(p)' /\ NoticesArePast(p)'
  BY <1>1 DEF AlertsInv, ProblemInv, OneOpen, OpenFor, Of, NoticesArePast
<1>6. IssueIsHeld(p)'
  BY <1>4 DEF IssueIsHeld
<1>7. IssueIsTold(p)'
  <2>1. \A i \in DOMAIN issues' : Matters(p, i)' => Matters(p, i)
    BY <1>1, <1>4 DEF Matters, OpenFor
  <2>. QED BY <1>1, <1>4, <2>1 DEF AlertsInv, ProblemInv, IssueIsTold
<1>8. VerdictIsTold(p)'
  BY <1>1, <1>4 DEF AlertsInv, ProblemInv, VerdictIsTold
<1>. QED BY <1>1, <1>2, <1>3, <1>5, <1>6, <1>7, <1>8, OneRunMoves, OnlyOneProblemMoves DEF ProblemInv

(* For any number of changes, faults, replaced runs and issues closed by hand: a
   problem has at most one open issue, and a run that ended by itself and saw
   trouble left the owner told of it, or of a red run, within the reminder's time,
   unless a run was cancelled between its two requests. *)
THEOREM OwnersHear == AlertsSpec => []AlertsReachTheOwner
<1>1. AlertsInit => AlertsInv
  BY AlertsStart
<1>2. AlertsInv /\ [AlertsNext]_alertVars => AlertsInv'
  <2> SUFFICES ASSUME AlertsInv, [AlertsNext]_alertVars PROVE AlertsInv'
    OBVIOUS
  <2>1. CASE UNCHANGED alertVars
    <3>1. AlertTypes'
      BY <2>1 DEF alertVars, AlertsInv, AlertTypes
    <3>2. \A p \in Problems : LeavesProblem(p)
      BY <2>1 DEF alertVars, LeavesProblem, LeavesIssue, AlertsInv, AlertTypes
    <3>. QED BY <3>1, <3>2, ProblemStays DEF AlertsInv
  <2>2. CASE AlertsNext
    BY <2>2, WorldMoves, LookMoves, FindIssueMoves, LabelMoves, OpenMoves, EditMoves, CommentMoves,
       ResolvedMoves, CloseMoves, FaultMoves, ReplacedMoves, OwnerMoves DEF AlertsNext
  <2>. QED BY <2>1, <2>2
<1>3. AlertsInv => AlertsReachTheOwner
  <2> SUFFICES ASSUME AlertsInv PROVE OneIssuePerProblem /\ OwnerWasTold
    BY DEF AlertsReachTheOwner
  <2>1. OneIssuePerProblem
    <3>1. \A i \in DOMAIN issues : issues[i].key \in Problems
      BY IssueNumbers DEF AlertsInv, IssueRecords
    <3>. QED BY <3>1 DEF OneIssuePerProblem, AlertsInv, ProblemInv, OneOpen, OpenFor
  <2>2. OwnerWasTold
    BY DEF OwnerWasTold, At, AlertsInv, ProblemInv, VerdictIsTold
  <2>. QED BY <2>1, <2>2
<1>. QED BY <1>1, <1>2, <1>3, PTL DEF AlertsSpec

(***************************************************************************)
(* The preflight.  A verdict is about the environment it was given for as  *)
(* long as no line changes.                                                *)
(***************************************************************************)
PreflightInv ==
    /\ ready \in [verdict : {"none", "READY", "NOT READY"},
                  calendar : {"on", "partial", "off"}, fresh : BOOLEAN]
    /\ ready.fresh => /\ ready.verdict = "READY" => Ready
                      /\ ready.calendar = CalendarState

LEMMA ReadyIsEnough ==
    ASSUME Ready
    PROVE  /\ WorkerStarts /\ (Production => ~Fixtures)
           /\ CalendarState = "on" <=> HasGoogleCalendarConfig
<1>1. \A v \in EnvCatalog : Row(v) # "malformed" /\ (v \in Required => Row(v) # "missing")
  BY DEF Ready
<1>2. ASSUME NEW v \in EnvCatalog, ~Missing(v) PROVE ~Problem(v) /\ Row(v) = "set"
  BY <1>1, <1>2 DEF Row
<1>3. ASSUME NEW v \in BlankIsFatal PROVE Env(v) \notin {Blank, Bad}
  <2>1. v \in EnvCatalog
    BY DEF BlankIsFatal, EnvCatalog, Required, OptionalInGroup, Tuning
  <2>2. Env(v) # Blank
    BY <1>1, <2>1 DEF Row, Missing
  <2>3. Env(v) # Bad
    <3>1. Env(v) = Bad => ~Missing(v)
      BY DEF Missing, Bad, Unset, Blank
    <3>. QED BY <1>2, <2>1, <3>1 DEF Problem
  <2>. QED BY <2>2, <2>3
<1>4. Env("REDDIT_API_ENABLED") = "true" => ~Missing("REDDIT_CLIENT_ID")
  <2>1. "REDDIT_API_ENABLED" \in EnvCatalog
    BY DEF EnvCatalog, OptionalInGroup
  <2>2. Env("REDDIT_API_ENABLED") = "true" => ~Missing("REDDIT_API_ENABLED")
    BY DEF Missing, Unset, Blank
  <2>. QED BY <1>2, <2>1, <2>2 DEF Problem
<1>5. Env("FIRSTSEEN_ENV") = "production" => /\ ~Missing("AGENT_API_BEARER_TOKEN")
                                             /\ Env("ALLOW_UNAUTHENTICATED_AGENT_DEV") # "true"
  <2>. SUFFICES ASSUME Env("FIRSTSEEN_ENV") = "production"
                PROVE  /\ ~Missing("AGENT_API_BEARER_TOKEN")
                       /\ Env("ALLOW_UNAUTHENTICATED_AGENT_DEV") # "true"
    OBVIOUS
  <2>1. Production
    BY DEF Production
  <2>2. ~Missing("AGENT_API_BEARER_TOKEN")
    <3>1. "AGENT_API_BEARER_TOKEN" \in Required /\ "AGENT_API_BEARER_TOKEN" \in EnvCatalog
      BY DEF Required, EnvCatalog
    <3>2. Missing("AGENT_API_BEARER_TOKEN") => Row("AGENT_API_BEARER_TOKEN") \in {"malformed", "missing"}
      BY DEF Row, BlankIsFatal, MustBeAbsentInProduction, DevelopmentDefault, RequiredInProduction
    <3>. QED BY <1>1, <3>1, <3>2
  <2>3. Env("ALLOW_UNAUTHENTICATED_AGENT_DEV") # "true"
    <3>1. "ALLOW_UNAUTHENTICATED_AGENT_DEV" \in EnvCatalog
      BY DEF EnvCatalog, Tuning
    <3>2. Env("ALLOW_UNAUTHENTICATED_AGENT_DEV") = "true" => ~Missing("ALLOW_UNAUTHENTICATED_AGENT_DEV")
      BY DEF Missing, Unset, Blank
    <3>. QED BY <1>2, <2>1, <3>1, <3>2 DEF Problem
  <2>. QED BY <2>2, <2>3
<1>6. Production => ~Fixtures
  <2>1. "FIRSTSEEN_DEMO_MODE" \in EnvCatalog
    BY DEF EnvCatalog, Required
  <2>2. Env("FIRSTSEEN_DEMO_MODE") = "true" => ~Missing("FIRSTSEEN_DEMO_MODE")
    BY DEF Missing, Unset, Blank
  <2>. QED BY <1>2, <2>1, <2>2 DEF Problem, Fixtures
<1>7. CalendarState = "on" <=> HasGoogleCalendarConfig
  <2>1. \A v \in Calendar : Row(v) = "set" <=> ~Missing(v)
    <3>1. \A v \in Calendar : v \in EnvCatalog
      BY DEF EnvCatalog
    <3>2. \A v \in Calendar : Missing(v) => Row(v) # "set"
      BY DEF Row
    <3>. QED BY <1>2, <3>1, <3>2
  <2>. QED BY <2>1 DEF CalendarState, HasGoogleCalendarConfig
<1>. QED BY <1>3, <1>4, <1>5, <1>6, <1>7 DEF WorkerStarts

(* After any number of changed lines: an environment called READY starts the worker,
   shows no fixture under production's rules, and has the calendar that was
   printed. *)
THEOREM PreflightsAreRight == PreflightSpec => []PreflightIsRight
<1>1. PreflightInit => PreflightInv
  BY DEF PreflightInit, PreflightInv
<1>2. PreflightInv /\ [PreflightNext]_preflightVars => PreflightInv'
  <2> SUFFICES ASSUME PreflightInv, [PreflightNext]_preflightVars PROVE PreflightInv'
    OBVIOUS
  <2>1. CASE EditLine
    <3>1. ready' = [ready EXCEPT !.fresh = FALSE]
      BY <2>1 DEF EditLine
    <3>2. ready' \in [verdict : {"none", "READY", "NOT READY"},
                      calendar : {"on", "partial", "off"}, fresh : BOOLEAN]
          /\ ready'.fresh = FALSE
      BY <3>1 DEF PreflightInv
    <3>. QED BY <3>2 DEF PreflightInv
  <2>2. CASE RunPreflight
    <3>1. /\ ready'.verdict = "READY" => Ready'
          /\ ready'.calendar = CalendarState'
      BY <2>2 DEF RunPreflight
    <3>2. ready' \in [verdict : {"none", "READY", "NOT READY"},
                      calendar : {"on", "partial", "off"}, fresh : BOOLEAN]
      <4>1. CalendarState' \in {"on", "partial", "off"}
        BY DEF CalendarState
      <4>. QED BY <2>2, <4>1 DEF RunPreflight
    <3>. QED BY <3>1, <3>2 DEF PreflightInv
  <2>3. CASE UNCHANGED preflightVars
    <3>1. UNCHANGED <<file, exported, flag, ready>>
      BY <2>3 DEF preflightVars
    <3>2. Ready' <=> Ready
      BY <3>1 DEF Ready, Row, Problem, Missing, Env, Production
    <3>3. CalendarState' = CalendarState
      BY <3>1 DEF CalendarState, Row, Problem, Missing, Env, Production
    <3>. QED BY <3>1, <3>2, <3>3 DEF PreflightInv
  <2>. QED BY <2>1, <2>2, <2>3 DEF PreflightNext
<1>3. PreflightInv => PreflightIsRight
  BY ReadyIsEnough DEF PreflightInv, PreflightIsRight, ReadyStarts, OnIsServed
<1>. QED BY <1>1, <1>2, <1>3, PTL DEF PreflightSpec

(***************************************************************************)
(* The access contract.  AsMigrated says what the migrations applied so    *)
(* far have made of the grants, as long as nothing was changed by hand.    *)
(***************************************************************************)
AnyTable == ALL_TABLES \cup {NewTable}

Verdicts == [verdict : {"none", "green", "not ready"}, fresh : BOOLEAN]

Surfaces == [pinned : BOOLEAN, fixtures : BOOLEAN, rest : BOOLEAN, sql : {"set", "unset", "bad"},
             rows : {"few", "many"}, cap : BOOLEAN]

GrantTypes ==
    /\ grants \subseteq [to : Grantees, on : AnyTable, what : Privileges]
    /\ defaults \subseteq [to : Roles, what : TablePrivileges]
    /\ tables \in SUBSET AnyTable
    /\ policies \in [AnyTable -> SUBSET {"auth.uid()", "true"}]
    /\ "service_role" \in callers
    /\ applied \in 0..3
    /\ surface \in Surfaces
    /\ checked \in Verdicts
    /\ drifts \in Nat

Green == checked = [verdict |-> "green", fresh |-> TRUE]

AuthenticatedAsMigrated(g) ==
    /\ g.on \in AUTHENTICATED_READS
    /\ applied >= 2 => g.what = Reads \/ <<g.on, g.what>> \in AUTHENTICATED_WRITES

AsMigrated ==
    /\ secured = ALL_TABLES
    /\ \A t \in SERVICE_ONLY_TABLES : policies[t] = {}
    /\ callers = {"service_role"} /\ surface.pinned /\ ~surface.fixtures
    /\ \A g \in grants : /\ g.to # "PUBLIC"
                         /\ g.to = "anon" => applied = 0 /\ g.on \in REFERENCE_TABLES
                                                         /\ g.what \in TablePrivileges
                         /\ g.to = "authenticated" => AuthenticatedAsMigrated(g)
    /\ applied >= 2 => \A w \in AUTHENTICATED_WRITES : Grant("authenticated", w[1], w[2]) \in grants
    /\ applied = 3 => /\ \A t \in ALL_TABLES, p \in TablePrivileges : Grant("service_role", t, p) \in grants
                      /\ \A t \in AUTHENTICATED_READS : Grant("authenticated", t, Reads) \in grants

GrantsInv ==
    /\ GrantTypes
    /\ Green => SqlChecks
    /\ drifts = 0 /\ tables = ALL_TABLES => AsMigrated

LEMMA Distinct ==
    /\ Reads # Writes /\ Reads # ColumnWrites /\ Writes # ColumnWrites
    /\ NewTable \notin ALL_TABLES
    /\ REFERENCE_TABLES \subseteq ALL_TABLES /\ USER_OWNED_TABLES \subseteq ALL_TABLES
    /\ SERVICE_ONLY_TABLES \subseteq ALL_TABLES
    /\ AUTHENTICATED_READS = ALL_TABLES \ SERVICE_ONLY_TABLES
    /\ TablePrivileges = {Reads, Writes} /\ Privileges = {Reads, Writes, ColumnWrites}
    /\ \A w \in AUTHENTICATED_WRITES : /\ w = <<w[1], w[2]>> /\ w[1] \in USER_OWNED_TABLES
                                       /\ w[2] \in {Writes, ColumnWrites}
    /\ Len(Migrations) = 3
BY DEF Reads, Writes, ColumnWrites, NewTable, ALL_TABLES, REFERENCE_TABLES, USER_OWNED_TABLES,
   SERVICE_ONLY_TABLES, AUTHENTICATED_READS, TablePrivileges, Privileges, AUTHENTICATED_WRITES, Migrations

\* What a green check found is the contract, and what it found of the defaults closes the next table.
LEMMA ChecksAreTheContract ==
    ASSUME GrantTypes, SqlChecks
    PROVE  /\ Contract
           /\ \A g \in CreatedWith(NewTable) : g.to # "anon" /\ (g.to = "authenticated" => g.what = Reads)
<1>1. \A t \in tables, p \in TablePrivileges : ~Holds("anon", t, p)
  BY DEF SqlChecks, CheckGrants
<1>2. \A t \in tables, p \in TablePrivileges : Holds("service_role", t, p)
  BY DEF SqlChecks, CheckApiRoleGrants, ApiRoleGrantViolations
<1>3. ALL_TABLES \subseteq tables /\ ALL_TABLES \subseteq secured
  BY DEF SqlChecks, CheckTables, CheckRowLevelSecurity
<1>4. \A t \in tables : Holds("authenticated", t, Reads) <=> t \in AUTHENTICATED_READS
  <2>1. \A t \in tables : Holds("authenticated", t, Reads) => t \in AUTHENTICATED_READS
    BY DEF SqlChecks, CheckApiRoleGrants, ApiRoleGrantViolations
  <2>2. \A t \in AUTHENTICATED_READS : Holds("authenticated", t, Reads)
    BY DEF SqlChecks, CheckApiRoleGrants, ApiRoleGrantViolations
  <2>. QED BY <2>1, <2>2
<1>5. \A t \in tables, p \in {Writes, ColumnWrites} :
        Holds("authenticated", t, p) <=> <<t, p>> \in AUTHENTICATED_WRITES
  <2>1. AuthenticatedWrites = AUTHENTICATED_WRITES
    BY DEF SqlChecks, CheckAuthenticatedWrites, AuthenticatedWriteViolations
  <2>2. ASSUME NEW t \in tables, NEW p \in {Writes, ColumnWrites}
        PROVE  <<t, p>> \in AuthenticatedWrites <=> Holds("authenticated", t, p)
    BY DEF AuthenticatedWrites
  <2>. QED BY <2>1, <2>2
<1>6. \A t \in SERVICE_ONLY_TABLES : policies[t] = {}
  BY DEF SqlChecks, CheckUserPolicies
<1>7. callers = {"service_role"} /\ surface.pinned /\ ~surface.fixtures
  BY DEF SqlChecks, CheckFunctionGrants, CheckDefinerFunctions, CheckNoFixtureRows, GrantTypes
<1>8. ASSUME NEW d \in defaults PROVE d.to # "anon" /\ (d.to = "authenticated" => d.what = Reads)
  <2>1. d \notin BrowserDefaultPrivileges
    BY DEF SqlChecks, CheckAuthenticatedWrites
  <2>2. d.what \in {Reads, Writes}
    BY Distinct DEF GrantTypes
  <2>. QED BY <2>1, <2>2 DEF BrowserDefaultPrivileges
<1>9. \A g \in CreatedWith(NewTable) : g.to # "anon" /\ (g.to = "authenticated" => g.what = Reads)
  BY <1>8 DEF CreatedWith, Grant
<1>. QED BY <1>1, <1>2, <1>3, <1>4, <1>5, <1>6, <1>7, <1>9 DEF Contract

LEMMA MigratedIsTheContract ==
    ASSUME GrantTypes, AsMigrated, applied = 3, tables = ALL_TABLES
    PROVE  Contract
<1>1. ASSUME NEW role \in Roles, NEW t, NEW p
      PROVE  Holds(role, t, p) <=> Grant(role, t, p) \in grants
  BY DEF Holds, Grant, AsMigrated
<1>2. "anon" \in Roles /\ "authenticated" \in Roles /\ "service_role" \in Roles
  BY DEF Roles
<1>3. \A t \in tables, p \in TablePrivileges : ~Holds("anon", t, p) /\ Holds("service_role", t, p)
  <2>1. ASSUME NEW t, NEW p, Grant("anon", t, p) \in grants PROVE FALSE
    <3>1. Grant("anon", t, p).to = "anon"
      BY DEF Grant
    <3>2. applied = 0
      BY <2>1, <3>1 DEF AsMigrated
    <3>. QED BY <3>2
  <2>2. \A t \in ALL_TABLES, p \in TablePrivileges : Grant("service_role", t, p) \in grants
    BY DEF AsMigrated
  <2>. QED BY <1>1, <1>2, <2>1, <2>2
<1>4. ASSUME NEW t, NEW p, Grant("authenticated", t, p) \in grants
      PROVE  t \in AUTHENTICATED_READS /\ (p = Reads \/ <<t, p>> \in AUTHENTICATED_WRITES)
  BY <1>4 DEF AsMigrated, AuthenticatedAsMigrated, Grant
<1>5. \A t \in tables : Holds("authenticated", t, Reads) <=> t \in AUTHENTICATED_READS
  BY <1>1, <1>2, <1>4 DEF AsMigrated
<1>6. \A t \in tables, p \in {Writes, ColumnWrites} :
        Holds("authenticated", t, p) <=> <<t, p>> \in AUTHENTICATED_WRITES
  <2>1. ASSUME NEW t \in tables, NEW p \in {Writes, ColumnWrites}, Holds("authenticated", t, p)
        PROVE  <<t, p>> \in AUTHENTICATED_WRITES
    BY <1>1, <1>2, <1>4, <2>1, Distinct
  <2>2. ASSUME NEW t, NEW p, <<t, p>> \in AUTHENTICATED_WRITES
        PROVE  Holds("authenticated", t, p)
    <3>1. Grant("authenticated", t, p) \in grants
      <4>1. \A w \in AUTHENTICATED_WRITES : Grant("authenticated", w[1], w[2]) \in grants
        BY DEF AsMigrated
      <4>2. Grant("authenticated", <<t, p>>[1], <<t, p>>[2]) \in grants
        BY <2>2, <4>1
      <4>. QED BY <4>2
    <3>. QED BY <1>1, <1>2, <3>1
  <2>. QED BY <2>1, <2>2
<1>. QED BY <1>3, <1>5, <1>6 DEF AsMigrated, Contract

LEMMA GrantsStart == ASSUME GrantsInit PROVE GrantsInv
<1>1. grants \subseteq [to : Roles, on : ALL_TABLES, what : TablePrivileges]
      /\ \A g \in grants : /\ g.on \in SERVICE_ONLY_TABLES => g.to = "service_role"
                           /\ g.on \in USER_OWNED_TABLES => g.to # "anon"
  BY DEF GrantsInit, LeftByEarlierMigrations
<1>2. GrantTypes
  <2>1. grants \subseteq [to : Grantees, on : AnyTable, what : Privileges]
    BY <1>1, Distinct DEF Grantees, AnyTable
  <2>2. defaults \subseteq [to : Roles, what : TablePrivileges]
    BY DEF GrantsInit, Default
  <2>3. policies \in [AnyTable -> SUBSET {"auth.uid()", "true"}]
    BY DEF GrantsInit, AnyTable
  <2>. QED BY <2>1, <2>2, <2>3 DEF GrantsInit, GrantTypes, AnyTable, Surfaces, Verdicts
<1>3. ~Green
  BY DEF GrantsInit, Green
<1>4. AsMigrated
  <2>1. \A t \in SERVICE_ONLY_TABLES : policies[t] = {}
    BY DEF GrantsInit, SERVICE_ONLY_TABLES, REFERENCE_TABLES, USER_OWNED_TABLES, ALL_TABLES
  <2>2. ASSUME NEW g \in grants
        PROVE  /\ g.to # "PUBLIC"
               /\ g.to = "anon" => g.on \in REFERENCE_TABLES /\ g.what \in TablePrivileges
               /\ g.to = "authenticated" => g.on \in AUTHENTICATED_READS
    <3>1. g.to \in Roles /\ g.on \in ALL_TABLES /\ g.what \in TablePrivileges
      BY <1>1
    <3>. QED BY <1>1, <3>1, Distinct DEF Roles, ALL_TABLES
  <2>3. applied = 0 /\ secured = ALL_TABLES /\ callers = {"service_role"}
        /\ surface.pinned /\ ~surface.fixtures
    BY DEF GrantsInit
  <2>. QED BY <2>1, <2>2, <2>3 DEF AsMigrated, AuthenticatedAsMigrated
<1>. QED BY <1>2, <1>3, <1>4 DEF GrantsInv

\* Every change makes the last verdict stale.
LEMMA StaleIsNotGreen ==
    ASSUME GrantTypes, Stale
    PROVE  checked' \in Verdicts /\ ~Green'
<1>1. checked' \in Verdicts /\ checked'.fresh = FALSE
  BY DEF GrantTypes, Stale, Verdicts
<1>. QED BY <1>1 DEF Green

\* A change by hand: the types stay, the verdict is stale, and the migrations no longer vouch.
LEMMA HandMoves ==
    ASSUME GrantsInv, GrantByHand \/ AlterDefaults \/ AlterTable \/ AlterFunctions \/ SurfaceChanges
    PROVE  GrantsInv'
<1>1. drifts' = drifts + 1 /\ drifts \in Nat /\ Stale
  BY DEF GrantByHand, AlterDefaults, AlterTable, AlterFunctions, SurfaceChanges, ByHand, GrantsInv,
     GrantTypes
<1>2. drifts' \in Nat /\ drifts' # 0 /\ checked' \in Verdicts /\ ~Green'
  BY <1>1, StaleIsNotGreen DEF GrantsInv
<1>3. GrantTypes'
  <2>1. CASE GrantByHand
    <3>1. PICK g \in [to : Grantees, on : tables, what : Privileges] :
            grants' = grants \cup {g} \/ grants' = grants \ {g}
      BY <2>1 DEF GrantByHand
    <3>2. g \in [to : Grantees, on : AnyTable, what : Privileges]
      BY DEF GrantsInv, GrantTypes
    <3>3. grants' \subseteq [to : Grantees, on : AnyTable, what : Privileges]
      BY <3>1, <3>2 DEF GrantsInv, GrantTypes
    <3>. QED BY <1>2, <2>1, <3>3 DEF GrantByHand, GrantsInv, GrantTypes
  <2>2. CASE AlterDefaults
    <3>1. PICK d \in [to : Roles, what : TablePrivileges] : defaults' = (defaults \ {d}) \cup ({d} \ defaults)
      BY <2>2 DEF AlterDefaults
    <3>2. defaults' \subseteq [to : Roles, what : TablePrivileges]
      BY <3>1 DEF GrantsInv, GrantTypes
    <3>. QED BY <1>2, <2>2, <3>2 DEF AlterDefaults, GrantsInv, GrantTypes
  <2>3. CASE AlterTable
    <3>1. PICK t \in tables :
            policies' = policies \/ \E p \in {"auth.uid()", "true"} :
                                      policies' = [policies EXCEPT ![t] = (@ \ {p}) \cup ({p} \ @)]
      BY <2>3 DEF AlterTable
    <3>2. t \in AnyTable
      BY DEF GrantsInv, GrantTypes
    <3>3. policies' \in [AnyTable -> SUBSET {"auth.uid()", "true"}]
      BY <3>1, <3>2 DEF GrantsInv, GrantTypes
    <3>. QED BY <1>2, <2>3, <3>3 DEF AlterTable, GrantsInv, GrantTypes
  <2>4. CASE AlterFunctions
    <3>1. "service_role" \in callers' /\ surface' \in Surfaces
      BY <2>4 DEF AlterFunctions, GrantsInv, GrantTypes, Surfaces
    <3>. QED BY <1>2, <2>4, <3>1 DEF AlterFunctions, GrantsInv, GrantTypes
  <2>5. CASE SurfaceChanges
    <3>1. PICK s \in [fixtures : BOOLEAN, rest : BOOLEAN, sql : {"set", "unset", "bad"},
                      rows : {"few", "many"}, cap : BOOLEAN] :
            surface' = [surface EXCEPT !.fixtures = s.fixtures, !.rest = s.rest, !.sql = s.sql,
                                       !.rows = s.rows, !.cap = s.cap]
      BY <2>5 DEF SurfaceChanges
    <3>2. /\ s.fixtures \in BOOLEAN /\ s.rest \in BOOLEAN /\ s.sql \in {"set", "unset", "bad"}
          /\ s.rows \in {"few", "many"} /\ s.cap \in BOOLEAN
      OBVIOUS
    <3>3. surface' \in Surfaces
      BY <3>1, <3>2 DEF GrantsInv, GrantTypes, Surfaces
    <3>. QED BY <1>2, <2>5, <3>3 DEF SurfaceChanges, GrantsInv, GrantTypes
  <2>. QED BY <2>1, <2>2, <2>3, <2>4, <2>5
<1>. QED BY <1>2, <1>3 DEF GrantsInv

LEMMA TableMoves ==
    ASSUME GrantsInv, CreateTable
    PROVE  GrantsInv'
<1>1. /\ tables' = tables \cup {NewTable}
      /\ grants' = grants \cup CreatedWith(NewTable)
      /\ Stale
      /\ UNCHANGED <<defaults, policies, callers, applied, surface, drifts>>
  BY DEF CreateTable
<1>2. checked' \in Verdicts /\ ~Green'
  BY <1>1, StaleIsNotGreen DEF GrantsInv
<1>3. CreatedWith(NewTable) \subseteq [to : Grantees, on : AnyTable, what : Privileges]
  BY Distinct DEF CreatedWith, Grant, Grantees, AnyTable, GrantsInv, GrantTypes
<1>4. GrantTypes'
  BY <1>1, <1>2, <1>3 DEF GrantsInv, GrantTypes, AnyTable
<1>5. tables' # ALL_TABLES
  BY <1>1, Distinct
<1>. QED BY <1>2, <1>4, <1>5 DEF GrantsInv

LEMMA VerifyMoves ==
    ASSUME GrantsInv, Verify
    PROVE  GrantsInv'
<1>1. /\ UNCHANGED <<grants, defaults, tables, secured, policies, callers, applied, surface, drifts>>
      /\ checked' \in Verdicts
      /\ checked'.verdict = "green" => SqlChecks
  BY DEF Verify, Verdicts
<1>2. SqlChecks' <=> SqlChecks
  BY <1>1 DEF SqlChecks, CheckMigrations, CheckTables, CheckRowLevelSecurity, CheckUserPolicies,
     CheckGrants, CheckAuthenticatedWrites, CheckApiRoleGrants, CheckFunctionGrants,
     CheckDefinerFunctions, CheckNoFixtureRows, AuthenticatedWriteViolations, AuthenticatedWrites,
     BrowserDefaultPrivileges, ApiRoleGrantViolations, Holds
<1>3. GrantTypes'
  BY <1>1 DEF GrantsInv, GrantTypes
<1>4. AsMigrated' <=> AsMigrated
  BY <1>1 DEF AsMigrated, AuthenticatedAsMigrated
<1>. QED BY <1>1, <1>2, <1>3, <1>4 DEF GrantsInv, Green

\* Each migration brings the grants, as nothing was changed by hand, to its own part of the contract.
LEMMA MigrationMoves ==
    ASSUME GrantsInv, Migrate
    PROVE  GrantsInv'
<1>1. /\ applied' = applied + 1 /\ applied \in 0..2 /\ applied' \in 0..3
      /\ Stale
      /\ UNCHANGED <<tables, secured, policies, callers, surface, drifts>>
  BY Distinct DEF Migrate, GrantsInv, GrantTypes
<1>2. checked' \in Verdicts /\ ~Green'
  BY <1>1, StaleIsNotGreen DEF GrantsInv
<1>3. CASE applied = 0
  <2>1. /\ grants' = Without({"anon"}, REFERENCE_TABLES, TablePrivileges)
        /\ defaults' \subseteq defaults
    BY <1>3 DEF Migrate, GuestAccess
  <2>2. grants' \subseteq grants
        /\ \A g \in grants' : ~(g.to = "anon" /\ g.on \in REFERENCE_TABLES /\ g.what \in TablePrivileges)
    BY <2>1 DEF Without
  <2>3. GrantTypes'
    BY <1>1, <1>2, <2>1, <2>2 DEF GrantsInv, GrantTypes
  <2>4. ASSUME AsMigrated PROVE AsMigrated'
    BY <1>1, <1>3, <2>2, <2>4 DEF AsMigrated, AuthenticatedAsMigrated
  <2>. QED BY <1>1, <1>2, <2>3, <2>4 DEF GrantsInv
<1>4. CASE applied = 1
  <2>. DEFINE added == {Grant("authenticated", w[1], w[2]) : w \in AUTHENTICATED_WRITES}
              kept1 == Without({"authenticated"}, tables, {Writes, ColumnWrites})
  <2>1. /\ grants' = kept1 \cup added
        /\ defaults' \subseteq defaults
    <3>1. RevokeAuthenticatedWrites
      BY <1>4 DEF Migrate
    <3>2. grants' = kept1 \cup added
      BY <3>1 DEF RevokeAuthenticatedWrites
    <3>3. defaults' \subseteq defaults
      BY <3>1 DEF RevokeAuthenticatedWrites
    <3>. QED BY <3>2, <3>3
  <2>2. /\ kept1 \subseteq grants
        /\ \A g \in kept1 : ~(g.to = "authenticated" /\ g.on \in tables /\ g.what \in {Writes, ColumnWrites})
    BY DEF Without
  <2>3. ASSUME NEW g \in added
        PROVE  /\ g \in [to : Grantees, on : AnyTable, what : Privileges]
               /\ g.to = "authenticated" /\ <<g.on, g.what>> \in AUTHENTICATED_WRITES
               /\ g.on \in AUTHENTICATED_READS
    <3>1. PICK w \in AUTHENTICATED_WRITES : g = [to |-> "authenticated", on |-> w[1], what |-> w[2]]
      BY DEF Grant
    <3>2. w[1] \in AnyTable /\ w[2] \in Privileges /\ w = <<w[1], w[2]>> /\ w[1] \in AUTHENTICATED_READS
      BY Distinct DEF AnyTable, AUTHENTICATED_READS
    <3>. QED BY <3>1, <3>2 DEF Grantees, Roles
  <2>4. \A w \in AUTHENTICATED_WRITES : Grant("authenticated", w[1], w[2]) \in grants'
    BY <2>1
  <2>. HIDE DEF added, kept1
  <2>5. GrantTypes'
    BY <1>1, <1>2, <2>1, <2>2, <2>3 DEF GrantsInv, GrantTypes
  <2>6. ASSUME AsMigrated, tables = ALL_TABLES PROVE AsMigrated'
    <3>1. ASSUME NEW g \in grants'
          PROVE  /\ g.to # "PUBLIC" /\ g.to # "anon"
                 /\ g.to = "authenticated" => /\ g.on \in AUTHENTICATED_READS
                                              /\ g.what = Reads \/ <<g.on, g.what>> \in AUTHENTICATED_WRITES
      <4>1. CASE g \in added
        BY <2>3, <4>1
      <4>2. CASE g \in kept1
        <5>1. g \in grants /\ g.what \in Privileges
          BY <2>2, <4>2 DEF GrantsInv, GrantTypes
        <5>2. /\ g.to # "PUBLIC" /\ g.to # "anon"
              /\ g.to = "authenticated" => g.on \in AUTHENTICATED_READS
          BY <1>4, <2>6, <5>1 DEF AsMigrated, AuthenticatedAsMigrated
        <5>3. g.to = "authenticated" => g.what = Reads
          BY <2>2, <2>6, <4>2, <5>1, <5>2, Distinct
        <5>. QED BY <5>2, <5>3
      <4>. QED BY <2>1, <4>1, <4>2
    <3>2. applied' = 2
      BY <1>1, <1>4
    <3>. QED BY <1>1, <2>4, <2>6, <3>1, <3>2 DEF AsMigrated, AuthenticatedAsMigrated
  <2>. QED BY <1>1, <1>2, <2>5, <2>6 DEF GrantsInv
<1>5. CASE applied = 2
  <2>. DEFINE services == {Grant("service_role", t, p) : t \in tables, p \in TablePrivileges}
              readers == {Grant("authenticated", t, Reads) : t \in AUTHENTICATED_READS}
  <2>1. /\ grants' = grants \cup services \cup readers
        /\ defaults' = defaults \cup {Default("service_role", p) : p \in TablePrivileges}
                                \cup {Default("authenticated", Reads)}
    BY <1>5 DEF Migrate, ExplicitApiRoleGrants
  <2>2. defaults' \subseteq [to : Roles, what : TablePrivileges]
    BY <2>1, Distinct DEF Default, Roles, GrantsInv, GrantTypes
  <2>3. ASSUME NEW g \in services
        PROVE  g \in [to : Grantees, on : AnyTable, what : Privileges] /\ g.to = "service_role"
    <3>1. PICK t \in tables, p \in TablePrivileges : g = [to |-> "service_role", on |-> t, what |-> p]
      BY DEF Grant
    <3>. QED BY <3>1, Distinct DEF Grantees, Roles, GrantsInv, GrantTypes
  <2>4. ASSUME NEW g \in readers
        PROVE  /\ g \in [to : Grantees, on : AnyTable, what : Privileges]
               /\ g.to = "authenticated" /\ g.on \in AUTHENTICATED_READS /\ g.what = Reads
    <3>1. PICK t \in AUTHENTICATED_READS : g = [to |-> "authenticated", on |-> t, what |-> Reads]
      BY DEF Grant
    <3>. QED BY <3>1, Distinct DEF Grantees, Roles, AnyTable
  <2>5. /\ \A t \in tables, p \in TablePrivileges : Grant("service_role", t, p) \in grants'
        /\ \A t \in AUTHENTICATED_READS : Grant("authenticated", t, Reads) \in grants'
    BY <2>1
  <2>. HIDE DEF services, readers
  <2>6. GrantTypes'
    BY <1>1, <1>2, <2>1, <2>2, <2>3, <2>4 DEF GrantsInv, GrantTypes
  <2>7. ASSUME AsMigrated, tables = ALL_TABLES PROVE AsMigrated'
    <3>1. ASSUME NEW g \in grants'
          PROVE  /\ g.to # "PUBLIC" /\ g.to # "anon"
                 /\ g.to = "authenticated" => /\ g.on \in AUTHENTICATED_READS
                                              /\ g.what = Reads \/ <<g.on, g.what>> \in AUTHENTICATED_WRITES
      <4>1. CASE g \in grants
        BY <1>5, <2>7, <4>1 DEF AsMigrated, AuthenticatedAsMigrated
      <4>2. CASE g \in services \/ g \in readers
        BY <2>3, <2>4, <4>2
      <4>. QED BY <2>1, <4>1, <4>2
    <3>2. applied' = 3
      BY <1>1, <1>5
    <3>3. \A w \in AUTHENTICATED_WRITES : Grant("authenticated", w[1], w[2]) \in grants'
      BY <1>5, <2>1, <2>7 DEF AsMigrated
    <3>. QED BY <1>1, <2>5, <2>7, <3>1, <3>2, <3>3 DEF AsMigrated, AuthenticatedAsMigrated
  <2>. QED BY <1>1, <1>2, <2>6, <2>7 DEF GrantsInv
<1>. QED BY <1>1, <1>3, <1>4, <1>5

(* For any number of changes by hand, in any order with the migrations, the checks and
   the next table: a green check nothing followed means the contract, the migrations
   alone reach it, and after a green check the next table is closed to the browser. *)
THEOREM AccessIsAsAgreed == GrantsSpec => []ContractHolds
<1>1. GrantsInit => GrantsInv
  BY GrantsStart
<1>2. GrantsInv /\ [GrantsNext]_grantVars => GrantsInv'
  <2> SUFFICES ASSUME GrantsInv, [GrantsNext]_grantVars PROVE GrantsInv'
    OBVIOUS
  <2>1. CASE UNCHANGED grantVars
    <3>1. UNCHANGED <<grants, defaults, tables, secured, policies, callers, applied, surface, checked, drifts>>
      BY <2>1 DEF grantVars
    <3>2. SqlChecks' <=> SqlChecks
      BY <3>1 DEF SqlChecks, CheckMigrations, CheckTables, CheckRowLevelSecurity, CheckUserPolicies,
         CheckGrants, CheckAuthenticatedWrites, CheckApiRoleGrants, CheckFunctionGrants,
         CheckDefinerFunctions, CheckNoFixtureRows, AuthenticatedWriteViolations, AuthenticatedWrites,
         BrowserDefaultPrivileges, ApiRoleGrantViolations, Holds
    <3>3. GrantTypes' /\ (AsMigrated' <=> AsMigrated)
      BY <3>1 DEF GrantsInv, GrantTypes, AsMigrated, AuthenticatedAsMigrated
    <3>. QED BY <3>1, <3>2, <3>3 DEF GrantsInv, Green
  <2>2. CASE GrantsNext
    BY <2>2, HandMoves, TableMoves, VerifyMoves, MigrationMoves DEF GrantsNext
  <2>. QED BY <2>1, <2>2
<1>3. GrantsInv => ContractHolds
  <2> SUFFICES ASSUME GrantsInv PROVE GreenMeansContract /\ MigratedMeansContract /\ NewTableIsClosed
    BY DEF ContractHolds
  <2>1. GreenMeansContract /\ NewTableIsClosed
    BY ChecksAreTheContract DEF GrantsInv, Green, GreenMeansContract, NewTableIsClosed
  <2>2. MigratedMeansContract
    BY MigratedIsTheContract, Distinct DEF GrantsInv, MigratedMeansContract
  <2>. QED BY <2>1, <2>2
<1>. QED BY <1>1, <1>2, <1>3, PTL DEF GrantsSpec

(***************************************************************************)
(* The calendar.                                                           *)
(*                                                                         *)
(* What a mapping says of Google's calendar (MappingIsTrue), and that the  *)
(* credentials a disconnect deletes were offered to Google, for any        *)
(* records, contents, accounts and requests, and any number of connections *)
(* and of failures.                                                        *)
(*                                                                         *)
(* Requests that cross keep little: a sync saves a content Google has      *)
(* taken, and no more (TakenFirst). A user who does one thing at a time    *)
(* has at most one request under way, so what it read of the connection is *)
(* still so (Orderly). Where nothing has failed either, an active mapping  *)
(* is exact but while a sync has yet to save it or a disconnect to drop it *)
(* (Faultless); a failure leaves mappings of events that are gone.         *)
(***************************************************************************)

Jobs == [record : Records, content : Contents, grant : 0..MaxGrants]

\* A request under way has what it works on.
RequestsAreReal ==
    /\ \A s \in Syncs : spc[s] # "idle" => sync[s] \in Jobs
    /\ \A d \in Disconnects : dpc[d] \in {"list", "remove"} => disc[d].remove

TakenFirst ==
    /\ \A s \in Syncs : spc[s] = "save" => sync[s].content \in accepted[sync[s].record]
    /\ FingerprintWasAccepted

\* At most one request is under way.
Alone ==
    /\ \A s, t \in Syncs : spc[s] # "idle" /\ spc[t] # "idle" => s = t
    /\ \A d, e \in Disconnects : dpc[d] # "idle" /\ dpc[e] # "idle" => d = e
    /\ \A s \in Syncs, d \in Disconnects : spc[s] = "idle" \/ dpc[d] = "idle"

\* Grants in use were given.
Given ==
    /\ connection # NoGrant => account[connection] \in Accounts
    /\ \A g \in offered : account[g] # None

\* What a request read of the connection is still so, and a connection about to be forgotten was
\* offered.
Current ==
    /\ \A s \in Syncs : spc[s] \notin {"idle", "access"} => sync[s].grant = connection
    /\ \A d \in Disconnects : dpc[d] \in {"list", "remove", "revoke"} => disc[d].grant = connection
    /\ \A d \in Disconnects : dpc[d] = "remove" => disc[d].access = connection
    /\ \A d \in Disconnects : dpc[d] = "forget" => connection = NoGrant \/ connection \in offered

Stands(r, content) == Reaches(connection) /\ CalendarOf(connection)[r] = content

\* The event a sync is about to save is there.
Standing == \A s \in Syncs : spc[s] = "save" => Stands(sync[s].record, sync[s].content)

Orderly == oneAtATime => Alone /\ Given /\ Current /\ Standing

\* A sync that wrote the event has yet to save the mapping, or a disconnect that removes the events
\* has yet to drop the mappings.
Pending(r) ==
    \/ \E s \in Syncs : spc[s] = "save" /\ sync[s].record = r
    \/ \E d \in Disconnects :
          /\ disc[d].remove
          /\ \/ dpc[d] \in {"remove", "revoke"}
             \/ dpc[d] = "forget" /\ "mappings" \in disc[d].todo

Only(a) == \A g \in Grants : account[g] \in {None, a}

\* An offered connection is one that is about to be forgotten.
OfferedIsLeaving ==
    connection \in offered => \E d \in Disconnects : dpc[d] = "forget" /\ "connection" \in disc[d].todo

MappingsAreExact ==
    \A r \in Records, a \in Accounts :
        mapping[r].status = "active" /\ Only(a) /\ ~Pending(r) => calendar[a][r] = mapping[r].content

Faultless == oneAtATime /\ faults = 0 => OfferedIsLeaving /\ MappingsAreExact

IInv == TypeOK /\ RequestsAreReal /\ TakenFirst /\ Orderly /\ WrittenIsExact /\ Faultless

-----------------------------------------------------------------------------
(* What the requests do, one at a time. *)

SyncActs(s) ==
    \/ StartSync(s) \/ GetAccess(s) \/ Find(s) \/ CallGoogle(s) \/ GoogleRefuses(s)
    \/ Save(s) \/ SyncFails(s)

\* Sync s goes to a stage with a task; the connection and everybody else stay what they are.
Moves(s, stage, task) ==
    /\ spc' = [spc EXCEPT ![s] = stage] /\ sync' = [sync EXCEPT ![s] = task]
    /\ stage \in SyncStages /\ task \in SyncLocals
    /\ stage # "idle" => task \in Jobs
    /\ stage \notin {"idle", "access"} =>
          /\ spc[s] # "idle" /\ task.grant # NoGrant
          /\ task.grant = IF spc[s] = "access" THEN connection ELSE sync[s].grant
    /\ spc[s] = "idle" => MayStart
    /\ UNCHANGED <<connection, offered, account, revoked, disconnecting, oneAtATime>>

\* It writes nothing,
Passes(s, stage, task) ==
    /\ stage # "save" /\ written' = None
    /\ Fault \/ (NoFault /\ spc[s] # "save")
    /\ UNCHANGED <<mapping, calendar, accepted>>

\* or writes the event,
Puts(s, stage, task) ==
    /\ spc[s] \in Inserting \cup Updating /\ Reaches(sync[s].grant) /\ written' = None
    /\ \/ stage = "save" /\ task = sync[s] /\ NoFault
       \/ stage = "idle" /\ Fault
    /\ Write(sync[s].grant, sync[s].record, sync[s].content)
    /\ UNCHANGED mapping

\* or saves the mapping.
Saves(s, stage, task) ==
    /\ spc[s] = "save" /\ stage # "save"
    /\ mapping' = [mapping EXCEPT ![sync[s].record] = [content |-> sync[s].content, status |-> "active"]]
    /\ \/ written' = sync[s].record /\ NoFault
       \/ written' = None /\ Fault
    /\ UNCHANGED <<calendar, accepted>>

Does(s, stage, task) == Passes(s, stage, task) \/ Puts(s, stage, task) \/ Saves(s, stage, task)

LEMMA Numbers == MaxGrants \in Nat /\ MaxFaults \in Nat /\ MaxCrossedFaults \in Nat /\ MaxCrossedFaults <= MaxFaults
BY CalendarConstants

LEMMA Nones == None \notin Contents /\ None \notin Accounts /\ None \notin Records
BY CalendarConstants

LEMMA NoSyncIs == NoSync \in SyncLocals /\ NoSync.grant = NoGrant
BY DEF NoSync, SyncLocals

\* A task of other records keeps the access.
LEMMA NextJob ==
    ASSUME NEW task \in SyncLocals, NEW r \in Records, NEW c \in Contents
    PROVE  /\ [task EXCEPT !.record = r, !.content = c] \in Jobs
           /\ [task EXCEPT !.record = r, !.content = c].grant = task.grant
<1>1. task \in [record : Records \cup {None}, content : Contents \cup {None}, grant : 0..MaxGrants]
  BY Numbers DEF SyncLocals, NoSync, NoGrant
<1> QED BY <1>1 DEF Jobs

LEMMA JobsAreLocals == Jobs \subseteq SyncLocals
BY DEF Jobs, SyncLocals

LEMMA SyncMoves ==
    ASSUME TypeOK, RequestsAreReal, NEW s \in Syncs, SyncActs(s)
    PROVE  \E stage \in SyncStages, task \in SyncLocals : Moves(s, stage, task) /\ Does(s, stage, task)
<1>1. /\ sync[s] \in SyncLocals /\ spc[s] \in SyncStages
      /\ spc[s] # "idle" => sync[s] \in Jobs
      /\ spc[s] \notin {"idle", "access"} => sync[s].grant # NoGrant
      /\ sync \in [Syncs -> SyncLocals] /\ spc \in [Syncs -> SyncStages]
  BY DEF TypeOK, RequestsAreReal
<1>2. CASE StartSync(s)
  <2>1. PICK r \in Records, c \in Contents :
          sync' = [sync EXCEPT ![s] = [sync[s] EXCEPT !.record = r, !.content = c]]
    BY <1>2 DEF StartSync
  <2> DEFINE task == [sync[s] EXCEPT !.record = r, !.content = c]
  <2>2. task \in Jobs /\ task \in SyncLocals
    BY <1>1, <2>1, NextJob, JobsAreLocals
  <2> HIDE DEF task
  <2>3. sync' = [sync EXCEPT ![s] = task]
    BY <2>1 DEF task
  <2>4. Moves(s, "access", task)
    BY <1>2, <2>2, <2>3 DEF StartSync, SyncGoto, Moves, NoFault, google, SyncStages
  <2>5. Does(s, "access", task)
    BY <1>2 DEF StartSync, Does, Passes, NoFault, Silent, google
  <2> QED BY <2>2, <2>4, <2>5 DEF SyncStages
<1>3. CASE GetAccess(s)
  <2>1. /\ spc[s] = "access" /\ NoFault /\ UNCHANGED <<connection, offered, mapping, google, disconnecting>>
        /\ sync[s] \in Jobs
    BY <1>1, <1>3 DEF GetAccess
  <2>2. CASE connection = NoGrant
    <3>1. Moves(s, "idle", NoSync)
      BY <1>3, <2>1, <2>2, NoSyncIs DEF GetAccess, SyncFailed, SyncGoto, Moves, NoFault, google, SyncStages
    <3>2. Does(s, "idle", NoSync)
      BY <1>3, <2>1, <2>2 DEF GetAccess, SyncFailed, Does, Passes, Silent, google
    <3> QED BY <3>1, <3>2, NoSyncIs DEF SyncStages
  <2>3. CASE connection # NoGrant
    <3> DEFINE task == [sync[s] EXCEPT !.grant = connection]
    <3>1. connection \in 0..MaxGrants
      BY DEF TypeOK
    <3>2. task \in Jobs /\ task.grant = connection /\ task \in SyncLocals
      BY <2>1, <3>1, JobsAreLocals DEF Jobs
    <3>3. sync' = [sync EXCEPT ![s] = task] /\ spc' = [spc EXCEPT ![s] = "find"] /\ Silent
      BY <1>1, <1>3, <2>3 DEF GetAccess, SyncGoto
    <3> HIDE DEF task
    <3>4. Moves(s, "find", task)
      BY <2>1, <2>3, <3>2, <3>3 DEF Moves, NoFault, google, SyncStages
    <3>5. Does(s, "find", task)
      BY <2>1, <3>3 DEF Does, Passes, Silent, google
    <3> QED BY <3>2, <3>4, <3>5 DEF SyncStages
  <2> QED BY <2>2, <2>3
\* A request that is done with a record, and one that goes on with it.
<1>4. ASSUME RecordDone(s), spc[s] \notin {"idle", "access"}, NoFault,
             UNCHANGED <<connection, offered, account, revoked, disconnecting>>
      PROVE  \E stage \in {"idle", "find"}, task \in SyncLocals : Moves(s, stage, task)
  <2>1. CASE SyncGoto(s, "idle") /\ sync' = [sync EXCEPT ![s] = NoSync]
    <3>1. Moves(s, "idle", NoSync)
      BY <1>4, <2>1, NoSyncIs DEF Moves, SyncGoto, NoFault, SyncStages
    <3> QED BY <3>1, NoSyncIs
  <2>2. CASE /\ SyncGoto(s, "find")
             /\ \E r \in Records, c \in Contents :
                  sync' = [sync EXCEPT ![s] = [@ EXCEPT !.record = r, !.content = c]]
    <3>1. PICK r \in Records, c \in Contents :
            sync' = [sync EXCEPT ![s] = [sync[s] EXCEPT !.record = r, !.content = c]]
      BY <2>2
    <3> DEFINE task == [sync[s] EXCEPT !.record = r, !.content = c]
    <3>2. task \in Jobs /\ task \in SyncLocals /\ task.grant = sync[s].grant
      BY <1>1, <3>1, NextJob, JobsAreLocals
    <3>3. sync' = [sync EXCEPT ![s] = task]
      BY <3>1
    <3> HIDE DEF task
    <3>4. Moves(s, "find", task)
      BY <1>1, <1>4, <2>2, <3>2, <3>3 DEF Moves, SyncGoto, NoFault, SyncStages
    <3> QED BY <3>2, <3>4
  <2> QED BY <1>4, <2>1, <2>2 DEF RecordDone
<1>5. ASSUME NEW stage \in {"post", "put", "post_instead", "put_instead", "save"},
             SyncGoto(s, stage), UNCHANGED sync, NoFault, spc[s] \notin {"idle", "access"},
             UNCHANGED <<connection, offered, account, revoked, disconnecting>>
      PROVE  Moves(s, stage, sync[s])
  BY <1>1, <1>5 DEF Moves, SyncGoto, NoFault, SyncStages
<1>6. CASE Find(s)
  <2>1. /\ spc[s] = "find" /\ NoFault /\ UNCHANGED <<connection, offered, mapping, google, disconnecting>>
        /\ UNCHANGED <<account, revoked, calendar, accepted>> /\ Silent
    BY <1>6 DEF Find, google
  <2>2. CASE RecordDone(s)
    <3>1. PICK stage \in {"idle", "find"}, task \in SyncLocals : Moves(s, stage, task)
      BY <1>4, <2>1, <2>2
    <3>2. Does(s, stage, task)
      BY <2>1 DEF Does, Passes, Silent
    <3> QED BY <3>1, <3>2 DEF SyncStages
  <2>3. ASSUME NEW stage \in {"put", "post"}, SyncGoto(s, stage), UNCHANGED sync
        PROVE  \E st \in SyncStages, task \in SyncLocals : Moves(s, st, task) /\ Does(s, st, task)
    <3>1. Moves(s, stage, sync[s])
      BY <1>5, <2>1, <2>3
    <3>2. Does(s, stage, sync[s])
      BY <2>1 DEF Does, Passes, Silent
    <3> QED BY <1>1, <3>1, <3>2 DEF SyncStages
  <2> QED BY <1>6, <2>2, <2>3 DEF Find
<1>7. CASE CallGoogle(s)
  <2>1. /\ spc[s] \in Inserting \cup Updating /\ spc[s] \notin {"idle", "access"}
        /\ NoFault /\ Silent /\ UNCHANGED <<connection, offered, mapping, sync, disconnecting>>
    BY <1>7 DEF CallGoogle, Inserting, Updating
  <2>2. \/ /\ SyncGoto(s, "save") /\ Write(sync[s].grant, sync[s].record, sync[s].content)
           /\ Reaches(sync[s].grant)
        \/ \E stage \in {"post_instead", "put_instead"} : SyncGoto(s, stage) /\ UNCHANGED google
    BY <1>7 DEF CallGoogle, Insert, Update
  <2>3. CASE /\ SyncGoto(s, "save") /\ Write(sync[s].grant, sync[s].record, sync[s].content)
             /\ Reaches(sync[s].grant)
    <3>1. Moves(s, "save", sync[s])
      BY <1>5, <2>1, <2>3 DEF Write
    <3>2. Does(s, "save", sync[s])
      BY <2>1, <2>3 DEF Does, Puts, Silent
    <3> QED BY <1>1, <3>1, <3>2 DEF SyncStages
  <2>4. ASSUME NEW stage \in {"post_instead", "put_instead"}, SyncGoto(s, stage), UNCHANGED google
        PROVE  \E st \in SyncStages, task \in SyncLocals : Moves(s, st, task) /\ Does(s, st, task)
    <3>1. Moves(s, stage, sync[s])
      BY <1>5, <2>1, <2>4 DEF google
    <3>2. Does(s, stage, sync[s])
      BY <2>1, <2>4 DEF Does, Passes, Silent, google, Inserting, Updating
    <3> QED BY <1>1, <3>1, <3>2 DEF SyncStages
  <2> QED BY <2>2, <2>3, <2>4
\* A request that ends half-way.
<1>8. ASSUME SyncFailed(s), spc[s] # "idle", Fault \/ NoFault,
             UNCHANGED <<connection, offered, account, revoked, disconnecting>>
      PROVE  Moves(s, "idle", NoSync)
  BY <1>8, NoSyncIs DEF SyncFailed, SyncGoto, Moves, Fault, NoFault, SyncStages
<1>9. CASE GoogleRefuses(s)
  <2>1. /\ spc[s] # "idle" /\ spc[s] # "save" /\ SyncFailed(s) /\ NoFault
        /\ UNCHANGED <<connection, offered, mapping, account, revoked, calendar, accepted, disconnecting>>
    BY <1>9 DEF GoogleRefuses, Inserting, Updating, google
  <2>2. Moves(s, "idle", NoSync)
    BY <1>8, <2>1
  <2>3. Does(s, "idle", NoSync)
    BY <2>1 DEF Does, Passes, SyncFailed, Silent
  <2> QED BY <2>2, <2>3, NoSyncIs DEF SyncStages
<1>10. CASE Save(s)
  <2>1. /\ spc[s] = "save" /\ RecordDone(s) /\ written' = sync[s].record /\ NoFault
        /\ mapping' = [mapping EXCEPT ![sync[s].record] = [content |-> sync[s].content, status |-> "active"]]
        /\ UNCHANGED <<connection, offered, account, revoked, calendar, accepted, disconnecting>>
    BY <1>10 DEF Save, google
  <2>2. PICK stage \in {"idle", "find"}, task \in SyncLocals : Moves(s, stage, task)
    BY <1>4, <2>1
  <2>3. Does(s, stage, task)
    BY <2>1 DEF Does, Saves
  <2> QED BY <2>2, <2>3 DEF SyncStages
<1>11. CASE SyncFails(s)
  <2>1. spc[s] # "idle" /\ Fault /\ SyncFailed(s) /\ Silent /\ UNCHANGED <<connection, offered, disconnecting>>
    BY <1>11 DEF SyncFails, SyncFailed
  <2>2. CASE UNCHANGED <<mapping, google>>
    <3>1. Moves(s, "idle", NoSync)
      BY <1>8, <2>1, <2>2 DEF google
    <3>2. Does(s, "idle", NoSync)
      BY <2>1, <2>2 DEF Does, Passes, Silent, google
    <3> QED BY <3>1, <3>2, NoSyncIs DEF SyncStages
  <2>3. CASE /\ spc[s] \in Inserting \cup Updating /\ Reaches(sync[s].grant)
             /\ Write(sync[s].grant, sync[s].record, sync[s].content)
             /\ UNCHANGED mapping
    <3>1. Moves(s, "idle", NoSync)
      BY <1>8, <2>1, <2>3 DEF Write
    <3>2. Does(s, "idle", NoSync)
      BY <2>1, <2>3 DEF Does, Puts, Silent, Inserting, Updating
    <3> QED BY <3>1, <3>2, NoSyncIs DEF SyncStages
  <2>4. CASE /\ spc[s] = "save" /\ UNCHANGED google
             /\ mapping' = [mapping EXCEPT ![sync[s].record] =
                              [content |-> sync[s].content, status |-> "active"]]
    <3>1. Moves(s, "idle", NoSync)
      BY <1>8, <2>1, <2>4 DEF google
    <3>2. Does(s, "idle", NoSync)
      BY <2>1, <2>4 DEF Does, Saves, Silent, google
    <3> QED BY <3>1, <3>2, NoSyncIs DEF SyncStages
  <2> QED BY <1>11, <2>2, <2>3, <2>4 DEF SyncFails
<1> QED BY <1>2, <1>3, <1>6, <1>7, <1>9, <1>10, <1>11 DEF SyncActs

DiscActs(d) ==
    \/ StartDisconnect(d) \/ ReadConnection(d) \/ ListEvents(d) \/ RemoveEvent(d)
    \/ RemovalFails(d) \/ EventsRemoved(d) \/ Revoke(d) \/ ForgetFails(d)
    \/ \E part \in {"mappings", "connection"} : Forget(d, part)

\* Disconnect d goes to a stage with its locals; everybody else stays what they are.
Turns(d, stage, local) ==
    /\ dpc' = [dpc EXCEPT ![d] = stage] /\ disc' = [disc EXCEPT ![d] = local]
    /\ stage \in DisconnectStages /\ local \in DisconnectLocals
    /\ stage \in {"list", "remove"} => local.remove
    /\ dpc[d] = "idle" => MayStart
    /\ written' = None
    /\ UNCHANGED <<syncing, account, accepted, oneAtATime>>

World == <<connection, offered, revoked, mapping, calendar>>

\* It reads,
LooksUp(d, stage, local) ==
    /\ stage \in {"read", "list", "remove", "revoke"}
    /\ dpc[d] \in {"idle", "read", "list", "remove"}
    /\ stage # "read" =>
          /\ dpc[d] # "idle" /\ local.grant = IF dpc[d] = "read" THEN connection ELSE disc[d].grant
          /\ local.grant # NoGrant
    /\ stage = "remove" => local.access = connection
    /\ dpc[d] = "remove" => stage = "revoke" /\ local.remove
    /\ NoFault /\ UNCHANGED World

\* removes an event,
Removes(d, stage, local) ==
    /\ dpc[d] = "remove" /\ stage = "remove"
    /\ local.grant = disc[d].grant /\ local.access = disc[d].access
    /\ \E r \in Records : calendar' = [calendar EXCEPT ![account[disc[d].access]][r] = None]
    /\ NoFault /\ UNCHANGED <<connection, offered, revoked, mapping>>

\* offers its grant,
Revokes(d, stage, local) ==
    /\ dpc[d] = "revoke" /\ stage = "forget"
    /\ local.todo = {"mappings", "connection"} /\ local.remove = disc[d].remove
    /\ offered' = offered \cup {disc[d].grant}
    /\ revoked' \in {revoked, revoked \cup {disc[d].grant}}
    /\ NoFault /\ UNCHANGED <<connection, mapping, calendar>>

\* forgets a part,
Forgets(d, stage, local, part) ==
    /\ dpc[d] = "forget" /\ part \in disc[d].todo
    /\ IF disc[d].todo = {part} THEN stage = "idle"
       ELSE stage = "forget" /\ local.todo = disc[d].todo \ {part} /\ local.remove = disc[d].remove
    /\ IF part = "mappings"
       THEN /\ mapping' = [r \in Records |->
                  IF disc[d].remove \/ mapping[r].status = "none" THEN NoMapping
                  ELSE [mapping[r] EXCEPT !.status = "detached"]]
            /\ UNCHANGED connection
       ELSE connection' = NoGrant /\ UNCHANGED mapping
    /\ NoFault /\ UNCHANGED <<offered, revoked, calendar>>

\* or ends early.
Stops(d, stage) ==
    /\ dpc[d] # "idle" /\ stage = "idle"
    /\ \/ Fault
       \/ NoFault /\ (dpc[d] \in {"read", "list"} \/ (dpc[d] = "remove" /\ ~Reaches(disc[d].access)))
    /\ UNCHANGED World

DoesOne(d, stage, local) ==
    \/ LooksUp(d, stage, local) \/ Removes(d, stage, local) \/ Revokes(d, stage, local)
    \/ \E part \in {"mappings", "connection"} : Forgets(d, stage, local, part)
    \/ Stops(d, stage)

LEMMA NoDisconnectIs == NoDisconnect \in DisconnectLocals /\ ~NoDisconnect.remove
BY Numbers DEF NoDisconnect, DisconnectLocals, NoGrant

LEMMA DiscMoves ==
    ASSUME TypeOK, RequestsAreReal, NEW d \in Disconnects, DiscActs(d)
    PROVE  \E stage \in DisconnectStages, local \in DisconnectLocals :
               Turns(d, stage, local) /\ DoesOne(d, stage, local)
<1> DEFINE Goal == \E stage \in DisconnectStages, local \in DisconnectLocals :
                       Turns(d, stage, local) /\ DoesOne(d, stage, local)
<1> SUFFICES Goal
  OBVIOUS
<1>1. /\ disc[d] \in DisconnectLocals /\ dpc[d] \in DisconnectStages
      /\ dpc[d] \in {"list", "remove"} => disc[d].remove
      /\ dpc[d] \in {"list", "remove", "revoke"} => disc[d].grant # NoGrant
      /\ disc \in [Disconnects -> DisconnectLocals] /\ connection \in 0..MaxGrants
  BY DEF TypeOK, RequestsAreReal
\* The request goes on.
<1>2. ASSUME NEW stage \in DisconnectStages \ {"idle"}, NEW local \in DisconnectLocals,
             dpc' = [dpc EXCEPT ![d] = stage], disc' = [disc EXCEPT ![d] = local],
             stage \in {"list", "remove"} => local.remove, dpc[d] = "idle" => MayStart, Silent,
             UNCHANGED <<syncing, account, accepted, oneAtATime>>, DoesOne(d, stage, local)
      PROVE  Goal
  BY <1>2 DEF Turns, Silent
\* The request ends.
<1>3. ASSUME DiscEnds(d), dpc[d] # "idle",
             UNCHANGED <<syncing, account, accepted, oneAtATime>>, DoesOne(d, "idle", NoDisconnect)
      PROVE  Goal
  <2>1. Turns(d, "idle", NoDisconnect)
    BY <1>3, NoDisconnectIs DEF Turns, DiscEnds, DiscGoto, Silent, DisconnectStages
  <2> QED BY <1>3, <2>1, NoDisconnectIs DEF DisconnectStages
<1> HIDE DEF Goal
<1>4. CASE StartDisconnect(d)
  <2>1. PICK remove \in BOOLEAN : disc' = [disc EXCEPT ![d].remove = remove]
    BY <1>4 DEF StartDisconnect
  <2> DEFINE local == [disc[d] EXCEPT !.remove = remove]
  <2>2. local \in DisconnectLocals /\ disc' = [disc EXCEPT ![d] = local]
    BY <1>1, <2>1 DEF DisconnectLocals
  <2> HIDE DEF local
  <2>3. DoesOne(d, "read", local)
    BY <1>4 DEF StartDisconnect, DoesOne, LooksUp, World, google
  <2> QED BY <1>2, <1>4, <2>2, <2>3 DEF StartDisconnect, DiscGoto, DisconnectStages, google, NoFault
<1>5. CASE ReadConnection(d)
  <2>1. /\ dpc[d] = "read" /\ NoFault
        /\ UNCHANGED <<connection, offered, revoked, mapping, calendar, account, accepted, syncing, oneAtATime>>
    BY <1>5 DEF ReadConnection, google, NoFault
  <2>2. CASE connection = NoGrant
    <3>1. DoesOne(d, "idle", NoDisconnect)
      BY <2>1 DEF DoesOne, Stops, World
    <3> QED BY <1>3, <1>5, <2>1, <2>2, <3>1 DEF ReadConnection
  <2>3. CASE connection # NoGrant
    <3> DEFINE local == [disc[d] EXCEPT !.grant = connection]
               stage == IF disc[d].remove THEN "list" ELSE "revoke"
    <3>1. /\ local \in DisconnectLocals /\ disc' = [disc EXCEPT ![d] = local]
          /\ local.grant = connection /\ local.remove = disc[d].remove
      BY <1>1, <1>5, <2>3 DEF DisconnectLocals, ReadConnection
    <3>2. dpc' = [dpc EXCEPT ![d] = stage] /\ Silent
      BY <1>5, <2>3 DEF ReadConnection, DiscGoto
    <3>3. stage \in {"list", "revoke"} /\ (stage = "list" => local.remove)
      BY <3>1
    <3> HIDE DEF local, stage
    <3>4. DoesOne(d, stage, local)
      BY <2>1, <2>3, <3>1, <3>3 DEF DoesOne, LooksUp, World
    <3> QED BY <1>2, <2>1, <3>1, <3>2, <3>3, <3>4 DEF DisconnectStages
  <2> QED BY <2>2, <2>3
<1>6. CASE ListEvents(d)
  <2>1. /\ dpc[d] = "list" /\ NoFault
        /\ UNCHANGED <<connection, offered, revoked, mapping, calendar, account, accepted, syncing, oneAtATime>>
    BY <1>6 DEF ListEvents, google, NoFault
  <2>2. CASE connection = NoGrant
    <3>1. DoesOne(d, "idle", NoDisconnect)
      BY <2>1 DEF DoesOne, Stops, World
    <3> QED BY <1>3, <1>6, <2>1, <2>2, <3>1 DEF ListEvents
  <2>3. CASE connection # NoGrant
    <3> DEFINE local == [disc[d] EXCEPT !.access = connection, !.queue = Active]
    <3>1. /\ local \in DisconnectLocals /\ disc' = [disc EXCEPT ![d] = local]
          /\ local.access = connection /\ local.grant = disc[d].grant /\ local.remove = disc[d].remove
      BY <1>1, <1>6, <2>3 DEF DisconnectLocals, ListEvents, Active
    <3>2. dpc' = [dpc EXCEPT ![d] = "remove"] /\ Silent
      BY <1>6, <2>3 DEF ListEvents, DiscGoto
    <3> HIDE DEF local
    <3>3. DoesOne(d, "remove", local)
      BY <1>1, <2>1, <3>1 DEF DoesOne, LooksUp, World
    <3> QED BY <1>1, <1>2, <2>1, <3>1, <3>2, <3>3 DEF DisconnectStages
  <2> QED BY <2>2, <2>3
<1>7. CASE RemoveEvent(d)
  <2>1. /\ dpc[d] = "remove" /\ NoFault /\ Silent
        /\ UNCHANGED <<connection, offered, revoked, mapping, account, syncing, dpc, oneAtATime>>
    BY <1>7 DEF RemoveEvent, Write, NoFault
  <2>2. PICK r \in disc[d].queue :
          /\ disc' = [disc EXCEPT ![d].queue = @ \ {r}]
          /\ Write(disc[d].access, r, None)
    BY <1>7 DEF RemoveEvent
  <2>3. /\ r \in Records /\ accepted' = accepted
        /\ calendar' = [calendar EXCEPT ![account[disc[d].access]][r] = None]
    BY <1>1, <2>2 DEF Write, DisconnectLocals
  <2> DEFINE local == [disc[d] EXCEPT !.queue = @ \ {r}]
  <2>4. /\ local \in DisconnectLocals /\ disc' = [disc EXCEPT ![d] = local]
        /\ local.access = disc[d].access /\ local.grant = disc[d].grant /\ local.remove = disc[d].remove
    BY <1>1, <2>2 DEF DisconnectLocals
  <2> HIDE DEF local
  <2>5. DoesOne(d, "remove", local)
    BY <2>1, <2>3, <2>4 DEF DoesOne, Removes
  <2>6. dpc' = [dpc EXCEPT ![d] = "remove"]
    BY <2>1 DEF TypeOK
  <2> QED BY <1>1, <1>2, <2>1, <2>3, <2>4, <2>5, <2>6 DEF DisconnectStages
<1>8. CASE RemovalFails(d) \/ ForgetFails(d)
  <2>1. /\ DiscEnds(d) /\ dpc[d] # "idle" /\ UNCHANGED oneAtATime
        /\ UNCHANGED <<connection, offered, revoked, mapping, calendar, account, accepted, syncing>>
    BY <1>8 DEF RemovalFails, ForgetFails, Fault, NoFault, google
  <2>2. DoesOne(d, "idle", NoDisconnect)
    BY <1>8, <2>1 DEF RemovalFails, ForgetFails, DoesOne, Stops, World
  <2> QED BY <1>3, <2>1, <2>2
<1>9. CASE EventsRemoved(d)
  <2>1. /\ dpc[d] = "remove" /\ NoFault /\ Silent /\ dpc' = [dpc EXCEPT ![d] = "revoke"]
        /\ UNCHANGED <<connection, offered, revoked, mapping, calendar, account, accepted, syncing, oneAtATime>>
    BY <1>9 DEF EventsRemoved, google, NoFault, DiscGoto
  <2> DEFINE local == [disc[d] EXCEPT !.access = NoGrant]
  <2>2. /\ local \in DisconnectLocals /\ disc' = [disc EXCEPT ![d] = local]
        /\ local.grant = disc[d].grant /\ local.remove = disc[d].remove
    BY <1>1, <1>9, Numbers DEF DisconnectLocals, EventsRemoved, NoGrant
  <2> HIDE DEF local
  <2>3. DoesOne(d, "revoke", local)
    BY <1>1, <2>1, <2>2 DEF DoesOne, LooksUp, World
  <2> QED BY <1>2, <2>1, <2>2, <2>3 DEF DisconnectStages
<1>10. CASE Revoke(d)
  <2>1. /\ dpc[d] = "revoke" /\ NoFault /\ Silent /\ dpc' = [dpc EXCEPT ![d] = "forget"]
        /\ offered' = offered \cup {disc[d].grant} /\ revoked' \in {revoked, revoked \cup {disc[d].grant}}
        /\ UNCHANGED <<connection, mapping, calendar, account, accepted, syncing, oneAtATime>>
    BY <1>10 DEF Revoke, NoFault, DiscGoto
  <2> DEFINE local == [disc[d] EXCEPT !.todo = {"mappings", "connection"}, !.grant = NoGrant]
  <2>2. /\ local \in DisconnectLocals /\ disc' = [disc EXCEPT ![d] = local]
        /\ local.todo = {"mappings", "connection"} /\ local.remove = disc[d].remove
    BY <1>1, <1>10, Numbers DEF DisconnectLocals, Revoke, NoGrant
  <2> HIDE DEF local
  <2>3. DoesOne(d, "forget", local)
    BY <2>1, <2>2 DEF DoesOne, Revokes
  <2> QED BY <1>2, <2>1, <2>2, <2>3 DEF DisconnectStages
<1>11. ASSUME NEW part \in {"mappings", "connection"}, Forget(d, part) PROVE Goal
  <2>1. /\ dpc[d] = "forget" /\ part \in disc[d].todo /\ NoFault
        /\ UNCHANGED <<offered, revoked, calendar, account, accepted, syncing, oneAtATime>>
    BY <1>11 DEF Forget, google, NoFault
  <2>2. CASE disc[d].todo = {part}
    <3>1. Forgets(d, "idle", NoDisconnect, part)
      BY <1>11, <2>1, <2>2 DEF Forget, Forgets
    <3>2. DiscEnds(d)
      BY <1>11, <2>2 DEF Forget
    <3> QED BY <1>3, <2>1, <3>1, <3>2 DEF DoesOne
  <2>3. CASE disc[d].todo # {part}
    <3> DEFINE local == [disc[d] EXCEPT !.todo = @ \ {part}]
    <3>1. /\ local \in DisconnectLocals /\ disc' = [disc EXCEPT ![d] = local]
          /\ local.todo = disc[d].todo \ {part} /\ local.remove = disc[d].remove
      BY <1>1, <1>11, <2>3 DEF DisconnectLocals, Forget
    <3>2. dpc' = [dpc EXCEPT ![d] = "forget"] /\ Silent
      BY <1>11, <2>1, <2>3 DEF Forget, TypeOK
    <3> HIDE DEF local
    <3>3. Forgets(d, "forget", local, part)
      BY <1>11, <2>1, <2>3, <3>1 DEF Forget, Forgets
    <3> QED BY <1>2, <2>1, <3>1, <3>2, <3>3 DEF DisconnectStages, DoesOne
  <2> QED BY <2>2, <2>3
<1> QED BY <1>4, <1>5, <1>6, <1>7, <1>8, <1>9, <1>10, <1>11 DEF DiscActs

-----------------------------------------------------------------------------
(* Syncs keep the invariant. *)

\* A user who does one thing at a time has nothing else under way.
LEMMA SoleSync ==
    ASSUME Orderly, oneAtATime, NEW s \in Syncs, spc[s] = "idle" => MayStart
    PROVE  /\ \A t \in Syncs : t # s => spc[t] = "idle"
           /\ \A d \in Disconnects : dpc[d] = "idle"
BY DEF Orderly, Alone, MayStart, Quiescent

LEMMA FaultCounts ==
    ASSUME TypeOK, Fault \/ NoFault
    PROVE  /\ faults' \in 0..MaxFaults /\ oneAtATime' \in BOOLEAN
           /\ Fault => faults' > 0
           /\ NoFault => faults' = faults
BY Numbers DEF TypeOK, Fault, NoFault

LEMMA SyncTypes ==
    ASSUME TypeOK, RequestsAreReal, NEW s \in Syncs, NEW stage \in SyncStages, NEW task \in SyncLocals,
           Moves(s, stage, task), Does(s, stage, task)
    PROVE  TypeOK' /\ RequestsAreReal'
<1>1. /\ spc' \in [Syncs -> SyncStages] /\ sync' \in [Syncs -> SyncLocals]
      /\ spc'[s] = stage /\ sync'[s] = task
      /\ \A t \in Syncs : t # s => spc'[t] = spc[t] /\ sync'[t] = sync[t]
  BY DEF TypeOK, Moves
<1>2. UNCHANGED <<connection, offered, account, revoked, dpc, disc, oneAtATime>>
  BY DEF Moves, disconnecting
<1>3. RequestsAreReal'
  BY <1>1, <1>2 DEF RequestsAreReal, Moves, Jobs
<1>4. spc[s] # "idle" =>
          sync[s] \in Jobs /\ sync[s].record \in Records /\ sync[s].content \in Contents
  BY DEF RequestsAreReal, Jobs
<1>5. /\ faults' \in 0..MaxFaults /\ written' \in Records \cup {None} /\ mapping' \in [Records -> Mappings]
      /\ calendar' \in [Accounts -> [Records -> Contents \cup {None}]]
      /\ accepted' \in [Records -> SUBSET Contents]
  <2>1. CASE Passes(s, stage, task)
    BY <2>1, FaultCounts DEF Passes, TypeOK
  <2>2. CASE Puts(s, stage, task)
    <3>1. sync[s].record \in Records /\ sync[s].content \in Contents
      BY <1>4, <2>2 DEF Puts, Inserting, Updating
    <3>2. /\ calendar' = [calendar EXCEPT ![account[sync[s].grant]][sync[s].record] = sync[s].content]
          /\ accepted' \in {accepted, [accepted EXCEPT ![sync[s].record] = @ \cup {sync[s].content}]}
          /\ written' = None /\ mapping' = mapping /\ (Fault \/ NoFault)
      BY <2>2 DEF Puts, Write
    <3>3. calendar' \in [Accounts -> [Records -> Contents \cup {None}]]
      <4>1. calendar \in [Accounts -> [Records -> Contents \cup {None}]]
        BY DEF TypeOK
      <4> QED BY <3>1, <3>2, <4>1
    <3>4. accepted' \in [Records -> SUBSET Contents]
      <4>1. accepted \in [Records -> SUBSET Contents]
        BY DEF TypeOK
      <4>2. CASE accepted' = [accepted EXCEPT ![sync[s].record] = @ \cup {sync[s].content}]
        BY <3>1, <4>1, <4>2
      <4> QED BY <3>2, <4>1, <4>2
    <3>5. faults' \in 0..MaxFaults
      BY <3>2, FaultCounts
    <3>6. written' \in Records \cup {None} /\ mapping' \in [Records -> Mappings]
      BY <3>2 DEF TypeOK
    <3> QED BY <3>3, <3>4, <3>5, <3>6
  <2>3. CASE Saves(s, stage, task)
    <3>1. sync[s].record \in Records /\ sync[s].content \in Contents
      BY <1>4, <2>3 DEF Saves
    <3>2. [content |-> sync[s].content, status |-> "active"] \in Mappings
      BY <3>1 DEF Mappings
    <3> QED BY <2>3, <3>1, <3>2, FaultCounts DEF TypeOK, Saves
  <2> QED BY <2>1, <2>2, <2>3 DEF Does
<1>6. \A t \in Syncs : spc'[t] \notin {"idle", "access"} => sync'[t].grant # NoGrant
  BY <1>1 DEF TypeOK, Moves
<1>7. TypeOK'
  BY <1>1, <1>2, <1>5, <1>6 DEF TypeOK, Mappings, DisconnectLocals, SyncLocals
<1> QED BY <1>3, <1>7

LEMMA SyncTakesFirst ==
    ASSUME IInv, NEW s \in Syncs, NEW stage \in SyncStages, NEW task \in SyncLocals,
           Moves(s, stage, task), Does(s, stage, task)
    PROVE  TakenFirst'
<1>1. /\ spc'[s] = stage /\ sync'[s] = task
      /\ \A t \in Syncs : t # s => spc'[t] = spc[t] /\ sync'[t] = sync[t]
  BY DEF IInv, TypeOK, Moves
<1>2. /\ \A t \in Syncs : spc[t] = "save" => sync[t].content \in accepted[sync[t].record] /\ sync[t] \in Jobs
      /\ \A r \in Records : mapping[r].status # "none" => mapping[r].content \in accepted[r]
  BY DEF IInv, TakenFirst, FingerprintWasAccepted, RequestsAreReal
<1>3. CASE Passes(s, stage, task)
  BY <1>1, <1>2, <1>3 DEF TakenFirst, FingerprintWasAccepted, Passes
<1>4. CASE Puts(s, stage, task)
  <2>1. /\ sync[s].record \in Records /\ sync[s].content \in Contents /\ sync[s].content # None
        /\ accepted \in [Records -> SUBSET Contents]
    BY <1>4, Nones DEF IInv, RequestsAreReal, Jobs, Puts, TypeOK, Inserting, Updating
  <2>2. /\ accepted' = [accepted EXCEPT ![sync[s].record] = @ \cup {sync[s].content}]
        /\ mapping' = mapping /\ (stage = "save" => task = sync[s])
    BY <1>4, <2>1 DEF Puts, Write
  <2>3. /\ \A r \in Records : accepted[r] \subseteq accepted'[r]
        /\ sync[s].content \in accepted'[sync[s].record]
    BY <2>1, <2>2
  <2> QED BY <1>1, <1>2, <2>2, <2>3 DEF TakenFirst, FingerprintWasAccepted, Jobs
<1>5. CASE Saves(s, stage, task)
  <2>1. sync[s].record \in Records /\ sync[s].content \in accepted[sync[s].record] /\ stage # "save"
    BY <1>2, <1>5 DEF Saves, Jobs
  <2>2. \A r \in Records : mapping'[r] = IF r = sync[s].record
                                         THEN [content |-> sync[s].content, status |-> "active"] ELSE mapping[r]
    BY <1>5 DEF Saves, IInv, TypeOK
  <2> QED BY <1>1, <1>2, <1>5, <2>1, <2>2 DEF TakenFirst, FingerprintWasAccepted, Saves
<1> QED BY <1>3, <1>4, <1>5 DEF Does

LEMMA SyncIsOrderly ==
    ASSUME IInv, NEW s \in Syncs, NEW stage \in SyncStages, NEW task \in SyncLocals,
           Moves(s, stage, task), Does(s, stage, task)
    PROVE  Orderly' /\ WrittenIsExact'
<1> SUFFICES ASSUME oneAtATime' PROVE Alone' /\ Given' /\ Current' /\ Standing' /\ WrittenIsExact'
  BY DEF Orderly, WrittenIsExact
<1>1. /\ spc'[s] = stage /\ sync'[s] = task
      /\ \A t \in Syncs : t # s => spc'[t] = spc[t] /\ sync'[t] = sync[t]
  BY DEF IInv, TypeOK, Moves
<1>2. oneAtATime /\ UNCHANGED <<connection, offered, account, revoked, dpc, disc>>
  BY DEF Moves, disconnecting
<1>3. /\ \A t \in Syncs : t # s => spc[t] = "idle"
      /\ \A d \in Disconnects : dpc[d] = "idle"
      /\ Given /\ Current /\ Standing
  BY <1>2, SoleSync DEF IInv, Orderly, Moves
<1>4. Alone' /\ Given'
  BY <1>1, <1>2, <1>3 DEF Alone, Given
<1>5. Current'
  BY <1>1, <1>2, <1>3 DEF Current, Moves
<1>6. \A r, c : Stands(r, c)' <=> Reaches(connection) /\ calendar'[account[connection]][r] = c
  BY <1>2 DEF Stands, Reaches, CalendarOf
<1>7. spc[s] # "idle" => /\ sync[s].record \in Records /\ sync[s].content \in Contents
                         /\ spc[s] # "access" => sync[s].grant = connection /\ sync[s].grant # NoGrant
  BY <1>3 DEF IInv, RequestsAreReal, Jobs, Current, TypeOK
<1>8. CASE Passes(s, stage, task)
  BY <1>1, <1>3, <1>4, <1>5, <1>8 DEF Passes, Standing, WrittenIsExact
<1>9. CASE Puts(s, stage, task)
  <2>1. /\ sync[s].record \in Records /\ sync[s].grant = connection /\ Reaches(connection)
        /\ account[connection] \in Accounts
        /\ calendar' = [calendar EXCEPT ![account[connection]][sync[s].record] = sync[s].content]
    BY <1>3, <1>7, <1>9 DEF Puts, Write, Given, Inserting, Updating
  <2>2. calendar'[account[connection]][sync[s].record] = sync[s].content
    BY <2>1 DEF IInv, TypeOK
  <2>3. Standing'
    BY <1>1, <1>3, <1>6, <1>9, <2>1, <2>2 DEF Standing, Puts
  <2> QED BY <1>4, <1>5, <1>9, <2>3 DEF Puts, WrittenIsExact
<1>10. CASE Saves(s, stage, task)
  <2>1. Standing'
    BY <1>1, <1>3, <1>10 DEF Standing, Saves
  <2>2. WrittenIsExact'
    <3>1. CASE written' = None
      BY <3>1 DEF WrittenIsExact
    <3>2. CASE written' = sync[s].record
      <4>1. sync[s].record \in Records /\ Stands(sync[s].record, sync[s].content)
        BY <1>3, <1>7, <1>10 DEF Saves, Standing
      <4>2. mapping'[sync[s].record] = [content |-> sync[s].content, status |-> "active"]
        BY <1>10, <4>1 DEF Saves, IInv, TypeOK
      <4>3. Reaches(connection)' /\ CalendarOf(connection)' = CalendarOf(connection)
        BY <1>2, <1>10, <4>1 DEF Stands, Reaches, CalendarOf, Saves
      <4> QED BY <3>2, <4>1, <4>2, <4>3 DEF WrittenIsExact, Stands
    <3> QED BY <1>10, <3>1, <3>2 DEF Saves
  <2> QED BY <1>4, <1>5, <2>1, <2>2
<1> QED BY <1>4, <1>5, <1>8, <1>9, <1>10 DEF Does

LEMMA SyncIsFaultless ==
    ASSUME IInv, NEW s \in Syncs, NEW stage \in SyncStages, NEW task \in SyncLocals,
           Moves(s, stage, task), Does(s, stage, task)
    PROVE  Faultless'
<1> SUFFICES ASSUME oneAtATime', faults' = 0 PROVE OfferedIsLeaving' /\ MappingsAreExact'
  BY DEF Faultless
<1>1. /\ spc'[s] = stage /\ sync'[s] = task
      /\ \A t \in Syncs : t # s => spc'[t] = spc[t] /\ sync'[t] = sync[t]
  BY DEF IInv, TypeOK, Moves
<1>2. oneAtATime /\ UNCHANGED <<connection, offered, account, revoked, dpc, disc>>
  BY DEF Moves, disconnecting
<1>3. NoFault /\ ~Fault /\ faults = 0
  <2>1. Fault \/ NoFault
    BY DEF Does, Passes, Puts, Saves
  <2> QED BY <2>1, FaultCounts DEF IInv
<1>4. OfferedIsLeaving /\ MappingsAreExact
  BY <1>2, <1>3 DEF IInv, Faultless
<1>5. OfferedIsLeaving'
  BY <1>2, <1>4 DEF OfferedIsLeaving
<1>6. /\ \A t \in Syncs : t # s => spc[t] = "idle"
      /\ \A d \in Disconnects : dpc[d] = "idle"
      /\ Given /\ Current /\ Standing
  BY <1>2, SoleSync DEF IInv, Orderly, Moves
<1>7. \A a : Only(a)' <=> Only(a)
  BY <1>2 DEF Only
<1>8. \A r : /\ Pending(r) <=> spc[s] = "save" /\ sync[s].record = r
             /\ Pending(r)' <=> stage = "save" /\ task.record = r
  BY <1>1, <1>2, <1>6 DEF Pending
<1>9. ASSUME NEW r \in Records, NEW a \in Accounts, mapping'[r].status = "active", Only(a), ~Pending(r)'
      PROVE  calendar'[a][r] = mapping'[r].content
  <2>1. CASE Passes(s, stage, task)
    <3>1. mapping[r].status = "active" /\ calendar' = calendar /\ mapping' = mapping
      BY <1>9, <2>1 DEF Passes
    <3>2. ~Pending(r)
      BY <1>3, <1>8, <2>1 DEF Passes
    <3> QED BY <1>4, <1>9, <3>1, <3>2 DEF MappingsAreExact
  <2>2. CASE Puts(s, stage, task)
    <3>1. /\ stage = "save" /\ task = sync[s] /\ mapping' = mapping
          /\ spc[s] \notin {"save", "idle", "access"}
          /\ calendar' = [calendar EXCEPT ![account[sync[s].grant]][sync[s].record] = sync[s].content]
      BY <1>3, <2>2 DEF Puts, Write, Inserting, Updating
    <3>2. r # sync[s].record /\ ~Pending(r)
      BY <1>1, <1>8, <1>9, <3>1
    <3>3. calendar'[a][r] = calendar[a][r]
      BY <3>1, <3>2 DEF IInv, TypeOK
    <3> QED BY <1>4, <1>9, <3>1, <3>2, <3>3 DEF MappingsAreExact
  <2>3. CASE Saves(s, stage, task)
    <3>1. /\ calendar' = calendar /\ spc[s] = "save"
          /\ mapping' = [mapping EXCEPT ![sync[s].record] =
                           [content |-> sync[s].content, status |-> "active"]]
      BY <2>3 DEF Saves
    <3>2. CASE r = sync[s].record
      <4>1. mapping'[r].content = sync[s].content
        BY <3>1, <3>2 DEF IInv, TypeOK
      <4>2. Stands(r, sync[s].content) /\ connection # NoGrant
        BY <1>6, <3>1, <3>2 DEF Standing, Stands, Reaches
      <4>3. connection \in Grants /\ account[connection] # None
        BY <1>6, <4>2, Nones, Numbers DEF Given, IInv, TypeOK, Grants, NoGrant
      <4>4. account[connection] = a
        BY <1>9, <4>3 DEF Only
      <4> QED BY <3>1, <4>1, <4>2, <4>4 DEF Stands, CalendarOf
    <3>3. CASE r # sync[s].record
      <4>1. mapping'[r] = mapping[r] /\ ~Pending(r)
        BY <1>8, <3>1, <3>3 DEF IInv, TypeOK
      <4> QED BY <1>4, <1>9, <3>1, <4>1 DEF MappingsAreExact
    <3> QED BY <3>2, <3>3
  <2> QED BY <2>1, <2>2, <2>3 DEF Does
<1> QED BY <1>5, <1>7, <1>9 DEF MappingsAreExact

LEMMA SyncKeeps == ASSUME IInv, NEW s \in Syncs, SyncActs(s) PROVE IInv'
<1>1. PICK stage \in SyncStages, task \in SyncLocals : Moves(s, stage, task) /\ Does(s, stage, task)
  BY SyncMoves DEF IInv
<1> QED BY <1>1, SyncTypes, SyncTakesFirst, SyncIsOrderly, SyncIsFaultless DEF IInv

-----------------------------------------------------------------------------
(* Disconnects keep it. *)

LEMMA SoleDisconnect ==
    ASSUME Orderly, oneAtATime, NEW d \in Disconnects, dpc[d] = "idle" => MayStart
    PROVE  /\ \A e \in Disconnects : e # d => dpc[e] = "idle"
           /\ \A s \in Syncs : spc[s] = "idle"
BY DEF Orderly, Alone, MayStart, Quiescent

\* What a step of a disconnect leaves of everything but itself.
LEMMA DiscFrame ==
    ASSUME TypeOK, NEW d \in Disconnects, NEW stage \in DisconnectStages, NEW local \in DisconnectLocals,
           Turns(d, stage, local), DoesOne(d, stage, local)
    PROVE  /\ dpc' \in [Disconnects -> DisconnectStages] /\ disc' \in [Disconnects -> DisconnectLocals]
           /\ dpc'[d] = stage /\ disc'[d] = local
           /\ \A e \in Disconnects : e # d => dpc'[e] = dpc[e] /\ disc'[e] = disc[e]
           /\ UNCHANGED <<spc, sync, account, accepted, oneAtATime>> /\ written' = None
           /\ Fault \/ NoFault
<1>1. Fault \/ NoFault
  BY DEF DoesOne, LooksUp, Removes, Revokes, Forgets, Stops
<1>2. UNCHANGED <<spc, sync, account, accepted, oneAtATime>> /\ written' = None
  BY DEF Turns, syncing
<1>3. dpc' = [dpc EXCEPT ![d] = stage] /\ disc' = [disc EXCEPT ![d] = local]
  BY DEF Turns
<1> QED BY <1>1, <1>2, <1>3 DEF TypeOK

\* A mapping is dropped, detached, or left as it is.
LEMMA MappingAfter ==
    ASSUME TypeOK, NEW d \in Disconnects, NEW stage, NEW local, DoesOne(d, stage, local)
    PROVE  /\ mapping' \in [Records -> Mappings]
           /\ \A r \in Records : mapping'[r].status # "none" =>
                  mapping'[r].content = mapping[r].content /\ mapping[r].status # "none"
           /\ \A r \in Records : mapping'[r].status = "active" => mapping'[r] = mapping[r]
<1>1. mapping \in [Records -> Mappings]
  BY DEF TypeOK
<1>2. CASE mapping' = mapping
  BY <1>1, <1>2
<1>3. CASE mapping' = [r \in Records |-> IF disc[d].remove \/ mapping[r].status = "none" THEN NoMapping
                                         ELSE [mapping[r] EXCEPT !.status = "detached"]]
  <2> SUFFICES ASSUME NEW r \in Records
               PROVE  /\ mapping'[r] \in Mappings /\ mapping'[r].status # "active"
                      /\ mapping'[r].status # "none" =>
                            mapping'[r].content = mapping[r].content /\ mapping[r].status # "none"
    BY <1>3
  <2>1. CASE disc[d].remove \/ mapping[r].status = "none"
    BY <1>3, <2>1 DEF Mappings, NoMapping
  <2>2. CASE ~(disc[d].remove \/ mapping[r].status = "none")
    <3>1. mapping[r] \in [content : Contents, status : {"active", "detached"}]
      BY <1>1, <2>2 DEF Mappings, NoMapping
    <3>2. mapping'[r] = [mapping[r] EXCEPT !.status = "detached"]
      BY <1>3, <2>2
    <3> QED BY <3>1, <3>2 DEF Mappings
  <2> QED BY <2>1, <2>2
<1> QED BY <1>2, <1>3 DEF DoesOne, LooksUp, Removes, Revokes, Forgets, Stops, World

LEMMA DiscTypes ==
    ASSUME IInv, NEW d \in Disconnects, NEW stage \in DisconnectStages, NEW local \in DisconnectLocals,
           Turns(d, stage, local), DoesOne(d, stage, local)
    PROVE  TypeOK' /\ RequestsAreReal' /\ TakenFirst' /\ WrittenIsExact'
<1>1. /\ dpc' \in [Disconnects -> DisconnectStages] /\ disc' \in [Disconnects -> DisconnectLocals]
      /\ dpc'[d] = stage /\ disc'[d] = local
      /\ \A e \in Disconnects : e # d => dpc'[e] = dpc[e] /\ disc'[e] = disc[e]
      /\ UNCHANGED <<spc, sync, account, accepted, oneAtATime>> /\ written' = None
      /\ faults' \in 0..MaxFaults
  BY DiscFrame, FaultCounts DEF IInv
<1>2. /\ mapping' \in [Records -> Mappings]
      /\ \A r \in Records : mapping'[r].status # "none" =>
             mapping'[r].content = mapping[r].content /\ mapping[r].status # "none"
  BY MappingAfter DEF IInv
<1>3. /\ connection' \in 0..MaxGrants
      /\ revoked' \subseteq offered' /\ offered' \subseteq Grants
      /\ calendar' \in [Accounts -> [Records -> Contents \cup {None}]]
  <2>1. CASE LooksUp(d, stage, local) \/ Stops(d, stage)
    BY <2>1 DEF LooksUp, Stops, World, IInv, TypeOK
  <2>2. CASE Removes(d, stage, local)
    <3>1. PICK r \in Records : calendar' = [calendar EXCEPT ![account[disc[d].access]][r] = None]
      BY <2>2 DEF Removes
    <3>2. calendar' \in [Accounts -> [Records -> Contents \cup {None}]]
      BY <3>1 DEF IInv, TypeOK
    <3> QED BY <2>2, <3>2 DEF Removes, IInv, TypeOK
  <2>3. CASE Revokes(d, stage, local)
    <3>1. disc[d].grant \in Grants
      BY <2>3, Numbers DEF Revokes, IInv, TypeOK, DisconnectLocals, Grants, NoGrant
    <3> QED BY <2>3, <3>1 DEF Revokes, IInv, TypeOK
  <2>4. ASSUME NEW part \in {"mappings", "connection"}, Forgets(d, stage, local, part)
        PROVE  /\ connection' \in 0..MaxGrants /\ UNCHANGED <<offered, revoked, calendar>>
    BY <2>4, Numbers DEF Forgets, IInv, TypeOK, NoGrant
  <2>5. CASE \E part \in {"mappings", "connection"} : Forgets(d, stage, local, part)
    BY <2>4, <2>5 DEF IInv, TypeOK
  <2> QED BY <2>1, <2>2, <2>3, <2>5 DEF DoesOne
<1>4. stage \in {"list", "remove", "revoke"} => local.grant # NoGrant
  BY DEF DoesOne, LooksUp, Removes, Revokes, Forgets, Stops, IInv, TypeOK
<1>5. TypeOK'
  BY <1>1, <1>2, <1>3, <1>4 DEF IInv, TypeOK, Mappings, SyncLocals, DisconnectLocals
<1>6. RequestsAreReal'
  BY <1>1 DEF IInv, RequestsAreReal, Turns, Jobs
<1>7. TakenFirst'
  BY <1>1, <1>2 DEF IInv, TakenFirst, FingerprintWasAccepted
<1>8. WrittenIsExact'
  BY <1>1 DEF WrittenIsExact
<1> QED BY <1>5, <1>6, <1>7, <1>8

LEMMA DiscIsOrderly ==
    ASSUME IInv, NEW d \in Disconnects, NEW stage \in DisconnectStages, NEW local \in DisconnectLocals,
           Turns(d, stage, local), DoesOne(d, stage, local)
    PROVE  Orderly'
<1> SUFFICES ASSUME oneAtATime' PROVE Alone' /\ Given' /\ Current' /\ Standing'
  BY DEF Orderly
<1>1. /\ dpc'[d] = stage /\ disc'[d] = local
      /\ \A e \in Disconnects : e # d => dpc'[e] = dpc[e] /\ disc'[e] = disc[e]
      /\ UNCHANGED <<spc, sync, account, oneAtATime>> /\ oneAtATime
  BY DiscFrame DEF IInv
<1>2. /\ \A e \in Disconnects : e # d => dpc[e] = "idle"
      /\ \A s \in Syncs : spc[s] = "idle"
      /\ Given /\ Current
  BY <1>1, SoleDisconnect DEF IInv, Orderly, Turns
<1>3. Alone' /\ Standing'
  BY <1>1, <1>2 DEF Alone, Standing
<1>4. CASE LooksUp(d, stage, local)
  <2>1. UNCHANGED <<connection, offered>>
    BY <1>4 DEF LooksUp, World
  <2>2. Given'
    BY <1>1, <1>2, <2>1 DEF Given
  <2>3. Current'
    BY <1>1, <1>2, <1>4, <2>1 DEF Current, LooksUp
  <2> QED BY <1>3, <2>2, <2>3
<1>5. CASE Removes(d, stage, local)
  <2>1. Given'
    BY <1>1, <1>2, <1>5 DEF Given, Removes
  <2>2. Current'
    BY <1>1, <1>2, <1>5 DEF Current, Removes
  <2> QED BY <1>3, <2>1, <2>2
<1>6. CASE Revokes(d, stage, local)
  <2>1. disc[d].grant = connection /\ connection # NoGrant /\ connection' = connection
        /\ offered' = offered \cup {connection}
    BY <1>2, <1>6 DEF Current, Revokes, IInv, TypeOK
  <2>2. Given'
    BY <1>1, <1>2, <2>1, Nones DEF Given
  <2>3. Current'
    BY <1>1, <1>2, <1>6, <2>1 DEF Current, Revokes
  <2> QED BY <1>3, <2>2, <2>3
<1>7. ASSUME NEW part \in {"mappings", "connection"}, Forgets(d, stage, local, part)
      PROVE  Given' /\ Current'
  <2>1. /\ dpc[d] = "forget" /\ offered' = offered /\ connection' \in {connection, NoGrant}
        /\ stage \in {"idle", "forget"}
    BY <1>7 DEF Forgets
  <2>2. Given'
    BY <1>1, <1>2, <2>1 DEF Given
  <2>3. Current'
    BY <1>1, <1>2, <2>1 DEF Current
  <2> QED BY <2>2, <2>3
<1>8. CASE Stops(d, stage)
  <2>1. UNCHANGED <<connection, offered>> /\ stage = "idle"
    BY <1>8 DEF Stops, World
  <2>2. Given' /\ Current'
    BY <1>1, <1>2, <2>1 DEF Given, Current
  <2> QED BY <1>3, <2>2
<1> QED BY <1>3, <1>4, <1>5, <1>6, <1>7, <1>8 DEF DoesOne

LEMMA DiscIsFaultless ==
    ASSUME IInv, NEW d \in Disconnects, NEW stage \in DisconnectStages, NEW local \in DisconnectLocals,
           Turns(d, stage, local), DoesOne(d, stage, local)
    PROVE  Faultless'
<1> SUFFICES ASSUME oneAtATime', faults' = 0 PROVE OfferedIsLeaving' /\ MappingsAreExact'
  BY DEF Faultless
<1>1. /\ dpc'[d] = stage /\ disc'[d] = local
      /\ \A e \in Disconnects : e # d => dpc'[e] = dpc[e] /\ disc'[e] = disc[e]
      /\ UNCHANGED <<spc, sync, account, oneAtATime>> /\ oneAtATime
      /\ ~Fault /\ NoFault /\ faults = 0
  <2>1. Fault \/ NoFault
    BY DiscFrame DEF IInv
  <2>2. ~Fault /\ NoFault /\ faults = 0
    BY <2>1, FaultCounts DEF IInv
  <2> QED BY <2>2, DiscFrame DEF IInv
<1>2. /\ \A e \in Disconnects : e # d => dpc[e] = "idle"
      /\ \A s \in Syncs : spc[s] = "idle"
      /\ Current /\ OfferedIsLeaving /\ MappingsAreExact
  BY <1>1, SoleDisconnect DEF IInv, Orderly, Turns, Faultless
\* What is pending, and what is leaving, is this request's doing.
<1>3. \A r : /\ Pending(r) <=> /\ disc[d].remove
                               /\ dpc[d] \in {"remove", "revoke"} \/ (dpc[d] = "forget" /\ "mappings" \in disc[d].todo)
             /\ Pending(r)' <=> /\ local.remove
                                /\ stage \in {"remove", "revoke"} \/ (stage = "forget" /\ "mappings" \in local.todo)
  BY <1>1, <1>2 DEF Pending
<1>4. /\ connection \in offered => dpc[d] = "forget" /\ "connection" \in disc[d].todo
      /\ OfferedIsLeaving' <=> (connection' \in offered' => stage = "forget" /\ "connection" \in local.todo)
  BY <1>1, <1>2 DEF OfferedIsLeaving
<1>5. /\ \A r \in Records : mapping'[r].status = "active" => mapping'[r] = mapping[r]
      /\ \A a : Only(a)' <=> Only(a)
  BY <1>1, MappingAfter DEF IInv, Only
<1>6. ASSUME calendar' = calendar,
             \A r \in Records : mapping'[r].status = "active" /\ ~Pending(r)' => ~Pending(r)
      PROVE  MappingsAreExact'
  BY <1>2, <1>5, <1>6 DEF MappingsAreExact
<1>7. CASE LooksUp(d, stage, local)
  <2>1. UNCHANGED <<connection, offered, mapping, calendar>>
    BY <1>7 DEF LooksUp, World
  <2>2. OfferedIsLeaving'
    BY <1>4, <1>7, <2>1 DEF LooksUp
  <2>3. \A r \in Records : ~Pending(r)' => ~Pending(r)
    BY <1>3, <1>7 DEF LooksUp
  <2> QED BY <1>6, <2>1, <2>2, <2>3
<1>8. CASE Removes(d, stage, local)
  <2>1. UNCHANGED <<connection, offered>> /\ stage = "remove" /\ dpc[d] = "remove" /\ local.remove
    BY <1>8 DEF Removes, Turns
  <2>2. OfferedIsLeaving'
    BY <1>4, <2>1
  <2>3. \A r \in Records : Pending(r)'
    BY <1>3, <2>1
  <2> QED BY <2>2, <2>3 DEF MappingsAreExact
<1>9. CASE Revokes(d, stage, local)
  <2>1. UNCHANGED <<connection, mapping, calendar>> /\ stage = "forget"
        /\ local.todo = {"mappings", "connection"} /\ local.remove = disc[d].remove
    BY <1>9 DEF Revokes
  <2>2. OfferedIsLeaving'
    BY <1>4, <2>1
  <2>3. \A r \in Records : ~Pending(r)' => ~Pending(r)
    BY <1>3, <1>9, <2>1 DEF Revokes
  <2> QED BY <1>6, <2>1, <2>2, <2>3
<1>10. ASSUME NEW part \in {"mappings", "connection"}, Forgets(d, stage, local, part)
       PROVE  OfferedIsLeaving' /\ MappingsAreExact'
  <2>1. /\ dpc[d] = "forget" /\ part \in disc[d].todo /\ UNCHANGED <<offered, calendar>>
        /\ IF disc[d].todo = {part} THEN stage = "idle"
           ELSE stage = "forget" /\ local.todo = disc[d].todo \ {part} /\ local.remove = disc[d].remove
    BY <1>10 DEF Forgets
  <2>2. NoGrant \notin offered
    BY Numbers DEF IInv, TypeOK, Grants, NoGrant
  <2>3. CASE part = "connection"
    <3>1. connection' = NoGrant
      BY <1>10, <2>3 DEF Forgets
    <3>2. OfferedIsLeaving'
      BY <1>4, <2>1, <2>2, <3>1
    <3>3. \A r \in Records : ~Pending(r)' => ~Pending(r)
      BY <1>3, <2>1, <2>3
    <3> QED BY <1>6, <2>1, <3>2, <3>3
  <2>4. CASE part = "mappings"
    <3>1. connection' = connection
      BY <1>10, <2>4 DEF Forgets
    <3>2. OfferedIsLeaving'
      BY <1>4, <2>1, <2>4, <3>1
    <3>3. \A r \in Records : mapping'[r].status # "active"
      <4> SUFFICES ASSUME NEW r \in Records PROVE mapping'[r].status # "active"
        OBVIOUS
      <4>1. mapping'[r] = IF disc[d].remove \/ mapping[r].status = "none" THEN NoMapping
                          ELSE [mapping[r] EXCEPT !.status = "detached"]
        BY <1>10, <2>4 DEF Forgets
      <4>2. mapping[r] \in Mappings
        BY DEF IInv, TypeOK
      <4> QED BY <4>1, <4>2 DEF Mappings, NoMapping
    <3> QED BY <3>2, <3>3 DEF MappingsAreExact
  <2> QED BY <2>3, <2>4
<1>11. CASE Stops(d, stage)
  <2>1. UNCHANGED <<connection, offered, mapping, calendar>> /\ stage = "idle"
        /\ (dpc[d] \in {"read", "list"} \/ (dpc[d] = "remove" /\ ~Reaches(disc[d].access)))
    BY <1>1, <1>11 DEF Stops, World
  <2>2. dpc[d] # "remove"
    <3> SUFFICES ASSUME dpc[d] = "remove" PROVE FALSE
      OBVIOUS
    <3>1. disc[d].access = connection /\ disc[d].grant = connection /\ connection # NoGrant
      BY <1>2 DEF Current, IInv, TypeOK
    <3>2. connection \notin offered /\ revoked \subseteq offered
      BY <1>4 DEF IInv, TypeOK
    <3> QED BY <2>1, <3>1, <3>2 DEF Reaches
  <2>3. OfferedIsLeaving'
    BY <1>4, <2>1, <2>2
  <2>4. \A r \in Records : ~Pending(r)' => ~Pending(r)
    BY <1>3, <2>1, <2>2
  <2> QED BY <1>6, <2>1, <2>3, <2>4
<1> QED BY <1>7, <1>8, <1>9, <1>10, <1>11 DEF DoesOne

LEMMA DiscKeeps == ASSUME IInv, NEW d \in Disconnects, DiscActs(d) PROVE IInv'
<1>1. PICK stage \in DisconnectStages, local \in DisconnectLocals :
        Turns(d, stage, local) /\ DoesOne(d, stage, local)
  BY DiscMoves DEF IInv
<1> QED BY <1>1, DiscTypes, DiscIsOrderly, DiscIsFaultless DEF IInv

-----------------------------------------------------------------------------
(* And so does the user. *)

LEMMA ConnectKeeps == ASSUME IInv, NEW a \in Accounts, Connect(a) PROVE IInv'
<1>1. /\ MayStart /\ NoFault /\ written' = None
      /\ UNCHANGED <<offered, mapping, revoked, calendar, accepted, spc, sync, dpc, disc, faults, oneAtATime>>
  BY DEF Connect, Silent, syncing, disconnecting, NoFault
<1>2. PICK g \in Grants : /\ account[g] = None /\ account' = [account EXCEPT ![g] = a] /\ connection' = g
  BY DEF Connect
<1>3. /\ account' \in [Grants -> Accounts \cup {None}] /\ account'[g] = a
      /\ \A h \in Grants : h # g => account'[h] = account[h]
      /\ g \in 1..MaxGrants /\ g \in 0..MaxGrants /\ g # NoGrant
  BY <1>2, Numbers DEF IInv, TypeOK, Grants, NoGrant
<1>4. TypeOK'
  BY <1>1, <1>2, <1>3 DEF IInv, TypeOK, Mappings, SyncLocals, DisconnectLocals
<1>5. RequestsAreReal' /\ TakenFirst'
  BY <1>1 DEF IInv, RequestsAreReal, TakenFirst, FingerprintWasAccepted, Jobs
<1>6. WrittenIsExact'
  BY <1>1 DEF WrittenIsExact
<1>7. oneAtATime => (\A s \in Syncs : spc[s] = "idle") /\ (\A d \in Disconnects : dpc[d] = "idle")
  BY <1>1 DEF MayStart, Quiescent
<1>8. ASSUME oneAtATime PROVE g \notin offered /\ Orderly'
  <2>1. Given /\ offered \subseteq Grants
    BY <1>8 DEF IInv, Orderly, TypeOK
  <2>2. g \notin offered
    BY <1>2, <2>1 DEF Given
  <2>3. Given'
    BY <1>1, <1>2, <1>3, <2>1, <2>2 DEF Given
  <2>4. Alone' /\ Current' /\ Standing'
    BY <1>1, <1>7, <1>8 DEF Alone, Current, Standing
  <2> QED BY <2>2, <2>3, <2>4 DEF Orderly
<1>9. Orderly'
  BY <1>1, <1>8 DEF Orderly
<1>10. Faultless'
  <2> SUFFICES ASSUME oneAtATime, faults = 0 PROVE OfferedIsLeaving' /\ MappingsAreExact'
    BY <1>1 DEF Faultless
  <2>1. OfferedIsLeaving'
    BY <1>1, <1>2, <1>8 DEF OfferedIsLeaving
  <2>2. \A r : Pending(r)' <=> Pending(r)
    BY <1>1 DEF Pending
  <2>3. \A b : Only(b)' => Only(b)
    BY <1>2, <1>3 DEF Only
  <2>4. MappingsAreExact'
    BY <1>1, <2>2, <2>3 DEF IInv, Faultless, MappingsAreExact
  <2> QED BY <2>1, <2>4
<1> QED BY <1>4, <1>5, <1>6, <1>9, <1>10 DEF IInv

LEMMA UserDeletesKeeps == ASSUME IInv, NEW a \in Accounts, NEW r \in Records, UserDeletes(a, r) PROVE IInv'
<1>1. /\ MayStart /\ Fault /\ written' = None /\ calendar' = [calendar EXCEPT ![a][r] = None]
      /\ UNCHANGED <<connection, offered, mapping, account, revoked, accepted, spc, sync, dpc, disc, oneAtATime>>
  BY DEF UserDeletes, Silent, syncing, disconnecting, Fault
<1>2. calendar' \in [Accounts -> [Records -> Contents \cup {None}]]
  BY <1>1 DEF IInv, TypeOK
<1>3. TypeOK'
  BY <1>1, <1>2, FaultCounts DEF IInv, TypeOK, Mappings, SyncLocals, DisconnectLocals
<1>4. RequestsAreReal' /\ TakenFirst'
  BY <1>1 DEF IInv, RequestsAreReal, TakenFirst, FingerprintWasAccepted, Jobs
<1>5. WrittenIsExact'
  BY <1>1 DEF WrittenIsExact
<1>6. oneAtATime => \A s \in Syncs : spc[s] = "idle"
  BY <1>1 DEF MayStart, Quiescent
<1>7. Orderly'
  <2> SUFFICES ASSUME oneAtATime PROVE Alone' /\ Given' /\ Current' /\ Standing'
    BY <1>1 DEF Orderly
  <2>1. Alone' /\ Given' /\ Current'
    BY <1>1 DEF IInv, Orderly, Alone, Given, Current
  <2> QED BY <1>1, <1>6, <2>1 DEF Standing
<1>8. Faultless'
  BY <1>1, FaultCounts DEF Faultless, IInv
<1> QED BY <1>3, <1>4, <1>5, <1>7, <1>8 DEF IInv

-----------------------------------------------------------------------------
(* The theorems. *)

LEMMA InitHolds == Init => IInv
<1> SUFFICES ASSUME Init PROVE IInv
  OBVIOUS
<1>1. TypeOK
  BY Numbers, NoSyncIs, NoDisconnectIs DEF Init, TypeOK, Mappings, SyncStages, DisconnectStages, NoGrant
<1>2. RequestsAreReal
  BY DEF Init, RequestsAreReal
<1>3. \A r \in Records : mapping[r].status = "none"
  BY DEF Init, NoMapping
<1>4. TakenFirst
  BY <1>3 DEF Init, TakenFirst, FingerprintWasAccepted
<1>5. Orderly
  BY DEF Init, Orderly, Alone, Given, Current, Standing
<1>6. WrittenIsExact
  BY DEF Init, WrittenIsExact
<1>7. Faultless
  BY <1>3 DEF Init, Faultless, OfferedIsLeaving, MappingsAreExact
<1> QED BY <1>1, <1>2, <1>4, <1>5, <1>6, <1>7 DEF IInv

LEMMA NextKeeps == IInv /\ [Next]_vars => IInv'
<1> SUFFICES ASSUME IInv, [Next]_vars PROVE IInv'
  OBVIOUS
<1>1. ASSUME NEW a \in Accounts, Connect(a) \/ \E r \in Records : UserDeletes(a, r) PROVE IInv'
  BY <1>1, ConnectKeeps, UserDeletesKeeps
<1>2. ASSUME NEW s \in Syncs, SyncActs(s) PROVE IInv'
  BY <1>2, SyncKeeps
<1>3. ASSUME NEW d \in Disconnects, DiscActs(d) PROVE IInv'
  BY <1>3, DiscKeeps
<1>4. CASE UNCHANGED vars
  <2>1. UNCHANGED <<connection, offered, mapping, account, revoked, calendar, accepted, spc, sync,
                    dpc, disc, written, oneAtATime, faults>>
    BY <1>4 DEF vars, google, syncing, disconnecting
  <2>2. TypeOK'
    BY <2>1 DEF IInv, TypeOK, Mappings, SyncLocals, DisconnectLocals
  <2>3. RequestsAreReal' /\ TakenFirst'
    BY <2>1 DEF IInv, RequestsAreReal, TakenFirst, FingerprintWasAccepted, Jobs
  <2>4. Orderly'
    BY <2>1 DEF IInv, Orderly, Alone, Given, Current, Standing, Stands, Reaches, CalendarOf
  <2>5. WrittenIsExact'
    BY <2>1 DEF IInv, WrittenIsExact, Reaches, CalendarOf
  <2>6. Faultless'
    BY <2>1 DEF IInv, Faultless, OfferedIsLeaving, MappingsAreExact, Pending, Only
  <2> QED BY <2>2, <2>3, <2>4, <2>5, <2>6 DEF IInv
<1>5. Next =>
        \/ \E a \in Accounts : Connect(a) \/ \E r \in Records : UserDeletes(a, r)
        \/ \E s \in Syncs : SyncActs(s)
        \/ \E d \in Disconnects : DiscActs(d)
  BY DEF Next, SyncActs, DiscActs
<1> QED BY <1>1, <1>2, <1>3, <1>4, <1>5

LEMMA InvariantHolds == Spec => []IInv
<1> QED BY InitHolds, NextKeeps, PTL DEF Spec

\* Type correctness of the connection, the mappings, Google's side and the requests' locals.
THEOREM CalendarTypeCorrect == Spec => []TypeOK
<1>1. IInv => TypeOK
  BY DEF IInv
<1> QED BY <1>1, InvariantHolds, PTL

\* While nothing has failed and nothing is under way, an active mapping is exact.
LEMMA QuietIsExact == IInv => ActiveIsExact
<1> SUFFICES ASSUME IInv, oneAtATime, Quiescent, faults = 0,
                    NEW r \in Records, NEW a \in Accounts,
                    mapping[r].status = "active", Only(a)
             PROVE  calendar[a][r] = mapping[r].content
  BY DEF ActiveIsExact, Only
<1>1. ~Pending(r)
  BY DEF Quiescent, Pending
<1> QED BY <1>1 DEF IInv, Faultless, MappingsAreExact

\* What a mapping says of the calendar is so: the content Google took, however requests cross and
\* fail; what the calendar holds, right after a sync and where nothing failed, for a user who does
\* one thing at a time (sync/route.ts, events.ts, google-api.ts, google-calendar/route.ts).
THEOREM MappingsAreTrue == Spec => []MappingIsTrue
<1>1. IInv => MappingIsTrue
  BY QuietIsExact DEF IInv, TakenFirst, MappingIsTrue
<1> QED BY <1>1, InvariantHolds, PTL

\* Credentials a disconnect deletes were offered to Google for revocation, whatever failed before
\* (google-calendar/route.ts), unless requests cross.
THEOREM CredentialsAreOffered == Spec => OfferedBeforeForgotten
<1>1. IInv /\ [Next]_vars =>
        [oneAtATime /\ connection # NoGrant /\ connection' = NoGrant => connection \in offered']_vars
  <2> SUFFICES ASSUME IInv, Next, oneAtATime, connection # NoGrant, connection' = NoGrant
               PROVE  connection \in offered'
    OBVIOUS
  <2>1. ASSUME NEW a \in Accounts, Connect(a) \/ \E r \in Records : UserDeletes(a, r) PROVE FALSE
    BY <2>1, Numbers DEF Connect, UserDeletes, Grants, NoGrant
  <2>2. ASSUME NEW s \in Syncs, SyncActs(s) PROVE FALSE
    BY <2>2, SyncMoves DEF Moves, IInv
  <2>3. ASSUME NEW d \in Disconnects, DiscActs(d) PROVE connection \in offered'
    <3>1. PICK stage \in DisconnectStages, local \in DisconnectLocals :
            Turns(d, stage, local) /\ DoesOne(d, stage, local)
      BY <2>3, DiscMoves DEF IInv
    <3>2. dpc[d] = "forget" /\ offered' = offered
      BY <3>1 DEF DoesOne, LooksUp, Removes, Revokes, Forgets, Stops, World
    <3> QED BY <3>2 DEF IInv, Orderly, Current
  <2> QED BY <2>1, <2>2, <2>3 DEF Next, SyncActs, DiscActs
<1> QED BY <1>1, InvariantHolds, PTL DEF Spec, OfferedBeforeForgotten

(***************************************************************************)
(* The report on collection.                                               *)
(***************************************************************************)

AttemptRows == [source : HealthSources, status : {Running, Failed, Succeeded}, day : Nat]

\* Attempts are in the order of their days.
AttemptsInOrder ==
  /\ attempts \in Seq(AttemptRows) /\ day \in Nat
  /\ \A i \in DOMAIN attempts : attempts[i].day <= day
  /\ \A i, j \in DOMAIN attempts : i <= j => attempts[i].day <= attempts[j].day

UpTo(n) == IF Len(Newest) < n THEN Len(Newest) ELSE n

\* A report that nothing was recorded beside has read the newest attempts of the
\* lookback as far as its offset, and past the last page all of them.
ReadSoFar ==
  reading # NotReading /\ ~beside =>
    /\ reading.since = IF day > LookbackDays THEN day - LookbackDays ELSE 0
    /\ reading.at = "attempts" => reading.rows = SubSeq(Newest, 1, UpTo(reading.offset))
    /\ reading.at = "sources" => reading.rows = Newest

ReadingTypeOK ==
  /\ reading = [at |-> reading.at, offset |-> reading.offset, rows |-> reading.rows, since |-> reading.since]
  /\ reading.at \in {"idle", "attempts", "sources"} /\ reading.offset \in Nat /\ reading.since \in Nat
  /\ reading.at = "idle" => reading = NotReading

HealthInv == AttemptsInOrder /\ ReadingTypeOK /\ ReadSoFar

LEMMA IndicesAreFinite ==
  ASSUME NEW N \in Nat, NEW S \in SUBSET (1..N)
  PROVE  IsFiniteSet(S) /\ Cardinality(S) \in Nat /\ Cardinality(S) <= N
<1>1. IsFiniteSet(1..N) /\ Cardinality(1..N) = N
  BY FS_Interval
<1> QED BY <1>1, FS_Subset, FS_CardinalityType

LEMMA SubsetIsSmaller ==
  ASSUME NEW N \in Nat, NEW S \in SUBSET (1..N), NEW T \in SUBSET S
  PROVE  Cardinality(T) \in Nat /\ Cardinality(S) \in Nat /\ Cardinality(T) <= Cardinality(S)
<1>1. IsFiniteSet(S)
  BY IndicesAreFinite
<1>2. IsFiniteSet(T) /\ Cardinality(T) <= Cardinality(S)
  BY <1>1, FS_Subset
<1> QED BY <1>1, <1>2, FS_CardinalityType

LEMMA WithoutOne ==
  ASSUME NEW N \in Nat, NEW S \in SUBSET (1..N), NEW i \in S
  PROVE  Cardinality(S \ {i}) = Cardinality(S) - 1 /\ Cardinality(S) \in Nat
<1>1. IsFiniteSet(S)
  BY IndicesAreFinite
<1> QED BY <1>1, FS_RemoveElement, FS_CardinalityType

\* How many of E are from i on.
From(E, i) == {j \in E : j >= i}

LEMMA FromIsASubset ==
  ASSUME NEW N \in Nat, NEW E \in SUBSET (1..N), NEW i \in E
  PROVE  /\ From(E, i) \in SUBSET E /\ From(E, i) \in SUBSET (1..N) /\ i \in From(E, i) /\ i \in Int
         /\ \A x \in From(E, i) : x \in E /\ x >= i /\ x \in Int
<1>1. \A x \in E : x \in 1..N /\ x \in Int
  OBVIOUS
<1>2. i \in Int /\ i >= i
  BY <1>1
<1>3. \A x : x \in From(E, i) <=> x \in E /\ x >= i
  BY DEF From
<1> QED BY <1>1, <1>2, <1>3

LEMMA FromIsLess ==
  ASSUME NEW N \in Nat, NEW E \in SUBSET (1..N), NEW i \in E, NEW j \in E, i < j
  PROVE  Cardinality(From(E, j)) < Cardinality(From(E, i))
<1>1. From(E, i) \in SUBSET (1..N) /\ i \in From(E, i) /\ From(E, j) \in SUBSET (From(E, i) \ {i})
  <2>1. \A x \in From(E, j) : x \in E /\ x >= j /\ x \in Int /\ i \in Int /\ j \in Int
    BY FromIsASubset
  <2>2. \A x \in From(E, j) : x \in E /\ x >= i /\ x # i
    BY <2>1
  <2>3. \A x \in From(E, j) : x \in From(E, i) \ {i}
    BY <2>2 DEF From
  <2>4. From(E, i) \in SUBSET (1..N) /\ i \in From(E, i)
    BY FromIsASubset
  <2> QED BY <2>3, <2>4
<1>2. Cardinality(From(E, i) \ {i}) = Cardinality(From(E, i)) - 1 /\ Cardinality(From(E, i)) \in Nat
  BY <1>1, WithoutOne
<1>3. From(E, i) \ {i} \in SUBSET (1..N)
  BY <1>1
<1>4. Cardinality(From(E, j)) \in Nat /\ Cardinality(From(E, j)) <= Cardinality(From(E, i) \ {i})
  BY <1>1, <1>3, SubsetIsSmaller
<1> QED BY <1>2, <1>4

\* Any number of the last of E are from one of E on.
LEMMA LastOnes ==
  ASSUME NEW N \in Nat, NEW E \in SUBSET (1..N), NEW n \in 1..Cardinality(E)
  PROVE  \E i \in E : Cardinality(From(E, i)) = n
<1> DEFINE f == [i \in E |-> Cardinality(From(E, i))]
           T == 1..Cardinality(E)
<1>1. IsFiniteSet(E) /\ Cardinality(E) \in Nat
  BY IndicesAreFinite
<1>2. ASSUME NEW i \in E PROVE Cardinality(From(E, i)) \in T
  <2>1. From(E, i) \in SUBSET E /\ i \in From(E, i) /\ From(E, i) \in SUBSET (1..N)
    BY FromIsASubset
  <2>2. Cardinality(From(E, i)) \in Nat /\ Cardinality(From(E, i)) <= Cardinality(E)
    BY <2>1, SubsetIsSmaller
  <2>3. Cardinality(From(E, i) \ {i}) = Cardinality(From(E, i)) - 1
    BY <2>1, WithoutOne
  <2>4. From(E, i) \ {i} \in SUBSET (1..N)
    BY <2>1
  <2>5. Cardinality(From(E, i) \ {i}) \in Nat
    BY <2>4, IndicesAreFinite
  <2> QED BY <1>1, <2>2, <2>3, <2>5
<1>3. f \in [E -> T]
  BY <1>2
<1>4. \A i, j \in E : f[i] = f[j] => i = j
  <2> SUFFICES ASSUME NEW i \in E, NEW j \in E, f[i] = f[j] PROVE i = j
    OBVIOUS
  <2>1. f[i] \in Int /\ f[j] \in Int
    BY <1>1, <1>3
  <2>2. i < j => f[j] < f[i]
    BY FromIsLess
  <2>3. j < i => f[i] < f[j]
    BY FromIsLess
  <2>4. i \in Int /\ j \in Int
    OBVIOUS
  <2> HIDE DEF f
  <2> QED BY <2>1, <2>2, <2>3, <2>4
<1> HIDE DEF f, T
<1>5. f \in Injection(E, T)
  BY <1>3, <1>4 DEF Injection, IsInjective
<1>6. IsFiniteSet(T) /\ Cardinality(T) = Cardinality(E)
  BY <1>1, FS_Interval DEF T
<1>7. f \in Surjection(E, T)
  BY <1>1, <1>5, <1>6, FS_Injection
<1>8. n \in T
  BY DEF T
<1>9. \E i \in E : f[i] = n
  BY <1>7, <1>8 DEF Surjection
<1> QED BY <1>9 DEF f

\* The attempts of the lookback are the last ones.
LEMMA RecentAreTheLast ==
  ASSUME AttemptsInOrder, reading.since \in Nat
  PROVE  LET N == Len(attempts)
             k == Cardinality(Recent)
         IN  /\ N \in Nat /\ k \in Nat /\ k <= N /\ DOMAIN attempts = 1..N
             /\ Recent = {i \in 1..N : i > N - k}
<1> DEFINE N == Len(attempts)
           k == Cardinality(Recent)
<1>1. N \in Nat /\ DOMAIN attempts = 1..N /\ Recent \in SUBSET (1..N)
  BY DEF AttemptsInOrder, Recent
<1>2. k \in Nat /\ k <= N /\ IsFiniteSet(Recent)
  BY <1>1, IndicesAreFinite
<1>3. \A i, j \in 1..N : i \in Recent /\ i <= j => j \in Recent
  <2> SUFFICES ASSUME NEW i \in 1..N, NEW j \in 1..N, i \in Recent, i <= j PROVE j \in Recent
    OBVIOUS
  <2>1. attempts[i].day <= attempts[j].day /\ attempts[i].day >= reading.since
    BY <1>1 DEF AttemptsInOrder, Recent
  <2>2. attempts[i].day \in Nat /\ attempts[j].day \in Nat
    <3>1. attempts[i] \in AttemptRows /\ attempts[j] \in AttemptRows
      BY <1>1, ElementOfSeq DEF AttemptsInOrder
    <3> QED BY <3>1 DEF AttemptRows
  <2> QED BY <1>1, <2>1, <2>2 DEF Recent
<1>4. CASE k = 0
  <2>1. Recent = {}
    BY <1>2, <1>4, FS_EmptySet
  <2> QED BY <1>1, <1>2, <1>4, <2>1
<1>5. CASE k # 0
  <2>1. k \in 1..Cardinality(Recent)
    BY <1>2, <1>5
  <2>2. PICK i \in Recent : Cardinality(From(Recent, i)) = k
    BY <1>1, <2>1, LastOnes
  <2>3. i \in 1..N
    BY <1>1
  <2>4. From(Recent, i) \in SUBSET Recent
    BY DEF From
  <2>5. From(Recent, i) = Recent
    BY <1>2, <2>2, <2>4, FS_Subset
  <2>6. Recent = i..N
    <3>1. \A x \in Recent : x \in 1..N /\ x >= i
      BY <1>1, <2>5 DEF From
    <3> HIDE DEF N
    <3>2. Recent \subseteq i..N
      BY <1>1, <2>3, <3>1
    <3>3. \A x \in i..N : x \in 1..N /\ i <= x
      BY <1>1, <2>3
    <3> QED BY <1>3, <2>3, <3>2, <3>3
  <2>7. Cardinality(i..N) = N - i + 1
    BY <1>1, <2>3, FS_Interval
  <2>8. k = N - i + 1
    BY <2>6, <2>7
  <2> HIDE DEF k, N
  <2> QED BY <1>1, <1>2, <2>3, <2>6, <2>8 DEF k, N
<1> QED BY <1>4, <1>5


EndedOf(s) == Finished(attempts, s)
\* The attempts of a source, in the lookback, since which it only failed.
FailedSince(s) == {i \in EndedOf(s) : i \in Recent /\ \A j \in EndedOf(s) : j >= i => attempts[j].status = Failed}

\* The streak the report counts over the newest first is that many attempts.
LEMMA StreakCountsThem ==
  ASSUME AttemptsInOrder, reading.since \in Nat, NEW s
  PROVE  StreakOf(Newest, s) = Cardinality(FailedSince(s))
<1> DEFINE N == Len(attempts)
           k == Cardinality(Recent)
           D == Finished(Newest, s)
           A == {n \in D : \A m \in D : m <= n => Newest[m].status = Failed}
           B == FailedSince(s)
           f == [n \in A |-> N + 1 - n]
<1>1. N \in Nat /\ k \in Nat /\ k <= N /\ DOMAIN attempts = 1..N /\ Recent = {i \in 1..N : i > N - k}
  BY RecentAreTheLast
<1>2. Newest = [n \in 1..k |-> attempts[N + 1 - n]]
  BY DEF Newest
<1>3. StreakOf(Newest, s) = Cardinality(A)
  BY DEF StreakOf
<1> HIDE DEF N, k
<1>4. \A n \in 1..k : N + 1 - n \in Recent /\ N + 1 - n \in 1..N /\ (n \in D <=> N + 1 - n \in EndedOf(s)) /\ Newest[n] = attempts[N + 1 - n]
  <2> SUFFICES ASSUME NEW n \in 1..k PROVE N + 1 - n \in Recent /\ N + 1 - n \in 1..N /\ (n \in D <=> N + 1 - n \in EndedOf(s)) /\ Newest[n] = attempts[N + 1 - n]
    OBVIOUS
  <2>1. N + 1 - n \in 1..N /\ N + 1 - n > N - k
    BY <1>1
  <2>2. Newest[n] = attempts[N + 1 - n] /\ n \in DOMAIN Newest
    BY <1>2
  <2> QED BY <1>1, <2>1, <2>2 DEF Finished, EndedOf
<1>5. D \subseteq 1..k /\ EndedOf(s) \subseteq 1..N
  BY <1>1, <1>2 DEF Finished, EndedOf
<1>6. \A i \in Recent : i \in 1..N /\ N + 1 - i \in 1..k /\ N + 1 - (N + 1 - i) = i
  BY <1>1
<1>7. \A n \in 1..k : n \in A <=> N + 1 - n \in B
  <2> SUFFICES ASSUME NEW n \in 1..k PROVE n \in A <=> N + 1 - n \in B
    OBVIOUS
  <2>1. ASSUME n \in A PROVE N + 1 - n \in B
    <3>1. N + 1 - n \in EndedOf(s) /\ N + 1 - n \in Recent
      BY <1>4, <2>1
    <3>2. ASSUME NEW j \in EndedOf(s), j >= N + 1 - n PROVE attempts[j].status = Failed
      <4>1. j \in Recent
        BY <1>1, <1>5, <3>1, <3>2
      <4>2. N + 1 - j \in 1..k /\ N + 1 - (N + 1 - j) = j /\ N + 1 - j <= n
        BY <1>1, <1>6, <3>2, <4>1
      <4>3. N + 1 - j \in D /\ Newest[N + 1 - j] = attempts[j]
        BY <1>4, <3>2, <4>2
      <4> QED BY <2>1, <4>2, <4>3
    <3> QED BY <3>1, <3>2 DEF FailedSince
  <2>2. ASSUME N + 1 - n \in B PROVE n \in A
    <3>1. n \in D
      BY <1>4, <2>2 DEF FailedSince
    <3>2. ASSUME NEW m \in D, m <= n PROVE Newest[m].status = Failed
      <4>1. m \in 1..k
        BY <1>5, <3>2
      <4>2. N + 1 - m \in EndedOf(s) /\ Newest[m] = attempts[N + 1 - m]
        BY <1>4, <3>2, <4>1
      <4>3. N + 1 - m >= N + 1 - n
        BY <1>1, <3>2, <4>1
      <4> QED BY <2>2, <4>2, <4>3 DEF FailedSince
    <3> QED BY <3>1, <3>2
  <2> QED BY <2>1, <2>2
<1>8. A \subseteq 1..k /\ B \subseteq Recent
  BY <1>5 DEF FailedSince
<1> HIDE DEF A, B, D
<1>9. f \in [A -> B] /\ (\A m, n \in A : f[m] = f[n] => m = n) /\ \A i \in B : \E n \in A : f[n] = i
  <2>1. \A n \in A : N + 1 - n \in B
    BY <1>7, <1>8
  <2>2. \A m, n \in A : N + 1 - m = N + 1 - n => m = n
    BY <1>1, <1>8
  <2>3. \A i \in B : N + 1 - i \in A /\ N + 1 - (N + 1 - i) = i
    BY <1>6, <1>7, <1>8
  <2>4. \A n \in A : f[n] = N + 1 - n
    OBVIOUS
  <2> QED BY <2>1, <2>2, <2>3, <2>4
<1> HIDE DEF f
<1>10. f \in Bijection(A, B)
  BY <1>9 DEF Bijection, Injection, Surjection, IsInjective
<1>11. IsFiniteSet(A)
  BY <1>1, <1>8, IndicesAreFinite
<1>12. Cardinality(A) = Cardinality(B)
  BY <1>10, <1>11, FS_Bijection DEF ExistsBijection
<1> QED BY <1>3, <1>12 DEF B

\* A streak that long is what the report is to name, if it is within the lookback.
LEMMA StreakIsTheLast ==
  ASSUME AttemptsInOrder, reading.since \in Nat, NEW s, StreakOf(Newest, s) >= FailureStreak
  PROVE  LastAllFailed(s)
<1> DEFINE N == Len(attempts)
           E == EndedOf(s)
           B == FailedSince(s)
<1>1. N \in Nat /\ E \in SUBSET (1..N) /\ B \in SUBSET E /\ B \in SUBSET (1..N)
  BY RecentAreTheLast DEF EndedOf, Finished, FailedSince
<1>2. Cardinality(B) >= FailureStreak /\ FailureStreak \in Nat \ {0}
  BY StreakCountsThem, HealthAssumption
<1> HIDE DEF N
<1>3. Cardinality(B) \in Nat /\ Cardinality(E) \in Nat /\ Cardinality(B) <= Cardinality(E)
  BY <1>1, SubsetIsSmaller
<1>4. FailureStreak \in 1..Cardinality(E)
  BY <1>2, <1>3
<1>5. PICK i \in E : Cardinality(From(E, i)) = FailureStreak
  BY <1>1, <1>4, LastOnes
<1>6. i \in B
  <2> SUFFICES ASSUME i \notin B PROVE FALSE
    OBVIOUS
  <2>1. ASSUME NEW b \in B PROVE b \in From(E, i) \ {i}
    <3>1. b \in Int /\ i \in Int /\ b \in E /\ b # i
      BY <1>1
    <3>2. ~(b < i)
      <4> SUFFICES ASSUME b < i PROVE FALSE
        OBVIOUS
      <4>1. b \in Recent /\ i \in 1..N
        BY <1>1 DEF FailedSince
      <4>2. i \in Recent
        BY <4>1, <3>1, RecentAreTheLast DEF N
      <4>3. \A j \in E : j >= i => j >= b
        BY <1>1, <3>1
      <4>4. i \in B
        BY <4>2, <4>3, <1>5 DEF FailedSince
      <4> QED BY <4>4
    <3> QED BY <3>1, <3>2 DEF From
  <2>2. From(E, i) \in SUBSET (1..N) /\ i \in From(E, i)
    BY <1>1, FromIsASubset
  <2>3. Cardinality(From(E, i) \ {i}) = FailureStreak - 1
    BY <1>1, <1>5, <2>2, WithoutOne
  <2>4. B \in SUBSET (From(E, i) \ {i}) /\ From(E, i) \ {i} \in SUBSET (1..N)
    BY <2>1, <2>2
  <2>5. Cardinality(B) <= Cardinality(From(E, i) \ {i})
    BY <1>1, <2>4, SubsetIsSmaller
  <2> QED BY <1>2, <1>3, <2>3, <2>5
<1>7. \A j \in From(E, i) : attempts[j].status = Failed
  BY <1>6 DEF FailedSince, From
<1> QED BY <1>5, <1>7 DEF LastAllFailed, EndedOf, From

LEMMA LastIsAStreak ==
  ASSUME AttemptsInOrder, NEW s, LastAllFailed(s),
         reading.since = IF day > LookbackDays THEN day - LookbackDays ELSE 0,
         Cardinality({i \in DOMAIN attempts : /\ attempts[i].source = s /\ attempts[i].status = Failed
                                              /\ attempts[i].day + LookbackDays >= day}) >= FailureStreak
  PROVE  StreakOf(Newest, s) >= FailureStreak
<1> DEFINE N == Len(attempts)
           E == EndedOf(s)
           B == FailedSince(s)
           W == {i \in DOMAIN attempts : /\ attempts[i].source = s /\ attempts[i].status = Failed
                                         /\ attempts[i].day + LookbackDays >= day}
<1>1. reading.since \in Nat /\ day \in Nat /\ LookbackDays \in Nat
  BY HealthAssumption DEF AttemptsInOrder
<1>2. N \in Nat /\ DOMAIN attempts = 1..N /\ E \in SUBSET (1..N) /\ B \in SUBSET (1..N)
  BY <1>1, RecentAreTheLast DEF EndedOf, Finished, FailedSince
<1>3. PICK i \in E : Cardinality(From(E, i)) = FailureStreak /\ \A j \in From(E, i) : attempts[j].status = Failed
  BY DEF LastAllFailed, EndedOf, From
<1>4. \A j \in W : j \in E /\ j \in Recent
  <2> SUFFICES ASSUME NEW j \in W PROVE j \in E /\ j \in Recent
    OBVIOUS
  <2>1. attempts[j] \in AttemptRows /\ j \in DOMAIN attempts
    BY <1>2, ElementOfSeq DEF AttemptsInOrder
  <2>2. attempts[j].day \in Nat
    BY <2>1 DEF AttemptRows
  <2>3. attempts[j].day >= reading.since
    BY <1>1, <2>2
  <2> QED BY <2>1, <2>3 DEF Recent, EndedOf, Finished, Failed, Running
<1>5. i \in Recent
  <2> SUFFICES ASSUME i \notin Recent PROVE FALSE
    OBVIOUS
  <2>1. \A j \in W : j \in From(E, i) \ {i}
    <3> SUFFICES ASSUME NEW j \in W PROVE j \in From(E, i) \ {i}
      OBVIOUS
    <3>1. j \in E /\ j \in Recent /\ j \in 1..N /\ i \in 1..N /\ j # i
      BY <1>2, <1>4
    <3>2. j >= i
      BY <1>1, <3>1, RecentAreTheLast
    <3> QED BY <3>1, <3>2 DEF From
  <2>2. From(E, i) \in SUBSET (1..N) /\ i \in From(E, i)
    BY <1>2, FromIsASubset
  <2>3. Cardinality(From(E, i) \ {i}) = FailureStreak - 1
    BY <1>2, <1>3, <2>2, WithoutOne
  <2>4. W \in SUBSET (From(E, i) \ {i}) /\ From(E, i) \ {i} \in SUBSET (1..N)
    BY <2>1, <2>2
  <2> HIDE DEF W
  <2>5. Cardinality(W) <= Cardinality(From(E, i) \ {i}) /\ Cardinality(W) \in Nat
    BY <1>2, <2>4, SubsetIsSmaller
  <2> QED BY <2>3, <2>5, HealthAssumption DEF W
<1>6. From(E, i) \in SUBSET B
  <2> SUFFICES ASSUME NEW j \in From(E, i) PROVE j \in B
    OBVIOUS
  <2>1. j \in E /\ j >= i /\ j \in Int /\ i \in Int
    BY <1>2, FromIsASubset
  <2>2. j \in Recent
    BY <1>1, <1>2, <1>5, <2>1, RecentAreTheLast
  <2>3. \A h \in E : h >= j => h \in From(E, i)
    BY <1>2, <2>1 DEF From
  <2> QED BY <1>3, <2>1, <2>2, <2>3 DEF FailedSince
<1>7. FailureStreak <= Cardinality(B) /\ Cardinality(B) \in Nat
  BY <1>2, <1>3, <1>6, SubsetIsSmaller
<1> QED BY <1>1, <1>7, StreakCountsThem, HealthAssumption


LEMMA NewestIsASequence ==
  ASSUME AttemptsInOrder, reading.since \in Nat
  PROVE  Newest \in Seq(AttemptRows) /\ Len(Newest) \in Nat
<1> DEFINE N == Len(attempts)
           k == Cardinality(Recent)
<1>1. N \in Nat /\ k \in Nat /\ k <= N /\ DOMAIN attempts = 1..N
  BY RecentAreTheLast
<1>2. Newest = [n \in 1..k |-> attempts[N + 1 - n]]
  BY DEF Newest
<1> HIDE DEF N, k
<1>3. \A n \in 1..k : attempts[N + 1 - n] \in AttemptRows
  <2>1. \A n \in 1..k : N + 1 - n \in 1..N
    BY <1>1
  <2> QED BY <2>1, ElementOfSeq DEF AttemptsInOrder, N
<1> QED BY <1>1, <1>2, <1>3

LEMMA HealthStarts == HealthInit => HealthInv
<1> SUFFICES ASSUME HealthInit PROVE HealthInv
  OBVIOUS
<1>1. AttemptsInOrder
  BY DEF HealthInit, AttemptsInOrder
<1>2. ReadingTypeOK
  BY DEF HealthInit, ReadingTypeOK, NotReading
<1>3. ReadSoFar
  BY DEF HealthInit, ReadSoFar
<1> QED BY <1>1, <1>2, <1>3 DEF HealthInv

LEMMA BesideAReading ==
  ASSUME Meanwhile, reading' = reading
  PROVE  ReadSoFar'
BY DEF Meanwhile, ReadSoFar

LEMMA ReadingIsKept ==
  ASSUME ReadingTypeOK, reading' = reading
  PROVE  ReadingTypeOK'
BY DEF ReadingTypeOK, NotReading

LEMMA OrderIsKept ==
  ASSUME AttemptsInOrder, attempts' = attempts, day' = day
  PROVE  AttemptsInOrder'
BY DEF AttemptsInOrder

LEMMA NewestIsKept ==
  ASSUME attempts' = attempts, reading'.since = reading.since
  PROVE  Newest' = Newest
<1>1. Recent' = Recent
  BY DEF Recent
<1> QED BY <1>1 DEF Newest

LEMMA StartAttemptReads ==
  ASSUME HealthInv, NEW s \in HealthSources, StartAttempt(s)
  PROVE  HealthInv'
<1> DEFINE a == [source |-> s, status |-> Running, day |-> day]
           N == Len(attempts)
<1>1. attempts \in Seq(AttemptRows) /\ day \in Nat /\ attempts' = Append(attempts, a) /\ day' = day /\ N \in Nat
  BY DEF HealthInv, AttemptsInOrder, StartAttempt
<1>2. a \in AttemptRows /\ a.day = day
  BY <1>1 DEF AttemptRows
<1> HIDE DEF a
<1>3. /\ attempts' \in Seq(AttemptRows) /\ DOMAIN attempts' = 1..N + 1
      /\ \A i \in 1..N : attempts'[i] = attempts[i]
      /\ attempts'[N + 1] = a
  <2>1. attempts' \in Seq(AttemptRows) /\ Len(attempts') = N + 1
    BY <1>1, <1>2, AppendProperties
  <2> QED BY <1>1, <1>2, <2>1, AppendProperties
<1>4. \A i \in 1..N : attempts[i].day \in Nat /\ attempts[i].day <= day
  <2> SUFFICES ASSUME NEW i \in 1..N PROVE attempts[i].day \in Nat /\ attempts[i].day <= day
    OBVIOUS
  <2>1. attempts[i] \in AttemptRows
    BY <1>1, ElementOfSeq
  <2>2. i \in DOMAIN attempts
    BY <1>1
  <2> QED BY <2>1, <2>2 DEF HealthInv, AttemptsInOrder, AttemptRows
<1>5. \A i, j \in 1..N : i <= j => attempts[i].day <= attempts[j].day
  BY <1>1 DEF HealthInv, AttemptsInOrder
<1> HIDE DEF N
<1>6. AttemptsInOrder'
  <2>1. \A i \in 1..N + 1 : i \in 1..N \/ i = N + 1
    BY <1>1 DEF N
  <2>2. \A i \in 1..N + 1 : attempts'[i].day <= day
    BY <1>1, <1>2, <1>3, <1>4, <2>1
  <2>3. ASSUME NEW i \in 1..N + 1, NEW j \in 1..N + 1, i <= j PROVE attempts'[i].day <= attempts'[j].day
    <3>1. CASE j \in 1..N
      <4>1. i \in 1..N
        BY <1>1, <2>3, <3>1 DEF N
      <4> QED BY <1>3, <1>5, <2>3, <3>1, <4>1
    <3>2. CASE j = N + 1
      <4>1. attempts'[j].day = day
        BY <1>2, <1>3, <3>2
      <4> QED BY <2>2, <4>1
    <3> QED BY <2>1, <3>1, <3>2
  <2> QED BY <1>1, <1>3, <2>2, <2>3 DEF AttemptsInOrder
<1>7. Meanwhile /\ reading' = reading
  BY DEF StartAttempt
<1> QED BY <1>6, <1>7, BesideAReading, ReadingIsKept DEF HealthInv

LEMMA EndAttemptReads ==
  ASSUME HealthInv, NEW n \in DOMAIN attempts, EndAttempt(n)
  PROVE  HealthInv'
<1> DEFINE N == Len(attempts)
<1>1. attempts \in Seq(AttemptRows) /\ day \in Nat /\ day' = day /\ N \in Nat /\ DOMAIN attempts = 1..N
  BY DEF HealthInv, AttemptsInOrder, EndAttempt
<1>2. PICK how \in {Failed, Succeeded} : attempts' = [attempts EXCEPT ![n].status = how]
  BY DEF EndAttempt
<1> DEFINE a == [attempts[n] EXCEPT !.status = how]
<1>3. attempts' = [attempts EXCEPT ![n] = a]
  BY <1>2
<1>4. attempts[n] \in AttemptRows
  BY <1>1, ElementOfSeq
<1>5. a \in AttemptRows /\ a.day = attempts[n].day
  BY <1>4 DEF AttemptRows
<1> HIDE DEF a
<1>6. attempts' \in Seq(AttemptRows) /\ Len(attempts') = N /\ \A i \in 1..N : attempts'[i].day = attempts[i].day
  BY <1>1, <1>3, <1>5, ExceptSeq
<1>7. DOMAIN attempts' = 1..N
  BY <1>6
<1>8. AttemptsInOrder'
  BY <1>1, <1>6, <1>7 DEF HealthInv, AttemptsInOrder
<1>9. Meanwhile /\ reading' = reading
  BY DEF EndAttempt
<1> QED BY <1>8, <1>9, BesideAReading, ReadingIsKept DEF HealthInv

LEMMA SwitchSourceReads ==
  ASSUME HealthInv, UNCHANGED <<attempts, day, reading, beside>>
  PROVE  HealthInv'
<1>1. AttemptsInOrder' /\ ReadingTypeOK'
  BY OrderIsKept, ReadingIsKept DEF HealthInv
<1>2. Newest' = Newest
  BY NewestIsKept
<1>3. \A n : UpTo(n)' = UpTo(n)
  BY <1>2 DEF UpTo
<1>4. ReadSoFar'
  BY <1>2 DEF HealthInv, ReadSoFar, UpTo
<1> QED BY <1>1, <1>4 DEF HealthInv

LEMMA NextDayReads ==
  ASSUME HealthInv, NextDay
  PROVE  HealthInv'
<1>1. attempts \in Seq(AttemptRows) /\ day \in Nat /\ day' = day + 1 /\ attempts' = attempts
  BY DEF HealthInv, AttemptsInOrder, NextDay
<1>2. \A i \in DOMAIN attempts : attempts[i].day <= day + 1
  <2> SUFFICES ASSUME NEW i \in DOMAIN attempts PROVE attempts[i].day <= day + 1
    OBVIOUS
  <2>1. attempts[i] \in AttemptRows /\ attempts[i].day <= day
    BY <1>1, ElementOfSeq DEF HealthInv, AttemptsInOrder
  <2>2. attempts[i].day \in Nat
    BY <2>1 DEF AttemptRows
  <2> QED BY <1>1, <2>1, <2>2
<1>3. AttemptsInOrder'
  BY <1>1, <1>2 DEF HealthInv, AttemptsInOrder
<1>4. reading = NotReading /\ reading' = reading
  BY DEF NextDay
<1>5. ReadSoFar'
  BY <1>4 DEF ReadSoFar, NotReading
<1> QED BY <1>3, <1>4, <1>5, ReadingIsKept DEF HealthInv

LEMMA StartReportReads ==
  ASSUME HealthInv, StartReport
  PROVE  HealthInv'
<1>1. attempts' = attempts /\ day' = day /\ day \in Nat /\ LookbackDays \in Nat
  BY HealthAssumption DEF HealthInv, AttemptsInOrder, StartReport
<1>2. AttemptsInOrder'
  BY <1>1, OrderIsKept DEF HealthInv
<1> DEFINE from == IF day > LookbackDays THEN day - LookbackDays ELSE 0
<1>3. from \in Nat
  BY <1>1
<1>4. reading' = [at |-> "attempts", offset |-> 0, rows |-> <<>>, since |-> from]
  BY DEF StartReport
<1> HIDE DEF from
<1>5. reading'.at = "attempts" /\ reading'.offset = 0 /\ reading'.rows = <<>> /\ reading'.since = from
  BY <1>4
<1>6. ReadingTypeOK'
  BY <1>3, <1>4, <1>5 DEF ReadingTypeOK
<1>7. Len(Newest') \in Nat
  <2>1. Len(attempts') \in Nat /\ DOMAIN attempts' = 1..Len(attempts')
    BY <1>2 DEF AttemptsInOrder
  <2>2. Recent' \in SUBSET (1..Len(attempts'))
    BY <2>1 DEF Recent
  <2>3. Cardinality(Recent') \in Nat
    BY <2>1, <2>2, IndicesAreFinite
  <2> QED BY <2>3 DEF Newest
<1>8. SubSeq(Newest', 1, UpTo(0)') = <<>>
  <2>1. UpTo(0)' = 0
    BY <1>7 DEF UpTo
  <2> QED BY <2>1, SubSeqEmpty
<1>9. ReadSoFar'
  BY <1>1, <1>5, <1>8 DEF ReadSoFar, from, UpTo
<1> QED BY <1>2, <1>6, <1>9 DEF HealthInv

LEMMA ReadPageReads ==
  ASSUME HealthInv, ReadPage
  PROVE  HealthInv'
<1> DEFINE last == UpTo(reading.offset + AttemptPage)
           page == SubSeq(Newest, reading.offset + 1, last)
<1>1. /\ attempts' = attempts /\ day' = day /\ beside' = beside
      /\ reading.at = "attempts" /\ reading.offset \in Nat /\ reading.since \in Nat /\ AttemptPage \in Nat \ {0}
  BY HealthAssumption DEF HealthInv, ReadingTypeOK, ReadPage
<1>2. reading = [at |-> reading.at, offset |-> reading.offset, rows |-> reading.rows, since |-> reading.since]
  BY DEF HealthInv, ReadingTypeOK
<1>3. AttemptsInOrder'
  BY <1>1, OrderIsKept DEF HealthInv
<1>4. Newest \in Seq(AttemptRows) /\ Len(Newest) \in Nat
  BY <1>1, NewestIsASequence DEF HealthInv
<1>5. reading' = IF page = <<>> THEN [reading EXCEPT !.at = "sources"]
                 ELSE [reading EXCEPT !.rows = @ \o page, !.offset = @ + AttemptPage]
  BY DEF ReadPage, UpTo
<1>7. reading # NotReading
  BY <1>1 DEF NotReading
<1>8. ~beside => /\ reading.since = IF day > LookbackDays THEN day - LookbackDays ELSE 0
                 /\ reading.rows = SubSeq(Newest, 1, UpTo(reading.offset))
  BY <1>1, <1>7 DEF HealthInv, ReadSoFar
<1>9. ~beside => /\ page = <<>> => reading.rows = Newest
                 /\ page # <<>> => reading.rows \o page = SubSeq(Newest, 1, last)
  <2> SUFFICES ASSUME ~beside PROVE /\ page = <<>> => reading.rows = Newest
                                    /\ page # <<>> => reading.rows \o page = SubSeq(Newest, 1, last)
    OBVIOUS
  <2>1. PICK q \in Seq(AttemptRows) : q = Newest
    BY <1>4
  <2>2. PICK from \in Nat, size \in Nat \ {0} : from = reading.offset /\ size = AttemptPage
    BY <1>1
  <2>3. reading.rows = SubSeq(q, 1, IF Len(q) < from THEN Len(q) ELSE from)
    BY <1>8, <2>1, <2>2 DEF UpTo
  <2>4. PICK l : l = last
    OBVIOUS
  <2>5. PICK p : p = page
    OBVIOUS
  <2>6. PICK r : r = reading.rows
    OBVIOUS
  <2>7. l = IF Len(q) < from + size THEN Len(q) ELSE from + size
    BY <2>1, <2>2, <2>4 DEF UpTo
  <2>8. p = SubSeq(q, from + 1, l)
    BY <2>1, <2>2, <2>4, <2>5
  <2>9. r = SubSeq(q, 1, IF Len(q) < from THEN Len(q) ELSE from)
    BY <2>3, <2>6
  <2>10. (p = <<>> => r = q) /\ (p # <<>> => r \o p = SubSeq(q, 1, l))
    <3>1. Len(q) \in Nat /\ l \in Nat
      BY <2>7
    <3>2. ASSUME p = <<>> PROVE r = q
      <4>1. l < from + 1
        <5> SUFFICES ASSUME from + 1 <= l PROVE FALSE
          BY <3>1
        <5>1. \A i \in from + 1 .. l : q[i] \in AttemptRows
          <6>1. \A i \in from + 1 .. l : i \in 1..Len(q)
            BY <2>7, <3>1
          <6> QED BY <6>1, ElementOfSeq
        <5>2. Len(p) = l - (from + 1) + 1
          BY <2>8, <3>1, <5>1, SubSeqProperties
        <5>3. Len(<<>>) = 0
          OBVIOUS
        <5>4. Len(p) = 0
          BY <3>2, <5>3, Zenon
        <5> QED BY <3>1, <5>2, <5>4
      <4>2. Len(q) <= from
        BY <2>7, <3>1, <4>1
      <4>3. r = SubSeq(q, 1, Len(q))
        BY <2>9, <3>1, <4>2
      <4> QED BY <4>3, SubSeqFull
    <3>3. ASSUME p # <<>> PROVE r \o p = SubSeq(q, 1, l)
      <4>1. from + 1 <= l
        <5> SUFFICES ASSUME l < from + 1 PROVE FALSE
          BY <3>1
        <5>1. p = <<>>
          BY <2>8, <3>1, SubSeqEmpty
        <5> QED BY <3>3, <5>1
      <4>2. r = SubSeq(q, 1, from) /\ from \in 0..Len(q) /\ l \in from..Len(q)
        BY <2>7, <2>9, <3>1, <4>1
      <4>3. 1 \in 1..Len(q) + 1 /\ from \in 1 - 1 .. Len(q)
        BY <3>1, <4>2
      <4> QED BY <2>8, <4>2, <4>3, ConcatAdjacentSubSeq
    <3> QED BY <3>2, <3>3
  <2> HIDE DEF page, last
  <2> QED BY <2>1, <2>4, <2>5, <2>6, <2>10
<1> HIDE DEF page
<1>10. CASE page = <<>>
  <2>1. reading' = [at |-> "sources", offset |-> reading.offset, rows |-> reading.rows, since |-> reading.since]
    BY <1>2, <1>5, <1>10
  <2>2. reading'.at = "sources" /\ reading'.offset = reading.offset /\ reading'.rows = reading.rows /\ reading'.since = reading.since
    BY <2>1
  <2>3. Newest' = Newest
    BY <1>1, <2>2, NewestIsKept
  <2>4. ReadingTypeOK'
    BY <1>1, <2>1, <2>2 DEF ReadingTypeOK
  <2>5. ReadSoFar'
    BY <1>1, <1>8, <1>9, <1>10, <2>2, <2>3 DEF ReadSoFar
  <2> QED BY <1>3, <2>4, <2>5 DEF HealthInv
<1>11. CASE page # <<>>
  <2> DEFINE rows == reading.rows \o page
             offset == reading.offset + AttemptPage
  <2>1. reading' = [at |-> reading.at, offset |-> offset, rows |-> rows, since |-> reading.since]
    BY <1>2, <1>5, <1>11
  <2>2. offset \in Nat /\ last = UpTo(offset)
    BY <1>1
  <2>3. ~beside => rows = SubSeq(Newest, 1, last)
    BY <1>9, <1>11
  <2> HIDE DEF rows, offset, last
  <2>4. reading'.at = reading.at /\ reading'.offset = offset /\ reading'.rows = rows /\ reading'.since = reading.since
    BY <2>1
  <2>5. Newest' = Newest
    BY <1>1, <2>4, NewestIsKept
  <2>6. ReadingTypeOK'
    BY <1>1, <2>1, <2>2, <2>4 DEF ReadingTypeOK
  <2>7. UpTo(reading.offset)' = UpTo(offset)
    BY <2>4, <2>5 DEF UpTo
  <2>8. ReadSoFar'
    BY <1>1, <1>8, <2>2, <2>3, <2>4, <2>5, <2>7 DEF ReadSoFar
  <2> QED BY <1>3, <2>6, <2>8 DEF HealthInv
<1> QED BY <1>10, <1>11

LEMMA ReportReads ==
  ASSUME HealthInv, Report
  PROVE  HealthInv'
<1>1. AttemptsInOrder'
  BY OrderIsKept DEF HealthInv, Report
<1>2. reading' = NotReading
  BY DEF Report
<1>3. ReadingTypeOK' /\ ReadSoFar'
  BY <1>2 DEF ReadingTypeOK, ReadSoFar, NotReading
<1> QED BY <1>1, <1>3 DEF HealthInv

LEMMA HealthStepsRead ==
  ASSUME HealthInv, [HealthNext]_healthVars
  PROVE  HealthInv'
<1>1. ASSUME NEW s \in HealthSources, StartAttempt(s) PROVE HealthInv'
  BY <1>1, StartAttemptReads
<1>2. ASSUME NEW s \in HealthSources, SwitchSource(s) PROVE HealthInv'
  BY <1>2, SwitchSourceReads DEF SwitchSource
<1>3. ASSUME NEW i \in DOMAIN attempts, EndAttempt(i) PROVE HealthInv'
  BY <1>3, EndAttemptReads
<1>4. UNCHANGED healthVars => HealthInv'
  BY SwitchSourceReads DEF healthVars
<1> QED BY <1>1, <1>2, <1>3, <1>4, NextDayReads, StartReportReads, ReadPageReads, ReportReads DEF HealthNext

\* Only the report changes the findings, and a report of a quiet moment names what it says.
LEMMA AReportNamesThem ==
  ASSUME HealthInv, [HealthNext]_healthVars, findings' # findings, ~beside, NEW s \in HealthSources
  PROVE  /\ s \in findings'.failing => LastAllFailed(s) /\ sources[s].enabled
         /\ (LastAllFailed(s) /\ sources[s].enabled
             /\ Cardinality({i \in DOMAIN attempts : /\ attempts[i].source = s /\ attempts[i].status = Failed
                                                     /\ attempts[i].day + LookbackDays >= day}) >= FailureStreak)
            => s \in findings'.failing
<1>1. Report
  <2>1. ASSUME NEW i, EndAttempt(i) PROVE findings' = findings
    BY <2>1 DEF EndAttempt
  <2>2. ASSUME NEW v, StartAttempt(v) \/ SwitchSource(v) PROVE findings' = findings
    BY <2>2 DEF StartAttempt, SwitchSource
  <2>3. NextDay \/ StartReport \/ ReadPage \/ UNCHANGED healthVars => findings' = findings
    BY DEF NextDay, StartReport, ReadPage, healthVars
  <2> QED BY <2>1, <2>2, <2>3 DEF HealthNext
<1>2. reading.at = "sources" /\ reading # NotReading
  BY <1>1 DEF Report, NotReading
<1>3. reading.rows = Newest /\ reading.since = IF day > LookbackDays THEN day - LookbackDays ELSE 0
  BY <1>2 DEF HealthInv, ReadSoFar
<1>4. AttemptsInOrder /\ reading.since \in Nat
  BY DEF HealthInv, ReadingTypeOK
<1>5. s \in findings'.failing <=> StreakOf(reading.rows, s) >= FailureStreak /\ sources[s].enabled
  BY <1>1 DEF Report
<1>6. s \in findings'.failing <=> StreakOf(Newest, s) >= FailureStreak /\ sources[s].enabled
  BY <1>3, <1>5
<1>7. StreakOf(Newest, s) >= FailureStreak => LastAllFailed(s)
  BY <1>4, StreakIsTheLast
<1> QED BY <1>3, <1>4, <1>6, <1>7, LastIsAStreak

\* A report nothing was recorded beside names exactly the sources whose last attempts
\* all failed and that are on (FailingIsReported), however many pages the attempts are
\* read in and however long the streak and the lookback are.
THEOREM FailingIsNamed == HealthSpec => FailingIsReported
<1>1. HealthInit => HealthInv
  BY HealthStarts
<1>2. HealthInv /\ [HealthNext]_healthVars => HealthInv'
  BY HealthStepsRead
<1>3. HealthInv /\ [HealthNext]_healthVars
        => [(findings' # findings /\ ~beside)
       => \A s \in HealthSources :
            /\ s \in findings'.failing => LastAllFailed(s) /\ sources[s].enabled
            /\ (LastAllFailed(s) /\ sources[s].enabled
                /\ Cardinality({i \in DOMAIN attempts : /\ attempts[i].source = s /\ attempts[i].status = Failed
                                                        /\ attempts[i].day + LookbackDays >= day}) >= FailureStreak)
               => s \in findings'.failing]_healthVars
  BY AReportNamesThem
<1> QED BY <1>1, <1>2, <1>3, PTL DEF HealthSpec, FailingIsReported

=============================================================================
