----------------------------- MODULE ProgramPages -----------------------------
(***************************************************************************)
(* The page of a program and the recruiting calendar of an account         *)
(* (lib/real-data.ts loadRealRoleView, loadRealCalendar): each is put       *)
(* together from reads that follow one another, or run side by side, while *)
(* regeneration forecasts or declines the programs, postings open and      *)
(* close, and the account follows and plans from another tab.              *)
(* Regeneration runs one program at a time and stamps a version, or a      *)
(* refusal, when it starts on it.                                          *)
(***************************************************************************)
EXTENDS Naturals, Sequences, FiniteSets, SequencesExt

CONSTANTS
    Programs,
    Receipts,        \* the contributions each version of a forecast links, by version
    ReceiptPage,     \* PROVENANCE_PAGE_SIZE
    VersionsShown,   \* the versions a page shows
    MaxVersions, MaxLoads, MaxFollows    \* bounds

ASSUME PagesAssumption ==
    /\ ReceiptPage \in Nat \ {0} /\ VersionsShown \in Nat /\ MaxVersions \in Nat
    /\ Receipts \in [1..MaxVersions -> Nat]

VARIABLES
    programs,    \* canonical_roles: listed, and when the model last declined each
    versions,    \* forecasts: the stored versions of each program, oldest first
    revisions,   \* forecast_changes: the versions whose revision is stored
    openings,    \* the openings recorded of each program
    steps,       \* readiness_milestones: [program, version]
    follows,     \* the programs the account's follows cover
    stamp,       \* the clock of regeneration
    load,        \* the page being put together, or shown
    during,      \* every current version of each program since the load began; 0 is none
    knew,        \* the revisions stored when the load began
    loads, followed    \* bounds used up

programVars == <<programs, versions, revisions, openings, steps, follows, stamp, load, during, knew, loads, followed>>

NoLoad == [at |-> "none"]
NoVersion == 0
DetailReads == {"receipts", "revisions", "steps", "follow"}   \* a version's basis never changes
DatedReads == {"forecasts", "steps", "openings"}
CalendarReads == DatedReads \cup {"cycles"}

ForecastIsCurrent(version, refusedAt) == version.at > refusedAt

\* The version in force, of a list in the order it was written; 0 when there is none.
CurrentOf(list, refusedAt) ==
    IF list # <<>> /\ ForecastIsCurrent(Last(list), refusedAt) THEN Len(list) ELSE NoVersion

ProgramsInit ==
    /\ programs = [p \in Programs |-> [listed |-> TRUE, refusedAt |-> 0]]
    /\ versions = [p \in Programs |-> <<>>]
    /\ revisions = [p \in Programs |-> {}]
    /\ openings = [p \in Programs |-> 0]
    /\ steps = {}
    /\ follows = {}
    /\ stamp = 0
    /\ load = NoLoad
    /\ during = [p \in Programs |-> {NoVersion}]
    /\ knew = revisions
    /\ loads = 0
    /\ followed = 0

\* What migration 202608140043 calls current: written after the last refusal.
InForce(list, refusedAt) ==
    LET current == {v \in DOMAIN list : v = Len(list) /\ list[v].at > refusedAt}
    IN IF current = {} THEN NoVersion ELSE Len(list)

Idling == load.at \in {"none", "shown", "missing"}

\* What comes into force while a page is put together is one more thing it may show.
Witness == during' = IF Idling THEN during
                     ELSE [p \in Programs |-> during[p] \cup {InForce(versions'[p], programs'[p].refusedAt)}]

--------------------------------------------------------------------------------
(* The world. *)

\* A version, its window moved or not; the revision is stored by a later request.
StoreVersion(p, moved) ==
    /\ Len(versions[p]) < MaxVersions
    /\ stamp' = stamp + 1
    /\ versions' = [versions EXCEPT ![p] = Append(@, [at |-> stamp', moved |-> moved /\ @ # <<>>])]
    /\ UNCHANGED <<programs, revisions, openings, steps, follows, load, knew, loads, followed>>
    /\ Witness

StoreRevision(p) ==
    /\ Len(versions[p]) > 1
    /\ Len(versions[p]) \notin revisions[p]
    /\ revisions' = [revisions EXCEPT ![p] = @ \cup {Len(versions[p])}]
    /\ UNCHANGED <<programs, versions, openings, steps, follows, stamp, load, during, knew, loads, followed>>

\* Regeneration plans a new version for those who watch; the steps of earlier versions stay.
PlanForWatchers(p) ==
    /\ p \in follows
    /\ LET v == CurrentOf(versions[p], programs[p].refusedAt) IN
       /\ v # NoVersion
       /\ [program |-> p, version |-> v] \notin steps
       /\ steps' = steps \cup {[program |-> p, version |-> v]}
    /\ UNCHANGED <<programs, versions, revisions, openings, follows, stamp, load, during, knew, loads, followed>>

Decline(p) ==
    /\ CurrentOf(versions[p], programs[p].refusedAt) # NoVersion
    /\ stamp' = stamp + 1
    /\ programs' = [programs EXCEPT ![p].refusedAt = stamp']
    /\ UNCHANGED <<versions, revisions, openings, steps, follows, load, knew, loads, followed>>
    /\ Witness

Withdraw(p) ==
    /\ programs[p].listed
    /\ programs' = [programs EXCEPT ![p].listed = FALSE]
    /\ follows' = follows \ {p}
    /\ UNCHANGED <<versions, revisions, openings, steps, stamp, load, during, knew, loads, followed>>

RecordOpening(p) ==
    /\ openings[p] = 0
    /\ openings' = [openings EXCEPT ![p] = 1]
    /\ UNCHANGED <<programs, versions, revisions, steps, follows, stamp, load, during, knew, loads, followed>>

FollowElsewhere(p) ==
    /\ programs[p].listed
    /\ followed < MaxFollows
    /\ followed' = followed + 1
    /\ follows' = IF p \in follows THEN follows \ {p} ELSE follows \cup {p}
    /\ UNCHANGED <<programs, versions, revisions, openings, steps, stamp, load, during, knew, loads>>

--------------------------------------------------------------------------------
(* The page of one program. *)

Begin(view) ==
    /\ loads < MaxLoads
    /\ load = NoLoad
    /\ loads' = loads + 1
    /\ load' = view
    /\ during' = [p \in Programs |-> {InForce(versions[p], programs[p].refusedAt)}]
    /\ knew' = revisions
    /\ UNCHANGED <<programs, versions, revisions, openings, steps, follows, stamp, followed>>

OpenProgram(p, receipts) == Begin([kind |-> "program", at |-> "role", program |-> p, asked |-> receipts])

Reading == UNCHANGED <<programs, versions, revisions, openings, steps, follows, stamp, during, knew, loads, followed>>

IsProgram == load.at # "none" /\ load.kind = "program"

\* A program the product does not list has the page of a program no longer tracked.
ReadProgram ==
    /\ IsProgram /\ load.at = "role"
    /\ load' = IF programs[load.program].listed
               THEN [kind |-> "program", at |-> "evidence", program |-> load.program, asked |-> load.asked,
                     refusedAt |-> programs[load.program].refusedAt]
               ELSE [kind |-> "program", at |-> "missing", program |-> load.program]
    /\ Reading

\* The versions, and beside them what no later read depends on.
ReadEvidence ==
    /\ IsProgram /\ load.at = "evidence"
    /\ LET list == versions[load.program]
           latest == CurrentOf(list, load.refusedAt) IN
       load' = [kind |-> "program", at |-> "details", program |-> load.program, asked |-> load.asked,
                list |-> list, window |-> latest, declined |-> list # <<>> /\ latest = NoVersion,
                left |-> {"steps", "follow"} \cup (IF list # <<>> THEN {"revisions"} ELSE {})
                                            \cup (IF latest # NoVersion THEN {"receipts"} ELSE {}),
                receipts |-> 0, revised |-> {}, plan |-> {}, isFollowed |-> FALSE]
    /\ Reading

ReadDetail(r) ==
    /\ IsProgram /\ load.at = "details" /\ r \in load.left
    /\ LET p == load.program IN
       load' = [load EXCEPT !.left = @ \ {r},
                  !.receipts = IF r = "receipts" THEN Receipts[load.window] ELSE @,
                  !.revised = IF r = "revisions" THEN revisions[p] \cap DOMAIN load.list ELSE @,
                  !.plan = IF r = "steps" THEN {s.version : s \in {s \in steps : s.program = p}} ELSE @,
                  !.isFollowed = IF r = "follow" THEN p \in follows ELSE @]
    /\ Reading

Pages(rows) == IF rows = 0 THEN 1 ELSE (rows + ReceiptPage - 1) \div ReceiptPage
Least(a, b) == IF a < b THEN a ELSE b

\* The receipts on the page asked for; an address of a page that is no longer
\* there is the last one.
ReceiptsOn(asked, rows) == {r \in 1..rows : (r - 1) \div ReceiptPage = Least(asked, Pages(rows)) - 1}

\* The versions a page shows, newest first, of a list that is oldest first.
ShownVersions(list) == {v \in DOMAIN list : v > Len(list) - VersionsShown}

\* The revisions a reader would feel, of the versions shown; the one before may not be shown.
Noted(list, revised) == {v \in revised : v \in ShownVersions(list) /\ v - 1 \in DOMAIN list /\ list[v].moved}

\* The section on getting ready: the steps of every version, and the offer to plan.
CanPlan(isFollowed, window) == isFollowed /\ window # NoVersion

ShowProgram ==
    /\ IsProgram /\ load.at = "details" /\ load.left = {}
    /\ load' = [kind |-> "program", at |-> "shown", program |-> load.program, asked |-> load.asked,
                window |-> load.window, declined |-> load.declined, list |-> load.list,
                receipts |-> load.receipts, rows |-> ReceiptsOn(load.asked, load.receipts),
                notes |-> Noted(load.list, load.revised), plan |-> load.plan, isFollowed |-> load.isFollowed,
                canPlan |-> CanPlan(load.isFollowed, load.window)]
    /\ Reading

\* "Build my prep plan": the worker plans from the version in force, or refuses.
BuildPlan ==
    /\ IsProgram /\ load.at = "shown" /\ load.canPlan
    /\ loads < MaxLoads
    /\ LET p == load.program
           v == CurrentOf(versions[p], programs[p].refusedAt)
           planned == p \in follows /\ v # NoVersion IN
       /\ steps' = IF planned THEN steps \cup {[program |-> p, version |-> v]} ELSE steps
       /\ load' = IF planned
                  THEN [kind |-> "program", at |-> "role", program |-> p, asked |-> load.asked]
                  ELSE [load EXCEPT !.canPlan = FALSE]
       /\ during' = IF planned THEN [during EXCEPT ![p] = {v}] ELSE during
       /\ knew' = IF planned THEN revisions ELSE knew
       /\ loads' = loads + 1
    /\ UNCHANGED <<programs, versions, revisions, openings, follows, stamp, followed>>

--------------------------------------------------------------------------------
(* The recruiting calendar. *)

OpenCalendar == Begin([kind |-> "calendar", at |-> "follows"])
IsCalendar == load.at # "none" /\ load.kind = "calendar"

ReadFollows ==
    /\ IsCalendar /\ load.at = "follows"
    /\ load' = IF follows = {}
               THEN [kind |-> "calendar", at |-> "shown", watched |-> {}, predicted |-> [p \in {} |-> 0],
                     plan |-> {}, confirmed |-> {}, undated |-> {}, unseen |-> {}]
               ELSE [kind |-> "calendar", at |-> "role", watched |-> follows]
    /\ Reading

ReadWatched ==
    /\ IsCalendar /\ load.at = "role"
    /\ load' = [kind |-> "calendar", at |-> "dated", watched |-> load.watched, left |-> CalendarReads,
                refusedAt |-> [p \in load.watched |-> programs[p].refusedAt],
                list |-> [p \in load.watched |-> <<>>], plan |-> {}, confirmed |-> {},
                cycles |-> [p \in load.watched |-> 0]]
    /\ Reading

MutantReadAfter(r) == {}

\* The openings that say why a program has no date are counted after the dates are read.
ReadAfter(r) == IF r = "cycles" THEN DatedReads ELSE {}

ReadDated(r) ==
    /\ IsCalendar /\ load.at = "dated" /\ r \in load.left
    /\ ReadAfter(r) \cap load.left = {}
    /\ load' = [load EXCEPT !.left = @ \ {r},
                  !.list = IF r = "forecasts" THEN [p \in load.watched |-> versions[p]] ELSE @,
                  !.plan = IF r = "steps" THEN {s \in steps : s.program \in load.watched} ELSE @,
                  !.confirmed = IF r = "openings" THEN {p \in load.watched : openings[p] > 0} ELSE @,
                  !.cycles = IF r = "cycles" THEN [p \in load.watched |-> openings[p]] ELSE @]
    /\ Reading

\* The newest version of each program, unless the model declined the program since.
LatestForecast(list, refusedAt) == CurrentOf(list, refusedAt)

\* A program watched with no date: never forecast, or declined since.
Undated(watched, list, latest) == {p \in watched : latest[p] = NoVersion}

ShowCalendar ==
    /\ IsCalendar /\ load.at = "dated" /\ load.left = {}
    /\ LET latest == [p \in load.watched |-> LatestForecast(load.list[p], load.refusedAt[p])] IN
       load' = [kind |-> "calendar", at |-> "shown", watched |-> load.watched,
                predicted |-> [p \in {p \in load.watched : latest[p] # NoVersion} |-> latest[p]],
                plan |-> load.plan, confirmed |-> load.confirmed,
                undated |-> Undated(load.watched, load.list, latest),
                unseen |-> {p \in Undated(load.watched, load.list, latest) : load.cycles[p] = 0}]
    /\ Reading

ProgramsNext ==
    \/ \E p \in Programs : \/ \E moved \in BOOLEAN : StoreVersion(p, moved)
                           \/ StoreRevision(p) \/ PlanForWatchers(p) \/ Decline(p) \/ Withdraw(p) \/ RecordOpening(p)
                           \/ FollowElsewhere(p)
                           \/ \E receipts \in {1, 2} : OpenProgram(p, receipts)
    \/ ReadProgram \/ ReadEvidence \/ ShowProgram \/ BuildPlan
    \/ \E r \in DetailReads : ReadDetail(r)
    \/ OpenCalendar \/ ReadFollows \/ ReadWatched \/ ShowCalendar
    \/ \E r \in CalendarReads : ReadDated(r)

ProgramsSpec == ProgramsInit /\ [][ProgramsNext]_programVars

--------------------------------------------------------------------------------
Shows(kind) == load.at = "shown" /\ load.kind = kind

(* A window on a page was the program's own current forecast at some moment of the
   load, and "No date yet" was true at one, although the refusal and the versions
   are read apart (real-data.ts:753-756, "never a fabricated window"). *)
WindowWasCurrent ==
    /\ Shows("program") => load.window \in during[load.program]
    /\ Shows("calendar") => \A p \in load.watched :
          (IF p \in DOMAIN load.predicted THEN load.predicted[p] ELSE NoVersion) \in during[p]

(* Every program the calendar counts as watched has its window on it or is listed
   as having no date yet: a version that was declined since does not drop a
   program out of both (real-data.ts:1097-1100). *)
WatchedIsAccountedFor ==
    Shows("calendar") =>
        /\ DOMAIN load.predicted \cup load.undated = load.watched
        /\ DOMAIN load.predicted \cap load.undated = {}

(* A calendar never says "no opening on record yet" of a program whose confirmed
   opening stands on it, although the two come from different reads
   (real-data.ts:1175-1185 and 1283-1310). *)
ReasonAgreesWithDates == Shows("calendar") => load.unseen \cap load.confirmed = {}

(* A revision that was stored when the load began, of a version on the page whose
   window moved, is told, the version it is compared with shown or not
   (real-data.ts:926-957). *)
MovesAreNoted ==
    Shows("program") =>
        \A v \in knew[load.program] : v \in ShownVersions(load.list) /\ load.list[v].moved => v \in load.notes

(* The page of contributions asked for in the address is never empty when there are
   any, though a newer version may link fewer of them than the page was linked from
   (real-data.ts:985-987). *)
ReceiptsAreNeverBlank == Shows("program") /\ load.receipts > 0 => load.rows # {}

(* The two pages agree with the forecasts stored and with themselves, although each
   puts together reads that collection and regeneration come between. *)
PagesAgree == WindowWasCurrent /\ WatchedIsAccountedFor /\ ReasonAgreesWithDates /\ MovesAreNoted /\ ReceiptsAreNeverBlank

================================================================================
