------------------------ MODULE CollectionTakedown ------------------------
(***************************************************************************)
(* Stopping the collection of one company, and withdrawing it: the         *)
(* commands of takedown.py, apply_collection_takedown (migration           *)
(* 202608140039), which carries each of them out in one transaction, and   *)
(* the script that erases (docs/takedown.md). Beside them run the writers  *)
(* that read before a hold and write after it: discovery and board         *)
(* registration, a collection run, and a re-resolution that splits roles.  *)
(***************************************************************************)
EXTENDS Naturals, Sequences

CONSTANTS
    Sources,     \* the company's sources, stored or not
    Roles,       \* its canonical roles, stored or not
    Company,     \* the target of a command that names the company and no source
    MaxActions   \* bound on the takedown actions taken

ASSUME TakedownConstants == Company \notin Sources /\ MaxActions \in Nat

VARIABLES
    source,      \* source -> its row: absent, or its enabled flag
    role,        \* role -> its row: absent, its active flag, or superseded
    log,         \* collection_takedowns, in order
    saving,      \* a save of discovered sources has found the company not held
    collecting,  \* a collection run has loaded an enabled source of the company
    splitting,   \* roles a re-resolution has read and may still split
    before       \* history: what was on and listed when it was last turned off

writers == <<saving, collecting, splitting>>
vars == <<source, role, log, writers, before>>

HoldActions == {"disable", "withdraw", "erase"}
Records ==
    [target : Sources \cup {Company}, action : HoldActions \cup {"enable"},
     sources : SUBSET Sources, roles : SUBSET Roles]

\* The check constraints of the table.
Admitted(record) ==
    /\ record.action \in {"withdraw", "erase"} => record.target = Company
    /\ record.action = "disable" => record.roles = {}

Enabled == {s \in Sources : source[s] = "on"}
Active == {r \in Roles : role[r] = "active"}
Stored == {s \in Sources : source[s] # "absent"}

Nothing == [on |-> {}, stored |-> {}, listed |-> {}, roles |-> {}]

\* Migration 0039 finds sources and roles that were collected before there were takedowns.
Init ==
    /\ source \in [Sources -> {"absent", "on"}]
    /\ role \in [Roles -> {"absent", "active"}]
    /\ log = <<>>
    /\ saving = FALSE /\ collecting = FALSE /\ splitting = {}
    /\ before = Nothing

-----------------------------------------------------------------------------
(* What the record says. *)

Of(target) == {i \in DOMAIN log : log[i].target = target}

\* The action `target` was last the target of is one of `actions`.
LatestIs(target, actions) ==
    \E i \in Of(target) : log[i].action \in actions /\ \A j \in Of(target) : j <= i

\* Mutants: a hold that was lifted still counts; only the latest hold is lifted.
MutantHolds == {i \in Of(Company) : log[i].action \in HoldActions}

MutantLatestHold ==
    {i \in Of(Company) : log[i].action \in HoldActions /\ \A j \in Of(Company) : j <= i}

\* The company-wide holds after v_since, the last time one was lifted.
Holds ==
    {i \in Of(Company) : /\ log[i].action \in HoldActions
                         /\ \A j \in Of(Company) : j > i => log[j].action # "enable"}

\* v_held of the function.
Held == Holds # {}

\* company_hold of the worker.
CompanyHold == LatestIs(Company, HoldActions)

\* What the holds in force turned off.
HeldSources == UNION {log[i].sources : i \in Holds}
HeldRoles == UNION {log[i].roles : i \in {j \in Holds : log[j].action = "withdraw"}}

\* kept_off: a source disabled on its own stays off when the hold of its company is lifted.
KeptOff == {s \in Sources : LatestIs(s, {"disable"})}

Record(target, action, sources, roles) ==
    /\ Len(log) < MaxActions
    /\ log' = Append(log, [target |-> target, action |-> action,
                           sources |-> sources, roles |-> roles])

-----------------------------------------------------------------------------
(* The commands. *)

TurnOff(S) == source' = [s \in Sources |-> IF s \in S THEN "off" ELSE source[s]]
TurnOn(S) == source' = [s \in Sources |-> IF s \in S THEN "on" ELSE source[s]]

\* sources disable --source, which `retire-refused-sources` gives as well.
DisableSource(s) ==
    /\ s \in Stored
    /\ TurnOff({s} \cap Enabled)
    /\ Record(s, "disable", {s} \cap Enabled, {})
    /\ UNCHANGED <<role, writers, before>>

\* The history keeps what the holds in force found on.
Remember(listed) ==
    before' = [on |-> Enabled \cup (IF Held THEN before.on ELSE {}),
               stored |-> Stored,
               listed |-> listed \cup (IF Held THEN before.listed ELSE {}),
               roles |-> IF listed # {} THEN {r \in Roles : role[r] # "absent"}
                         ELSE IF Held THEN before.roles ELSE {}]

DisableCompany ==
    /\ TurnOff(Enabled)
    /\ Record(Company, "disable", Enabled, {})
    /\ Remember({})
    /\ UNCHANGED <<role, writers>>

Withdraw ==
    /\ TurnOff(Enabled)
    /\ role' = [r \in Roles |-> IF r \in Active THEN "inactive" ELSE role[r]]
    /\ Record(Company, "withdraw", Enabled, Active)
    /\ Remember(Active)
    /\ UNCHANGED writers

\* sources enable --source.
EnableSource(s) ==
    /\ s \in Stored /\ ~Held
    /\ TurnOn({s})
    /\ Record(s, "enable", {s} \ Enabled, {})
    /\ UNCHANGED <<role, writers, before>>

\* A mutant: a source disabled on its own since comes back with the rest.
MutantRestored == {s \in HeldSources : source[s] = "off"}

\* The sources a lift turns on, and the roles it lists.
Restored == {s \in HeldSources \ KeptOff : source[s] = "off"}

\* A mutant: the roles of the holds come back whatever became of them.
MutantListed == {r \in HeldRoles : role[r] # "active"}

Listed == {r \in HeldRoles : role[r] = "inactive"}

\* sources enable --company.
Lift ==
    /\ Held
    /\ TurnOn(Restored)
    /\ role' = [r \in Roles |-> IF r \in Listed THEN "active" ELSE role[r]]
    /\ Record(Company, "enable", Restored, Listed)
    /\ UNCHANGED <<writers, before>>

\* The script of docs/takedown.md, which refuses unless the latest company-wide action is a
\* withdrawal.
Erase ==
    /\ LatestIs(Company, {"withdraw"})
    /\ role' = [r \in Roles |-> "absent"]
    /\ Record(Company, "erase", {}, {r \in Roles : role[r] # "absent"})
    /\ UNCHANGED <<source, writers, before>>

-----------------------------------------------------------------------------
(* The writers beside them. *)

\* save_discovered_sources refuses a company that is held, and looks no further.
StartSaving ==
    /\ ~saving /\ ~CompanyHold
    /\ saving' = TRUE
    /\ UNCHANGED <<source, role, log, collecting, splitting, before>>

\* A source that is new is inserted enabled; one that is stored keeps its flag.
SaveSource(s) ==
    /\ saving
    /\ TurnOn({s} \ Stored)
    /\ UNCHANGED <<role, log, writers, before>>

StopSaving ==
    /\ saving /\ saving' = FALSE
    /\ UNCHANGED <<source, role, log, collecting, splitting, before>>

\* A run starts from the enabled sources and finishes with the list it loaded.
StartCollecting ==
    /\ ~collecting /\ Enabled # {}
    /\ collecting' = TRUE
    /\ UNCHANGED <<source, role, log, saving, splitting, before>>

\* save_role_resolution: a role that is new is active by the column's default; one that is
\* stored keeps its flag, which the payload does not name.
SaveRole(r) ==
    /\ collecting
    /\ role' = [role EXCEPT ![r] = IF @ = "absent" THEN "active" ELSE @]
    /\ UNCHANGED <<source, log, writers, before>>

StopCollecting ==
    /\ collecting /\ collecting' = FALSE
    /\ UNCHANGED <<source, role, log, saving, splitting, before>>

\* A re-resolution reads the active roles once and plans from what it read.
StartSplitting ==
    /\ splitting = {}
    /\ splitting' = Active
    /\ UNCHANGED <<source, role, log, saving, collecting, before>>

\* split_canonical_role: some observations of r move to a new role; r is superseded when none is
\* left. It looks at neither role's flag. A role the script erased is not found.
Split(r, target) ==
    /\ r \in splitting /\ role[r] \in {"active", "inactive"}
    /\ target # r /\ role[target] = "absent"
    /\ \E left \in {role[r], "superseded"} :
         role' = [role EXCEPT ![r] = left, ![target] = "active"]
    /\ UNCHANGED <<source, log, writers, before>>

StopSplitting ==
    /\ splitting # {} /\ splitting' = {}
    /\ UNCHANGED <<source, role, log, saving, collecting, before>>

Next ==
    \/ \E s \in Sources : DisableSource(s) \/ EnableSource(s) \/ SaveSource(s)
    \/ DisableCompany \/ Withdraw \/ Lift \/ Erase
    \/ StartSaving \/ StopSaving \/ StartCollecting \/ StopCollecting
    \/ \E r \in Roles : SaveRole(r) \/ \E target \in Roles : Split(r, target)
    \/ StartSplitting \/ StopSplitting

Spec == Init /\ [][Next]_vars

-----------------------------------------------------------------------------

\* Types, and every record passes the table's constraints, which would refuse the command.
TypeOK ==
    /\ source \in [Sources -> {"absent", "on", "off"}]
    /\ role \in [Roles -> {"absent", "active", "inactive", "superseded"}]
    /\ log \in Seq(Records)
    /\ \A i \in DOMAIN log : Admitted(log[i])
    /\ saving \in BOOLEAN /\ collecting \in BOOLEAN /\ splitting \subseteq Roles
    /\ before \in [on : SUBSET Sources, stored : SUBSET Sources,
                   listed : SUBSET Roles, roles : SUBSET Roles]

\* "A company is held while its latest company-wide action is disable, withdraw, or erase"
\* (migration 0039): the function, which looks for a hold after the last lift, and the worker,
\* which looks at the latest action, always agree.
HoldIsTheLatest == Held = CompanyHold

\* A source that was last disabled on its own is off, whatever is saved, lifted, held and
\* withdrawn after.
OwnDisableSticks == \A s \in KeptOff : source[s] # "on"

\* While a company is held, every source that was stored when it was last held is off: nothing
\* but a lift turns one on again.
HeldStaysOff == Held => \A s \in before.stored : source[s] = "off"

\* While a withdrawal is in force, a role that was stored at it is on no product read path,
\* whatever a run that began earlier saves.
WithdrawnStaysOff ==
    (\E i \in Holds : log[i].action = "withdraw") /\ (\A i \in Holds : log[i].action # "erase") =>
        \A r \in before.roles : role[r] # "active"

\* What a person turned off stays off (takedown.py:1-13): nothing that runs beside the commands, or
\* began before them, brings a source or a role back.
StaysOff == OwnDisableSticks /\ HeldStaysOff /\ WithdrawnStaysOff

\* A lift just happened.
Lifting == Len(log') > Len(log) /\ log'[Len(log')].target = Company /\ log'[Len(log')].action = "enable"

\* "exactly the sources the hold turned off come back" (takedown.py:12), however many holds and
\* commands about single sources came between, "except one disabled on its own since".
LiftRestores ==
    [][Lifting => \A s \in Sources :
           (source'[s] = "on") = (source[s] = "on" \/ s \in before.on \ KeptOff)]_vars

\* "and a withdrawal's roles are listed again" (takedown.py:13), except one a re-resolution
\* superseded in the meantime; an erased role stays away.
LiftListsAgain ==
    [][Lifting => \A r \in Roles :
           (role'[r] = "active") =
               (role[r] = "active" \/ (r \in before.listed /\ role[r] \notin {"superseded", "absent"}))]_vars

\* docs/takedown.md:91: of a withdrawn company, "the agent cannot resolve the company at all"; the
\* agent leaves out companies whose latest company-wide action is a withdrawal or an erasure.
WithdrawnIsUnresolvable ==
    (\E i \in Holds : log[i].action \in {"withdraw", "erase"}) => LatestIs(Company, {"withdraw", "erase"})

=============================================================================
