------------------------------- MODULE OpsAlerts -------------------------------
(* How a failure reaches the owner: the production check (scripts/ops-health.mjs)
   and the last step of every scheduled workflow (scripts/ops-alert.mjs) open,
   edit, comment on and close one GitHub issue for each problem
   (scripts/lib/ops-issues.mjs).  Runs of one problem share a concurrency group,
   so they follow one another; a production check that is still at work is
   cancelled by the next.  Each request may fail, before or after GitHub applied
   it, and the run is then red, which GitHub mails to the owner by itself. *)
EXTENDS Naturals, Sequences

CONSTANTS Checks,        \* the checks of the production health run that are modelled
          RemindAfter,   \* REMIND_AFTER_MS, in ticks of the clock
          MaxTicks, MaxWorldChanges, MaxAlertFaults   \* bounds

ASSUME AlertConstants == RemindAfter \in Nat

VARIABLES world,      \* what each check's service answers, and how the workflow ends
          issues,     \* the ops-alert issues, in the order they were opened
          labelled,   \* the label exists
          alertRun,   \* the run at work on each problem
          ticks,      \* the clock
          told,       \* what the owner was last notified of, and when
          verdictOf,  \* the last run that ended by itself: what it saw, when, and how it ended
          cutShort,   \* a run was cancelled with half of its two requests made
          alertSpent  \* the bounds used up

alertVars == <<world, issues, labelled, alertRun, ticks, told, verdictOf, cutShort, alertSpent>>

Problems == {"health", "workflow"}
AllClear == {}
Red == {"red"}

NoAnswer == "none"       \* no response, or a refused connection
BadStatus == "http"      \* an answer with another status
OddBody == "odd"         \* 200, and not the expected JSON
Errors == "errors"       \* healthy to read, and what it reports is a failure
NotSet == "unset"         \* the check's inputs are not set
Fine == "fine"
ServiceAnswers == {NoAnswer, BadStatus, OddBody, Errors, NotSet, Fine}

JsonHealth(a) == IF a = NotSet THEN "not configured"
                 ELSE IF a \in {NoAnswer, BadStatus, OddBody} THEN "FAILING" ELSE "ok"

\* A HEAD request: the body is not there to be read.
CheckDatabase(a) == IF a = NotSet THEN "not configured"
                    ELSE IF a \in {NoAnswer, BadStatus} THEN "FAILING" ELSE "ok"

\* A refused read of the workflow runs is thrown, not reported.
CheckSchedules(a) == IF a \in {NotSet, OddBody} THEN "not configured"
                     ELSE IF a \in {NoAnswer, BadStatus} THEN "thrown"
                     ELSE IF a = Errors THEN "FAILING" ELSE "ok"

CheckWorkerErrors(a) == IF a = NotSet THEN "not configured"
                        ELSE IF a = Fine THEN "ok" ELSE "FAILING"

Outcome(c) == CASE c \in {"web", "agent"} -> JsonHealth(world.service[c])
                [] c = "database" -> CheckDatabase(world.service[c])
                [] c = "schedules" -> CheckSchedules(world.service[c])
                [] c = "errors" -> CheckWorkerErrors(world.service[c])

\* What a run finds wrong; the workflow's own run finds how it ended.
Wrong(p) == IF p = "health" THEN {c \in Checks : Outcome(c) = "FAILING"}
            ELSE world.ended \ {"success"}

CannotReport(p) == p = "health" /\ \E c \in Checks : Outcome(c) = "thrown"

IdleRun == [at |-> "idle", saw |-> AllClear, issue |-> 0, notify |-> FALSE]

FindOpen(p) == {i \in DOMAIN issues : issues[i].open /\ issues[i].key = p}

Tell(p, what) == told' = [told EXCEPT ![p] = [what |-> what, when |-> ticks]]
Ended(p, how) == /\ verdictOf' = [verdictOf EXCEPT
                      ![p] = [saw |-> alertRun[p].saw, when |-> ticks, how |-> how]]
                 /\ alertRun' = [alertRun EXCEPT ![p] = IdleRun]
At(p, place) == alertRun[p].at = place
Go(p, place) == alertRun' = [alertRun EXCEPT ![p].at = place]

AlertsInit ==
  /\ world = [service |-> [c \in Checks |-> Fine], ended |-> {"success"}]
  /\ issues = <<>>
  /\ labelled = FALSE
  /\ alertRun = [p \in Problems |-> IdleRun]
  /\ ticks = 0
  /\ told = [p \in Problems |-> [what |-> AllClear, when |-> 0]]
  /\ verdictOf = [p \in Problems |-> [saw |-> AllClear, when |-> 0, how |-> "quiet"]]
  /\ cutShort = [p \in Problems |-> FALSE]
  /\ alertSpent = [changes |-> 0, faults |-> 0]

ServiceChanges(c) ==
  /\ alertSpent.changes < MaxWorldChanges
  /\ \E a \in ServiceAnswers \ {world.service[c]} : world' = [world EXCEPT !.service[c] = a]
  /\ alertSpent' = [alertSpent EXCEPT !.changes = @ + 1]
  /\ UNCHANGED <<issues, labelled, alertRun, ticks, told, verdictOf, cutShort>>

WorkflowEnds ==
  /\ alertSpent.changes < MaxWorldChanges
  /\ At("workflow", "idle")
  /\ \E how \in {"success", "failure", "cancelled"} : world' = [world EXCEPT !.ended = {how}]
  /\ alertSpent' = [alertSpent EXCEPT !.changes = @ + 1]
  /\ UNCHANGED <<issues, labelled, alertRun, ticks, told, verdictOf, cutShort>>

Tick ==
  /\ ticks < MaxTicks
  /\ ticks' = ticks + 1
  /\ UNCHANGED <<world, issues, labelled, alertRun, told, verdictOf, cutShort, alertSpent>>

(* All checks at once; one that throws leaves the others' findings unreported. *)
Look(p) ==
  /\ At(p, "idle")
  /\ IF CannotReport(p)
       THEN /\ Tell(p, Red)
            /\ verdictOf' = [verdictOf EXCEPT ![p] = [saw |-> AllClear, when |-> ticks, how |-> "red"]]
            /\ UNCHANGED alertRun
       ELSE /\ alertRun' = [alertRun EXCEPT ![p] = [IdleRun EXCEPT !.at = "find", !.saw = Wrong(p)]]
            /\ UNCHANGED <<told, verdictOf>>
  /\ UNCHANGED <<world, issues, labelled, ticks, cutShort, alertSpent>>

FindIssue(p) ==
  /\ At(p, "find")
  /\ LET saw == alertRun[p].saw IN
     IF FindOpen(p) = {}
       THEN IF saw = AllClear
              THEN Ended(p, "none_open")
              ELSE Go(p, IF labelled THEN "open" ELSE "label") /\ UNCHANGED verdictOf
       ELSE /\ alertRun' = [alertRun EXCEPT
                 ![p].issue = CHOOSE i \in FindOpen(p) : \A j \in FindOpen(p) : j <= i,
                 ![p].at = IF saw = AllClear THEN "say resolved" ELSE "edit"]
            /\ UNCHANGED verdictOf
  /\ UNCHANGED <<world, issues, labelled, ticks, told, cutShort, alertSpent>>

EnsureLabel(p) ==
  /\ At(p, "label")
  /\ labelled' = TRUE
  /\ Go(p, "open")
  /\ UNCHANGED <<world, issues, ticks, told, verdictOf, cutShort, alertSpent>>

Compose(p, notified) == [key |-> p, fingerprint |-> alertRun[p].saw, notified |-> notified, open |-> TRUE]

\* The assignment, or the label's watchers where the owner cannot be assigned, notify.
OpenIssue(p) ==
  /\ At(p, "open")
  /\ issues' = Append(issues, Compose(p, ticks))
  /\ Tell(p, alertRun[p].saw)
  /\ cutShort' = [cutShort EXCEPT ![p] = FALSE]
  /\ Ended(p, "opened")
  /\ UNCHANGED <<world, labelled, ticks, alertSpent>>

Notifies(issue, saw) == issue.fingerprint # saw \/ ticks - issue.notified > RemindAfter

\* (Mutant) every edit counts as a notice.
MutantNotifiedAt(issue, notify) == ticks

\* When the next reminder is due is counted from the last notice, not from the last edit.
NotifiedAt(issue, notify) == IF notify THEN ticks ELSE issue.notified

(* The edit stores what is wrong and when the owner was last notified, silently. *)
EditIssue(p) ==
  /\ At(p, "edit")
  /\ LET i == alertRun[p].issue
         notify == Notifies(issues[i], alertRun[p].saw) IN
     /\ issues' = [issues EXCEPT ![i] = [Compose(p, NotifiedAt(@, notify)) EXCEPT !.open = issues[i].open]]
     /\ IF notify THEN Go(p, "comment") /\ UNCHANGED verdictOf ELSE Ended(p, "updated")
  /\ UNCHANGED <<world, labelled, ticks, told, cutShort, alertSpent>>

Comment(p) ==
  /\ At(p, "comment")
  /\ Tell(p, alertRun[p].saw)
  /\ cutShort' = [cutShort EXCEPT ![p] = FALSE]
  /\ Ended(p, "notified")
  /\ UNCHANGED <<world, issues, labelled, ticks, alertSpent>>

SayResolved(p) ==
  /\ At(p, "say resolved")
  /\ Tell(p, AllClear)
  /\ Go(p, "close")
  /\ UNCHANGED <<world, issues, labelled, ticks, verdictOf, cutShort, alertSpent>>

CloseIssue(p) ==
  /\ At(p, "close")
  /\ issues' = [issues EXCEPT ![alertRun[p].issue].open = FALSE]
  /\ cutShort' = [cutShort EXCEPT ![p] = FALSE]
  /\ Ended(p, "resolved")
  /\ UNCHANGED <<world, labelled, ticks, told, alertSpent>>

(* A request fails: GitHub applied it and the answer was lost, or it did not. *)
RequestFails(p) ==
  /\ ~At(p, "idle")
  /\ alertSpent.faults < MaxAlertFaults
  /\ alertSpent' = [alertSpent EXCEPT !.faults = @ + 1]
  /\ \E applied \in BOOLEAN :
       /\ labelled' = (labelled \/ (applied /\ At(p, "label")))
       /\ issues' = IF applied /\ At(p, "open") THEN Append(issues, Compose(p, ticks))
                    ELSE IF applied /\ At(p, "edit")
                    THEN LET i == alertRun[p].issue IN
                         [issues EXCEPT ![i] = [Compose(p,
                             NotifiedAt(@, Notifies(@, alertRun[p].saw))) EXCEPT !.open = issues[i].open]]
                    ELSE IF applied /\ At(p, "close")
                    THEN [issues EXCEPT ![alertRun[p].issue].open = FALSE]
                    ELSE issues
  /\ Tell(p, Red)
  /\ Ended(p, "red")
  /\ UNCHANGED <<world, ticks, cutShort>>

(* The next production check replaces the one at work: nothing is reported. *)
Replaced ==
  /\ ~At("health", "idle")
  /\ alertSpent.faults < MaxAlertFaults
  /\ alertSpent' = [alertSpent EXCEPT !.faults = @ + 1]
  /\ alertRun' = [alertRun EXCEPT !["health"] = IdleRun]
  /\ cutShort' = [cutShort EXCEPT !["health"] = @ \/ At("health", "comment") \/ At("health", "close")]
  /\ UNCHANGED <<world, issues, labelled, ticks, told, verdictOf>>

OwnerCloses(i) ==
  /\ issues[i].open
  /\ alertSpent.faults < MaxAlertFaults
  /\ alertSpent' = [alertSpent EXCEPT !.faults = @ + 1]
  /\ issues' = [issues EXCEPT ![i].open = FALSE]
  /\ UNCHANGED <<world, labelled, alertRun, ticks, told, verdictOf, cutShort>>

AlertsNext ==
  \/ \E c \in Checks : ServiceChanges(c)
  \/ WorkflowEnds
  \/ Tick
  \/ \E p \in Problems : \/ Look(p) \/ FindIssue(p) \/ EnsureLabel(p) \/ OpenIssue(p)
                         \/ EditIssue(p) \/ Comment(p) \/ SayResolved(p) \/ CloseIssue(p)
                         \/ RequestFails(p)
  \/ Replaced
  \/ \E i \in DOMAIN issues : OwnerCloses(i)

AlertsSpec == AlertsInit /\ [][AlertsNext]_alertVars

--------------------------------------------------------------------------------
(* Whatever fails, is cancelled or is closed by hand, a problem never has two open
   issues (ops-issues.mjs:1-6, "one open GitHub issue per operational problem"). *)
OneIssuePerProblem ==
  \A i, j \in DOMAIN issues : (issues[i].open /\ issues[j].open /\ issues[i].key = issues[j].key) => i = j

(* A run that ended by itself and saw trouble left the owner told of exactly that
   trouble, or of a red run, no longer ago than the reminder allows.  The
   exception is a check cancelled between an edit and its notice, or between the
   notice that all is well and the closing. *)
OwnerWasTold ==
  \A p \in Problems :
    LET v == verdictOf[p] IN
    (v.saw # AllClear /\ At(p, "idle") /\ ~cutShort[p])
      => /\ told[p].what \in {v.saw, Red}
         /\ v.when - told[p].when <= RemindAfter

(* What the alerts promise as a whole (docs/operations.md): a problem is one issue, and
   the owner knows of it. *)
AlertsReachTheOwner == OneIssuePerProblem /\ OwnerWasTold
================================================================================
