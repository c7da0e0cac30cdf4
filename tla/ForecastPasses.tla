---------------------------- MODULE ForecastPasses ----------------------------
(* How evidence reaches the stored forecasts of one company: the signals pass over
   one page (signals.py, cli.run_signal_ingestion), the daily regeneration with its
   cursor (cli.regenerate_changed_forecasts), and a question of the agent that
   forecasts beside them (agent.generate_forecast).  The passes share a workflow
   concurrency group and never overlap; an operator's re-resolution or erasure, a
   scope decision and the agent belong to no group.

   A forecast is the set of evidence it was computed from.  Time counts the
   regenerations begun: a row is stamped with the regeneration it comes after. *)
EXTENDS Integers

CONSTANTS
  ForecastRoles,
  SignalItems,        \* what the page may hold that makes a signal
  OpeningItems,       \* openings collection has found
  NamedBy,            \* [SignalItems -> ForecastRoles \cup {Everyone}]: the role an item's words name
  Everyone, Nowhere,  \* evidence of every role of the company; evidence that is not stored
  MaxRegenerations, MaxForecastFaults, MaxQuestions, MaxMoves

ASSUME ForecastConstants ==
  /\ ForecastRoles # {} /\ SignalItems \cap OpeningItems = {}
  /\ Nowhere \notin ForecastRoles \cup SignalItems \cup OpeningItems
  /\ Everyone \notin ForecastRoles \cup {Nowhere}
ASSUME NamesAreRoles == NamedBy \in [SignalItems -> ForecastRoles \cup {Everyone}]

VARIABLES
  time,         \* regenerations begun
  evidence,     \* [item -> role it is of, Everyone, Nowhere]
  changedAt,    \* [role -> stamp of the newest row that says the role changed]
  inScope,      \* roles the product forecasts
  moving,       \* an operator's transaction that has not committed
  careersPage,  \* the items on the careers page
  remembered,   \* the items of the source's stored state
  version,      \* [role -> its newest version]
  builds,       \* [role -> forecasts computed, which orders versions by forecasted_at]
  refusedAt,    \* [role -> builds before its last refusal]
  cursor,       \* checkpoint of forecast_regeneration
  pass,         \* the pass at work
  question,     \* the agent's question at work
  overtaken,    \* roles whose newest version an agent computed from evidence that had changed
  late,         \* roles whose change committed after a regeneration begun after its stamp
  baseline,     \* items of the page when it was first read
  forecastSpent \* [faults, questions, moves]

evidenceVars == <<evidence, changedAt, inScope, moving, careersPage>>
storedVars == <<version, builds, refusedAt, overtaken>>
forecastVars == <<time, evidenceVars, remembered, storedVars, cursor, pass, question, late, baseline, forecastSpent>>

Items == SignalItems \cup OpeningItems
NoState == {Nowhere}
NoForecast == [inputs |-> {}, n |-> 0, stands |-> {}]
NoMove == [item |-> Nowhere, to |-> Nowhere, at |-> 0]
NoPass == [kind |-> "none", at |-> "idle", started |-> 0, left |-> {}, new |-> {}, role |-> Nowhere,
           data |-> [r \in ForecastRoles |-> {}], n |-> 0, failed |-> FALSE]
NoQuestion == [at |-> "idle", role |-> Nowhere, inputs |-> {}, n |-> 0]

\* What a forecast of the role is computed from, and whether the model forecasts at all.
Visible(r) == {e \in Items : evidence[e] \in {r, Everyone}}
Enough(inputs) == inputs \cap OpeningItems # {}
Current(r) == version[r].n > refusedAt[r]

ForecastsInit ==
  /\ time = 0 /\ cursor = -1
  /\ \E first \in ForecastRoles \cup {Nowhere} :
       evidence = [e \in Items |-> IF e \in OpeningItems THEN first ELSE Nowhere]
  /\ changedAt = [r \in ForecastRoles |-> 0]
  /\ inScope = ForecastRoles
  /\ moving = NoMove /\ careersPage = {} /\ remembered = NoState
  /\ version = [r \in ForecastRoles |-> NoForecast]
  /\ builds = [r \in ForecastRoles |-> 0] /\ refusedAt = [r \in ForecastRoles |-> 0]
  /\ pass = NoPass /\ question = NoQuestion
  /\ overtaken = {} /\ late = {} /\ baseline = {}
  /\ forecastSpent = [faults |-> 0, questions |-> 0, moves |-> 0]

Stamp(roles) == changedAt' = [r \in ForecastRoles |-> IF r \in roles THEN time ELSE changedAt[r]]
Spend(what, limit) ==
  /\ forecastSpent[what] < limit
  /\ forecastSpent' = [forecastSpent EXCEPT ![what] = @ + 1]

--------------------------------------------------------------------------------
(* What changes the evidence. *)

\* The page gains an item or loses one.
PageChanges(s) ==
  /\ Spend("moves", MaxMoves)
  /\ careersPage' = IF s \in careersPage THEN careersPage \ {s} ELSE careersPage \cup {s}
  /\ UNCHANGED <<time, evidence, changedAt, inScope, moving, remembered, storedVars, cursor, pass, question, late, baseline>>

\* Collection stores an opening; it shares the passes' group.
StoreOpening(e, r) ==
  /\ pass = NoPass /\ evidence[e] = Nowhere
  /\ Spend("moves", MaxMoves)
  /\ evidence' = [evidence EXCEPT ![e] = r]
  /\ Stamp({r})
  /\ UNCHANGED <<time, inScope, moving, careersPage, remembered, storedVars, cursor, pass, question, late, baseline>>

\* A re-resolution moves an opening to another role, or an erasure deletes it; the trigger stamps
\* both roles with the clock of the statement, before the transaction commits.
StartMove(e, r) ==
  /\ moving = NoMove /\ evidence[e] \in ForecastRoles /\ r # evidence[e]
  /\ Spend("moves", MaxMoves)
  /\ moving' = [item |-> e, to |-> r, at |-> time]
  /\ UNCHANGED <<time, evidence, changedAt, inScope, careersPage, remembered, storedVars, cursor, pass, question, late, baseline>>

\* A regeneration begun after the stamp has read the changed roles.
ReadBefore(stamp) ==
  \/ stamp <= cursor
  \/ pass.kind = "regenerate" /\ pass.at # "changed" /\ stamp <= pass.started

CommitMove ==
  LET touched == {evidence[moving.item], moving.to} \cap ForecastRoles IN
  /\ moving # NoMove
  /\ evidence' = [evidence EXCEPT ![moving.item] = moving.to]
  /\ changedAt' = [r \in ForecastRoles |->
       IF r \in touched /\ moving.at > changedAt[r] THEN moving.at ELSE changedAt[r]]
  /\ late' = IF ReadBefore(moving.at) THEN late \cup touched ELSE late
  /\ moving' = NoMove
  /\ UNCHANGED <<time, inScope, careersPage, remembered, storedVars, cursor, pass, question, baseline, forecastSpent>>

\* A role enters the product's scope or leaves it: a review, or enrichment.
Reclassify(r) ==
  /\ Spend("moves", MaxMoves)
  /\ inScope' = IF r \in inScope THEN inScope \ {r} ELSE inScope \cup {r}
  /\ Stamp({r})
  /\ UNCHANGED <<time, evidence, moving, careersPage, remembered, storedVars, cursor, pass, question, late, baseline>>

--------------------------------------------------------------------------------
(* Steps both passes take. *)

Goes(p) == pass' = p
Worked == UNCHANGED <<evidenceVars, time, cursor, remembered, question, late, baseline>>

\* build_current_forecast of the next role, from the evidence the pass has loaded.
BuildForecast(r) ==
  /\ pass.at = "roles" /\ pass.role = Nowhere /\ r \in pass.left
  /\ Goes([pass EXCEPT !.role = r, !.n = builds[r] + 1, !.left = @ \ {r}])
  /\ builds' = [builds EXCEPT ![r] = @ + 1]
  /\ UNCHANGED <<version, refusedAt, overtaken, forecastSpent>> /\ Worked

\* A new version is the newest when it was computed last; its stands is the evidence it holds for.
Saved(r, inputs, n) ==
  IF n > version[r].n THEN [version EXCEPT ![r] = [inputs |-> inputs, n |-> n, stands |-> inputs]] ELSE version
Done == [pass EXCEPT !.role = Nowhere]

\* The pass is killed, or its source fails.
PassStops ==
  /\ pass # NoPass
  /\ Spend("faults", MaxForecastFaults)
  /\ Goes(NoPass)
  /\ UNCHANGED storedVars /\ Worked

--------------------------------------------------------------------------------
(* The signals pass. *)

\* The page is read against the stored state; a page read for the first time makes no signals.
StartSignals ==
  /\ pass = NoPass
  /\ Goes([NoPass EXCEPT !.kind = "signals", !.at = "store", !.data = [r \in ForecastRoles |-> careersPage],
                         !.left = IF remembered = NoState THEN {} ELSE careersPage \ remembered])
  /\ baseline' = IF remembered = NoState THEN careersPage ELSE baseline
  /\ UNCHANGED <<evidenceVars, time, cursor, remembered, question, late, storedVars, forecastSpent>>

\* upsert_recruiting_signal: one that is stored is left as it is and counts as no news.
StoreSignal(s) ==
  LET to == IF NamedBy[s] \in inScope THEN NamedBy[s] ELSE Everyone IN
  /\ pass.kind = "signals" /\ pass.at = "store" /\ s \in pass.left
  /\ IF evidence[s] # Nowhere THEN Goes([pass EXCEPT !.left = @ \ {s}]) /\ UNCHANGED <<evidence, changedAt>>
     ELSE /\ Goes([pass EXCEPT !.left = @ \ {s}, !.new = @ \cup (IF to = Everyone THEN inScope ELSE {to})])
          /\ evidence' = [evidence EXCEPT ![s] = to] /\ Stamp({to})
  /\ UNCHANGED <<time, inScope, moving, careersPage, remembered, storedVars, cursor, question, late, baseline, forecastSpent>>

\* save_signal_source_state, after the last signal.
SaveSourceState ==
  /\ pass.kind = "signals" /\ pass.at = "store" /\ pass.left = {}
  /\ remembered' = pass.data[CHOOSE r \in ForecastRoles : TRUE]
  /\ Goes([pass EXCEPT !.at = "load", !.left = pass.new])
  /\ UNCHANGED <<evidenceVars, time, cursor, question, late, baseline, storedVars, forecastSpent>>

\* persist_recomputed: equal inputs write no version; too little evidence skips the role.
PersistRecomputed ==
  LET r == pass.role
      inputs == pass.data[r] IN
  /\ pass.kind = "signals" /\ r # Nowhere
  /\ Goes(Done)
  /\ IF ~Enough(inputs) THEN UNCHANGED <<version, overtaken>>
     ELSE IF version[r].n # 0 /\ version[r].inputs = inputs
     THEN version' = [version EXCEPT ![r].stands = inputs] /\ overtaken' = overtaken \ {r}
     ELSE /\ version' = Saved(r, inputs, pass.n)
          /\ overtaken' = IF pass.n > version[r].n THEN overtaken \ {r} ELSE overtaken
  /\ UNCHANGED <<builds, refusedAt, forecastSpent>> /\ Worked

EndSignals ==
  /\ pass.kind = "signals" /\ pass.at = "roles" /\ pass.left = {} /\ pass.role = Nowhere
  /\ Goes(NoPass)
  /\ UNCHANGED <<storedVars, forecastSpent>> /\ Worked

--------------------------------------------------------------------------------
(* The regeneration. *)

\* The cursor is read, then the time it will move to.
StartRegeneration ==
  /\ pass = NoPass /\ time < MaxRegenerations
  /\ time' = time + 1
  /\ Goes([NoPass EXCEPT !.kind = "regenerate", !.at = "changed", !.started = time])
  /\ UNCHANGED <<evidenceVars, remembered, storedVars, cursor, question, late, baseline, forecastSpent>>

\* changed_role_ids_since.
ReadChangedRoles ==
  /\ pass.at = "changed"
  /\ Goes([pass EXCEPT !.at = "load", !.left = {r \in ForecastRoles : changedAt[r] > cursor}])
  /\ UNCHANGED <<storedVars, forecastSpent>> /\ Worked

\* The roles in scope, and the evidence of all of them, read once.
LoadEvidence ==
  /\ pass.at = "load"
  /\ Goes([pass EXCEPT !.at = "roles", !.left = IF pass.kind = "regenerate" THEN @ \cap inScope ELSE @,
                       !.data = [r \in ForecastRoles |-> Visible(r)]])
  /\ UNCHANGED <<storedVars, forecastSpent>> /\ Worked

\* A role is refused; or its version is verified, having the same inputs or showing the same; or it
\* gets a new one.
RegenerateRole ==
  LET r == pass.role
      inputs == pass.data[r] IN
  /\ pass.kind = "regenerate" /\ r # Nowhere
  /\ Goes(Done)
  /\ IF ~Enough(inputs)
     THEN /\ refusedAt' = [refusedAt EXCEPT ![r] = pass.n] /\ UNCHANGED version
          /\ overtaken' = IF pass.n >= version[r].n THEN overtaken \ {r} ELSE overtaken
     ELSE /\ UNCHANGED refusedAt
          /\ \/ /\ Current(r)
                /\ version' = [version EXCEPT ![r].stands = inputs] /\ overtaken' = overtaken \ {r}
             \/ /\ ~(Current(r) /\ version[r].inputs = inputs)
                /\ version' = Saved(r, inputs, pass.n)
                /\ overtaken' = IF pass.n > version[r].n THEN overtaken \ {r} ELSE overtaken
  /\ UNCHANGED <<builds, forecastSpent>> /\ Worked

\* One role fails, and the pass goes on.
RoleFails ==
  /\ pass.kind = "regenerate" /\ pass.role # Nowhere
  /\ Spend("faults", MaxForecastFaults)
  /\ Goes([Done EXCEPT !.failed = TRUE])
  /\ UNCHANGED storedVars /\ Worked

\* (Mutant) the cursor moves to when the pass ended.
MutantEndRegeneration ==
  /\ pass.kind = "regenerate" /\ pass.at = "roles" /\ pass.left = {} /\ pass.role = Nowhere
  /\ cursor' = IF pass.failed THEN cursor ELSE time
  /\ Goes(NoPass)
  /\ UNCHANGED <<evidenceVars, time, remembered, question, late, baseline, storedVars, forecastSpent>>

\* The cursor moves to when the pass began, and only when no role failed.
EndRegeneration ==
  /\ pass.kind = "regenerate" /\ pass.at = "roles" /\ pass.left = {} /\ pass.role = Nowhere
  /\ cursor' = IF pass.failed THEN cursor ELSE pass.started
  /\ Goes(NoPass)
  /\ UNCHANGED <<evidenceVars, time, remembered, question, late, baseline, storedVars, forecastSpent>>

--------------------------------------------------------------------------------
(* The agent. *)

Asks(q) == question' = q
Beside == UNCHANGED <<evidenceVars, time, cursor, remembered, pass, late, baseline>>

\* generate_forecast, where today has no current version to reuse: the evidence is read.
ReadForForecast(r) ==
  /\ question = NoQuestion /\ Enough(Visible(r))
  /\ Spend("questions", MaxQuestions)
  /\ Asks([at |-> "read", role |-> r, inputs |-> Visible(r), n |-> 0])
  /\ UNCHANGED storedVars /\ Beside

AgentBuilds ==
  /\ question.at = "read"
  /\ Asks([question EXCEPT !.at = "built", !.n = builds[question.role] + 1])
  /\ builds' = [builds EXCEPT ![question.role] = @ + 1]
  /\ UNCHANGED <<version, refusedAt, overtaken, forecastSpent>> /\ Beside

\* A version with the same inputs is reused, any other is written; or the question's run breaks off.
AgentSaves ==
  LET r == question.role IN
  /\ question.at = "built"
  /\ Asks(NoQuestion)
  /\ \/ UNCHANGED <<version, overtaken>>
     \/ /\ ~(Current(r) /\ version[r].inputs = question.inputs)
        /\ version' = Saved(r, question.inputs, question.n)
        /\ overtaken' = IF question.n > version[r].n /\ question.inputs # Visible(r)
                        THEN overtaken \cup {r} ELSE overtaken
  /\ UNCHANGED <<builds, refusedAt, forecastSpent>> /\ Beside

ForecastsNext ==
  \/ \E s \in SignalItems : PageChanges(s) \/ StoreSignal(s)
  \/ \E e \in OpeningItems, r \in ForecastRoles : StoreOpening(e, r)
  \/ \E e \in OpeningItems, r \in ForecastRoles \cup {Nowhere} : StartMove(e, r)
  \/ CommitMove
  \/ \E r \in ForecastRoles : Reclassify(r) \/ BuildForecast(r) \/ ReadForForecast(r)
  \/ StartSignals \/ SaveSourceState \/ PersistRecomputed \/ EndSignals
  \/ StartRegeneration \/ ReadChangedRoles \/ LoadEvidence \/ RegenerateRole \/ RoleFails \/ EndRegeneration
  \/ PassStops \/ AgentBuilds \/ AgentSaves

ForecastsSpec == ForecastsInit /\ [][ForecastsNext]_forecastVars

--------------------------------------------------------------------------------
(* An item the source's state remembers is one the page began with or a stored
   signal: a pass stopped anywhere makes the next one find what it had not stored
   (signals.py:556-615). *)
SignalsAreKept ==
  remembered # NoState => \A s \in remembered : s \in baseline \/ evidence[s] # Nowhere

(* A role in scope none of whose changes is newer than the cursor has exactly the
   forecast its evidence makes, or none when that is too little, whatever stopped,
   failed or ran beside the passes.  Three cases are not kept: a change committed
   after a regeneration that began after its stamp; an agent's version computed
   from evidence read before the change; and evidence of the whole company, which
   no changed row names, after a signals pass that stopped. *)
ForecastsKeepUp ==
  \A r \in inScope :
    /\ changedAt[r] <= cursor /\ r \notin overtaken \cup late
    /\ (\E e \in Items : evidence[e] = Everyone) => forecastSpent.faults = 0 /\ pass.kind # "signals"
    => IF Enough(Visible(r)) THEN Current(r) /\ version[r].stands = Visible(r) ELSE ~Current(r)

(* Evidence reaches the forecasts: the signal is stored, and then counted. *)
EvidenceReachesForecasts == SignalsAreKept /\ ForecastsKeepUp
================================================================================
