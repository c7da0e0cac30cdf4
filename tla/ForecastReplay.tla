-------------------------- MODULE ForecastReplay --------------------------
(***************************************************************************)
(* Forecast Replay: the page that holds one past opening out and asks the  *)
(* worker's backtest what it would have forecast at a cutoff before it.    *)
(* The page chooses a target and a cutoff and may change them while a run  *)
(* is answered; the worker reduces recorded openings to cycles, holds the  *)
(* target's out and admits what was known by the cutoff; the answer is     *)
(* validated on the way back, twice, and checked once more where it is     *)
(* shown.                                                                  *)
(***************************************************************************)
EXTENDS Integers, FiniteSets

CONSTANTS
    Histories,      \* the sets of openings recorded: [id, role, on, from, key, precision, known]
    YearDays,       \* days of a year
    AnnualGap,      \* ANNUAL_CYCLE_MIN_GAP_DAYS
    Lead,           \* the suggested cutoff's days before the opening
    Cutoffs,        \* the days a reader may type
    MaxRuns, MaxReplayFaults    \* bounds: runs asked for, services that do not answer

\* An opening's window does not start after it (constraint historical_opening_window_order).
ASSUME ReplayAssumption ==
    /\ \A es \in Histories : \A e \in es : e.on \in Int /\ e.from \in Int /\ e.known \in Int /\ e.from <= e.on
    /\ Lead \in Int /\ Cutoffs \subseteq Int

VARIABLES
    recorded,       \* the openings recorded: rigid
    held,           \* the target and the cutoff the page shows, or NoTarget
    revealed,       \* the later outcome is shown
    verdict,        \* what the page says of the run: [status, of the answer]
    attempts,       \* the runs asked for
    replayFaults

replayVars == <<recorded, held, revealed, verdict, attempts, replayFaults>>

NoKey == "no cohort stated"
Blank == -1
NoTarget == [role |-> "none"]
NotAsked == [stage |-> "not asked"]
Said(status) == [status |-> status]
YearOf(day) == day \div YearDays

----------------------------------------------------------------------------
(* The worker. *)

EventsOf(es, role) == {e \in es : e.role = role}

\* The first opening of the cycle an opening with no stated cohort falls in: a
\* new cycle starts an annual distance from the first opening of the last.
AnchorOf(es, e) ==
    LET days == {x.on : x \in {y \in es : y.key = NoKey}}
        anchor[d \in days] ==
            LET before == {x \in days : x < d}
                last == CHOOSE x \in before : \A y \in before : y <= x
            IN IF before # {} /\ d - anchor[last] < AnnualGap THEN anchor[last] ELSE d
    IN anchor[e.on]

CycleOf(es, e) == IF e.key = NoKey THEN <<"opened", AnchorOf(es, e)>> ELSE <<"stated", e.key>>

Rank(e) == CASE e.precision = "exact" -> 2 [] e.precision = "bounded" -> 1 [] OTHER -> 0

\* One opening stands for a cycle of a role: the earliest, ties to the better dated.
CollapseEventCycles(es) ==
    {e \in es :
        LET role == EventsOf(es, e.role)
            same == {x \in role : CycleOf(role, x) = CycleOf(role, e)}
        IN \A x \in same : \/ e.on < x.on
                           \/ e.on = x.on /\ Rank(e) > Rank(x)
                           \/ e.on = x.on /\ Rank(e) = Rank(x) /\ e.id <= x.id}

SameCycleAsTarget(e, target) ==
    /\ e.role = target.role
    /\ IF NoKey \notin {e.key, target.key} THEN e.key = target.key
       ELSE e.on - target.on \in (-AnnualGap + 1)..(AnnualGap - 1)

KnownEvent(e, cutoff, target) ==
    /\ e.id # target.id /\ ~SameCycleAsTarget(e, target)
    /\ e.on <= cutoff /\ e.known <= cutoff

Targets(role, year) == {e \in CollapseEventCycles(EventsOf(recorded, role)) : YearOf(e.on) = year}

Refusal(ask) ==
    LET targets == Targets(ask.role, ask.year)
        target == CHOOSE e \in targets : TRUE
        known == CollapseEventCycles({e \in recorded : KnownEvent(e, ask.cutoff, target)})
    IN IF Cardinality(targets) # 1 THEN "not one cycle"
       ELSE IF ask.cutoff >= target.on THEN "not before the opening"
       ELSE IF target.precision = "observed_by" THEN "no interval"
       ELSE IF known = {} THEN "no evidence"
       ELSE IF EventsOf(known, ask.role) = known /\ Cardinality(known) < 3 THEN "sparse"
       ELSE "none"

\* BacktestRunner.replay: a refusal, or the target and the evidence admitted.
Replay(ask) ==
    IF Refusal(ask) # "none" THEN [status |-> "not_evaluable", reason |-> Refusal(ask)]
    ELSE LET target == CHOOSE e \in Targets(ask.role, ask.year) : TRUE IN
         [status |-> "result", role |-> ask.role, year |-> ask.year, cutoff |-> ask.cutoff, target |-> target,
          evidence |-> CollapseEventCycles({e \in recorded : KnownEvent(e, ask.cutoff, target)})]

\* forecastReplayResultSchema, on the route and again in the page.
LeakSafe(r) ==
    /\ r.cutoff < r.target.on /\ r.target.from <= r.target.on
    /\ \A e \in r.evidence : e.id # r.target.id /\ e.on <= r.cutoff /\ e.known <= r.cutoff

----------------------------------------------------------------------------
(* The page. *)

\* A role's candidate: its latest well dated opening, if it has two openings.
ReplayCandidates ==
    {e \in recorded :
        LET dated == {x \in EventsOf(recorded, e.role) : x.precision # "observed_by"} IN
        /\ Cardinality(EventsOf(recorded, e.role)) >= 2
        /\ e \in dated /\ \A x \in dated : x.on < e.on \/ (x.on = e.on /\ e.id <= x.id)}

CandidateOf(e) == [role |-> e.role, year |-> YearOf(e.on), on |-> e.on, cutoff |-> e.on - Lead]

\* Runs on their way were asked of another target or cutoff than the page shows next.
Overtaken == [q \in DOMAIN attempts |->
    IF attempts[q].stage \in {"asked", "answered"} THEN [attempts[q] EXCEPT !.overtaken = TRUE] ELSE attempts[q]]

\* (Mutant) the run on show is kept under the target chosen.
MutantChoose(e) ==
    /\ held' = CandidateOf(e) /\ revealed' = FALSE /\ attempts' = Overtaken
    /\ UNCHANGED <<recorded, verdict, replayFaults>>

Choose(e) ==
    /\ held' = CandidateOf(e) /\ revealed' = FALSE /\ verdict' = Said("idle") /\ attempts' = Overtaken
    /\ UNCHANGED <<recorded, replayFaults>>

\* The input's latest day does not bind what is typed, and it may be cleared.
ChangeCutoff(day) ==
    /\ held # NoTarget /\ day # held.cutoff
    /\ held' = [held EXCEPT !.cutoff = day] /\ verdict' = Said("idle") /\ attempts' = Overtaken
    /\ UNCHANGED <<recorded, revealed, replayFaults>>

RunReplay(q) ==
    /\ held # NoTarget /\ verdict.status # "running"
    /\ attempts[q] = NotAsked /\ \A p \in 1..(q - 1) : attempts[p] # NotAsked
    /\ verdict' = Said("running") /\ revealed' = FALSE
    /\ attempts' = [attempts EXCEPT ![q] = [stage |-> "asked", ask |-> held, overtaken |-> FALSE]]
    /\ UNCHANGED <<recorded, held, replayFaults>>

\* POST /api/forecast-replay: a session, the service's address, a whole request,
\* the service's answer; its verdicts pass, anything else is unavailability.
Answers(ask) ==
    {Said("signed out"), Said("unavailable")} \cup
    {IF ask.cutoff = Blank THEN Said("invalid request")
     ELSE IF Replay(ask).status = "result" /\ ~LeakSafe(Replay(ask)) THEN Said("invalid response")
     ELSE Replay(ask)}

ReplayRoute(q) ==
    /\ attempts[q].stage = "asked"
    /\ \E answer \in Answers(attempts[q].ask) :
        LET fault == answer.status \in {"signed out", "unavailable"} IN
        /\ fault => replayFaults < MaxReplayFaults
        /\ replayFaults' = IF fault THEN replayFaults + 1 ELSE replayFaults
        /\ attempts' = [attempts EXCEPT ![q] =
               [stage |-> "answered", ask |-> @.ask, overtaken |-> @.overtaken, answer |-> answer]]
    /\ UNCHANGED <<recorded, held, revealed, verdict>>

\* The page takes whichever answer comes, and when.
TakeAnswer(q) ==
    /\ attempts[q].stage = "answered"
    /\ verdict' = attempts[q].answer
    /\ attempts' = [attempts EXCEPT ![q].stage = "taken"]
    /\ UNCHANGED <<recorded, held, revealed, replayFaults>>

\* The later outcome, hidden until it is asked for.
ToggleOutcome ==
    /\ verdict.status = "result"
    /\ revealed' = ~revealed
    /\ UNCHANGED <<recorded, held, verdict, attempts, replayFaults>>

\* "Leakage checks on this result".
LeakChecks(r) ==
    [target   |-> \A e \in r.evidence : e.id # r.target.id,
     evidence |-> \A e \in r.evidence : e.on <= r.cutoff,
     known    |-> \A e \in r.evidence : e.known <= r.cutoff,
     opening  |-> r.cutoff < r.target.on]

ReplayInit ==
    /\ recorded \in Histories
    /\ held \in {CandidateOf(e) : e \in {x \in ReplayCandidates : \A y \in ReplayCandidates : y.on <= x.on}}
                \cup {h \in {NoTarget} : ReplayCandidates = {}}
    /\ revealed = FALSE /\ verdict = Said("idle")
    /\ attempts = [q \in 1..MaxRuns |-> NotAsked] /\ replayFaults = 0

ReplayNext ==
    \/ \E e \in ReplayCandidates : Choose(e)
    \/ \E day \in Cutoffs \cup {Blank} : ChangeCutoff(day)
    \/ \E q \in 1..MaxRuns : RunReplay(q) \/ ReplayRoute(q) \/ TakeAnswer(q)
    \/ ToggleOutcome

ReplaySpec == ReplayInit /\ [][ReplayNext]_replayVars

----------------------------------------------------------------------------

\* What the page says of a run is what the evaluator says of the target and the
\* cutoff on show, whatever the order of changes, runs and answers; only an answer
\* overtaken by a change while it was on its way may stand under another target.
VerdictIsForTheTarget ==
    verdict.status \in {"result", "not_evaluable"} =>
        \/ verdict = Replay(held)
        \/ \E q \in 1..MaxRuns : attempts[q].stage = "taken" /\ attempts[q].overtaken /\ verdict = attempts[q].answer

\* The worker and the web agree on what a leak-safe result is: nothing the worker
\* returns is refused by the schema, and the four checks the page prints pass on
\* every result it shows.
NothingLeaks ==
    /\ verdict.status # "invalid response"
    /\ verdict.status = "result" => \A check \in DOMAIN LeakChecks(verdict) : LeakChecks(verdict)[check]

\* A replay on show is the evaluator's, of the opening and the day it stands under,
\* and saw nothing of what came after.
ReplayIsHonest == VerdictIsForTheTarget /\ NothingLeaks

=============================================================================
