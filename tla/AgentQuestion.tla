--------------------------- MODULE AgentQuestion ---------------------------
(***************************************************************************)
(* A question to the recruiting agent, from the page that asks it to the   *)
(* run that answers it: the guest limits at the edge entry, the route, the *)
(* agent service's stream, the run's own rows, and what the page makes of  *)
(* the events it reads.  A visitor may leave the page and ask again; the   *)
(* run goes on.  Beside it the button that has a prep plan built, which    *)
(* passes the service's verdicts on and nothing else; it shares nothing    *)
(* with a question, so one or the other is under way.                      *)
(***************************************************************************)
EXTENDS Naturals, FiniteSets, SequencesExt

CONSTANTS
    AgentTools,     \* the tools a run can take, in their order: a sequence
    PlanTool,       \* the one that writes a plan, taken for members only
    MaxAsks,        \* bound: questions asked
    Allowance,      \* guest questions the limits let through
    MaxAgentFaults  \* bound: failing statements, paused services, broken streams

ASSUME AgentAssumption ==
    /\ AgentTools \in Seq(ToSet(AgentTools))
    /\ MaxAsks \in Nat \ {0} /\ Allowance \in Nat /\ MaxAgentFaults \in Nat

VARIABLES
    who,        \* the visitor: "member", "guest" or "lapsed" (a cookie that no longer verifies)
    page,       \* the question panel: [ask, status, seen, error, signUp]
    asks,       \* each question: [stage, who, counted, audience, code, events]
    work,       \* each run in the service: [at, tool]
    runs,       \* each run's stored rows: [status, calls, plan]
    allowance,  \* what is left of it
    plan,       \* the plan button: [busy, said, followed, by: who answered]
    agentFaults

agentVars == <<who, page, asks, work, runs, allowance, plan, agentFaults>>

Idle == [ask |-> 0, status |-> "idle", seen |-> {}, error |-> "none", signUp |-> FALSE]
NoAsk == [stage |-> "free", who |-> "none", counted |-> FALSE, audience |-> "none", code |-> "none", events |-> <<>>]
NoPlan == [busy |-> FALSE, said |-> "none", followed |-> FALSE, by |-> "none"]
Fault == agentFaults < MaxAgentFaults /\ agentFaults' = agentFaults + 1
Event(type, tool) == [type |-> type, tool |-> tool]

----------------------------------------------------------------------------

\* The panel asks when no question of its own is running; it can be left.
AgentAsk(q) ==
    /\ page.status # "running" /\ plan = NoPlan /\ asks[q].stage = "free" /\ \A p \in 1..(q - 1) : asks[p].stage # "free"
    /\ page' = [Idle EXCEPT !.ask = q, !.status = "running"]
    /\ asks' = [asks EXCEPT ![q] = [NoAsk EXCEPT !.stage = "asked", !.who = who]]
    /\ UNCHANGED <<who, work, runs, allowance, plan, agentFaults>>
LeavePanel ==
    /\ page.ask # 0 /\ page' = Idle
    /\ UNCHANGED <<who, asks, work, runs, allowance, plan, agentFaults>>

Refuse(q, code) == asks' = [asks EXCEPT ![q].stage = "refused", ![q].code = code]

\* The edge entry counts a request without a session cookie, and marks the one it
\* lets through; a cookie it does not look into.
GuestAgentAllowance(q) ==
    /\ asks[q].stage = "asked"
    /\ IF asks[q].who # "guest" THEN asks' = [asks EXCEPT ![q].stage = "route"] /\ UNCHANGED allowance
       ELSE IF allowance = 0 THEN Refuse(q, "guest_rate_limited") /\ UNCHANGED allowance
       ELSE /\ asks' = [asks EXCEPT ![q].stage = "route", ![q].counted = TRUE]
            /\ allowance' = allowance - 1
    /\ UNCHANGED <<who, page, work, runs, plan, agentFaults>>

Caller(q) == IF asks[q].who = "member" THEN "member" ELSE IF asks[q].counted THEN "guest" ELSE "nobody"

RecruitingAgentRoute(q) ==
    /\ asks[q].stage = "route"
    /\ IF Caller(q) = "nobody" THEN Refuse(q, "sign_in_required") /\ UNCHANGED <<work, agentFaults>>
       ELSE \/ Refuse(q, "agent_api_failed") /\ Fault /\ UNCHANGED work
            \/ /\ asks' = [asks EXCEPT ![q].stage = "streaming", ![q].audience = Caller(q)]
               /\ work' = [work EXCEPT ![q].at = "begin"]
               /\ UNCHANGED agentFaults
    /\ UNCHANGED <<who, page, runs, allowance, plan>>

----------------------------------------------------------------------------

\* The run, statement by statement.  A statement fails with or without its effect.
AtWork(q, s) == asks[q].stage = "streaming" /\ work[q].at = s
Move(q, s) == work' = [work EXCEPT ![q].at = s]
Emit(q, e) == asks' = [asks EXCEPT ![q].events = Append(@, e)]

\* The row of the run is stored before anything is streamed; a failure there is
\* outside what the run catches, and the service just ends the body.
StartAgentRun(q) ==
    /\ AtWork(q, "begin")
    /\ \/ /\ runs' = [runs EXCEPT ![q].status = "running"]
          /\ Emit(q, Event("run_started", "none")) /\ Move(q, "choose") /\ UNCHANGED agentFaults
       \/ Fault /\ Move(q, "end") /\ UNCHANGED <<runs, asks>>
    /\ UNCHANGED <<who, page, allowance, plan>>

\* The next tool the question still needs, or none.
NextAction(q) ==
    {i \in DOMAIN AgentTools : i = work[q].tool + 1 /\ (AgentTools[i] = PlanTool => asks[q].audience = "member")}
ChooseTool(q) ==
    /\ AtWork(q, "choose")
    /\ \/ \E i \in NextAction(q) :
            /\ work' = [work EXCEPT ![q] = [at |-> "call", tool |-> i]]
            /\ Emit(q, Event("tool_started", AgentTools[i]))
       \/ Move(q, "save") /\ Emit(q, Event("evidence_assessed", "none"))
    /\ UNCHANGED <<who, page, runs, allowance, plan, agentFaults>>

\* (Mutant) a tool is reported before its call is recorded.
MutantCallTool(q) ==
    /\ AtWork(q, "call")
    /\ LET t == AgentTools[work[q].tool] IN
       \/ /\ runs' = [runs EXCEPT ![q].plan = @ \/ t = PlanTool]
          /\ Emit(q, Event("tool_completed", t)) /\ Move(q, "choose") /\ UNCHANGED agentFaults
       \/ /\ Fault /\ Move(q, "fail save")
          /\ UNCHANGED <<runs, asks>>
    /\ UNCHANGED <<who, page, allowance, plan>>

\* The tool is called and its call recorded, then reported.
CallTool(q) ==
    /\ AtWork(q, "call")
    /\ LET t == AgentTools[work[q].tool] IN
       \/ /\ runs' = [runs EXCEPT ![q].plan = @ \/ t = PlanTool, ![q].calls = @ \cup {t}]
          /\ Emit(q, Event("tool_completed", t)) /\ Move(q, "choose") /\ UNCHANGED agentFaults
       \/ /\ Fault /\ Move(q, "fail save") /\ UNCHANGED asks
          /\ \E stored \in BOOLEAN : runs' = IF stored THEN [runs EXCEPT ![q].plan = @ \/ t = PlanTool] ELSE runs
    /\ UNCHANGED <<who, page, allowance, plan>>

SaveState(q) ==
    /\ AtWork(q, "save")
    /\ \/ Move(q, "finish") /\ UNCHANGED agentFaults
       \/ Fault /\ Move(q, "fail save")
    /\ UNCHANGED <<who, page, asks, runs, allowance, plan>>

\* The run is stored as succeeded or partial, then answered.
FinishRun(q) ==
    /\ AtWork(q, "finish")
    /\ \/ /\ runs' = [runs EXCEPT ![q].status = "finished"]
          /\ Emit(q, Event("answer_completed", "none")) /\ Move(q, "end") /\ UNCHANGED agentFaults
       \/ /\ Fault /\ Move(q, "fail save") /\ UNCHANGED asks
          /\ \E stored \in BOOLEAN : runs' = IF stored THEN [runs EXCEPT ![q].status = "finished"] ELSE runs
    /\ UNCHANGED <<who, page, allowance, plan>>

\* What the run catches is stored, then reported; a failure while storing it ends
\* the body, too.
FailRun(q) ==
    /\ AtWork(q, "fail save")
    /\ \/ /\ runs' = [runs EXCEPT ![q].status = "failed"]
          /\ Emit(q, Event("run_failed", "none")) /\ Move(q, "end") /\ UNCHANGED agentFaults
       \/ /\ Fault /\ Move(q, "end") /\ UNCHANGED asks
          /\ \E stored \in BOOLEAN : runs' = IF stored THEN [runs EXCEPT ![q].status = "failed"] ELSE runs
    /\ UNCHANGED <<who, page, allowance, plan>>

\* The instance stops: nothing runs any more, and the stream breaks off.
InstanceStops(q) ==
    /\ asks[q].stage = "streaming" /\ Fault
    /\ asks' = [asks EXCEPT ![q].stage = "broken", ![q].events = <<>>]
    /\ UNCHANGED <<who, page, work, runs, allowance, plan>>

----------------------------------------------------------------------------

\* What the panel makes of it.
Take(q) ==
    /\ page.ask = q /\ page.status = "running" /\ asks[q].events # <<>>
    /\ page' = [page EXCEPT !.seen = @ \cup {Head(asks[q].events)}]
    /\ asks' = [asks EXCEPT ![q].events = Tail(@)]
    /\ UNCHANGED <<who, work, runs, allowance, plan, agentFaults>>
Failed == Event("run_failed", "none") \in page.seen
EndOfStream(q) ==
    /\ page.ask = q /\ page.status = "running" /\ AtWork(q, "end") /\ asks[q].events = <<>>
    /\ page' = [page EXCEPT !.status = IF Failed THEN "error" ELSE "complete",
                            !.error = IF Failed THEN "stopped" ELSE "none"]
    /\ UNCHANGED <<who, asks, work, runs, allowance, plan, agentFaults>>
OffersSignUp(code) == code \in {"guest_rate_limited", "sign_in_required"}
Problem(q) ==
    /\ page.ask = q /\ page.status = "running" /\ asks[q].stage \in {"refused", "broken"}
    /\ page' = [page EXCEPT !.status = "error", !.error = IF asks[q].stage = "broken" THEN "not asked" ELSE asks[q].code,
                            !.signUp = OffersSignUp(asks[q].code)]
    /\ UNCHANGED <<who, asks, work, runs, allowance, plan, agentFaults>>

Answer == Event("answer_completed", "none") \in page.seen
StepState(t) ==
    IF Event("tool_completed", t) \in page.seen THEN "done"
    ELSE IF Event("tool_started", t) \in page.seen THEN "running"
    ELSE IF page.status = "complete" THEN "skipped" ELSE "waiting"

\* The visitor signs in or out, or a session lapses, in another tab.
Become(w) ==
    /\ who # w /\ page.status # "running" /\ plan = NoPlan
    /\ who' = w
    /\ UNCHANGED <<page, asks, work, runs, allowance, plan, agentFaults>>
Lapse(q) ==
    /\ asks[q].stage = "asked" /\ asks[q].who = "member"
    /\ asks' = [asks EXCEPT ![q].who = "lapsed"] /\ who' = "lapsed"
    /\ UNCHANGED <<page, work, runs, allowance, plan, agentFaults>>

----------------------------------------------------------------------------

\* The plan button.  Upstream: who answered, and how.
GenerateReadiness(follows) ==
    /\ ~plan.busy /\ who = "member" /\ plan.said = "none" /\ asks[1].stage = "free"
    /\ plan' = [NoPlan EXCEPT !.busy = TRUE, !.followed = follows]
    /\ UNCHANGED <<who, page, asks, work, runs, allowance, agentFaults>>

ServiceAnswers == [by : {"service"}, status : {200, 401, 403, 422, 429, 500}, error : {TRUE}]
FrontEndAnswers == [by : {"front end"}, status : {403, 404, 429, 503}, error : {FALSE}]
NoAnswers == [by : {"nobody"}, status : {0}, error : {FALSE}]
Upstreams == ServiceAnswers \cup FrontEndAnswers \cup NoAnswers

IsAgentVerdict(u) == u.error /\ u.status >= 400 /\ u.status < 500 /\ u.status \notin {401, 429}

\* The service refuses whoever does not follow the role.
RequestReadinessPlan(u) ==
    /\ plan.busy
    /\ u.by # "service" \/ u.status \in {401, 429, 500} => agentFaults < MaxAgentFaults
    /\ u.by = "service" /\ u.status = 200 => plan.followed
    /\ u.by = "service" /\ u.status = 403 => ~plan.followed
    /\ u.by = "service" /\ u.status = 422 => plan.followed
    /\ plan' = [plan EXCEPT !.busy = FALSE, !.by = u.by,
                            !.said = IF u.status = 200 THEN "built"
                                     ELSE IF ~IsAgentVerdict(u) THEN "unavailable"
                                     ELSE IF u.status = 403 THEN "not followed" ELSE "refused"]
    /\ agentFaults' = IF u.by # "service" \/ u.status \in {401, 429, 500} THEN agentFaults + 1 ELSE agentFaults
    /\ UNCHANGED <<who, page, asks, work, runs, allowance>>

AgentInit ==
    /\ who \in {"member", "guest", "lapsed"}
    /\ page = Idle /\ asks = [q \in 1..MaxAsks |-> NoAsk]
    /\ work = [q \in 1..MaxAsks |-> [at |-> "idle", tool |-> 0]]
    /\ runs = [q \in 1..MaxAsks |-> [status |-> "none", calls |-> {}, plan |-> FALSE]]
    /\ allowance = Allowance /\ plan = NoPlan /\ agentFaults = 0

AgentNext ==
    \/ \E q \in 1..MaxAsks :
        \/ AgentAsk(q) \/ GuestAgentAllowance(q) \/ RecruitingAgentRoute(q) \/ Lapse(q)
        \/ StartAgentRun(q) \/ ChooseTool(q) \/ CallTool(q) \/ SaveState(q) \/ FinishRun(q) \/ FailRun(q)
        \/ InstanceStops(q) \/ Take(q) \/ EndOfStream(q) \/ Problem(q)
    \/ LeavePanel
    \/ \E w \in {"member", "guest", "lapsed"} : Become(w)
    \/ \E f \in BOOLEAN : GenerateReadiness(f)
    \/ \E u \in Upstreams : RequestReadinessPlan(u)

AgentSpec == AgentInit /\ [][AgentNext]_agentVars

----------------------------------------------------------------------------

\* What the panel shows is stored: the calls of the steps it marks done, the plan
\* a step built, and the finished run of an answer.
ShownIsStored ==
    page.ask # 0 =>
    LET run == runs[page.ask] IN
    /\ \A t \in ToSet(AgentTools) : StepState(t) = "done" => t \in run.calls /\ (t = PlanTool => run.plan)
    /\ Answer => run.status = "finished"

\* No run answers a visitor without a session unless the limits counted the
\* question, a lapsed session among them, and none of those runs writes a plan.
GuestRunsAreCounted ==
    LET unnamed == {q \in 1..MaxAsks : runs[q].status # "none" /\ asks[q].who # "member"} IN
    /\ Cardinality(unnamed) <= Allowance - allowance
    /\ \A q \in unnamed : asks[q].counted /\ ~runs[q].plan

\* "Follow this role" and "this role has no forecast" are said only of what the
\* agent service itself found, never of a paused service's front end.
VerdictIsTheServices ==
    plan.said \in {"not followed", "refused"} =>
    plan.by = "service" /\ (plan.said = "not followed" => ~plan.followed)

\* What a question leads to is on record: what the panel shows is stored, a guest's
\* run was counted, and a refusal the plan button words is the service's own.
AnswersAreOnRecord == ShownIsStored /\ GuestRunsAreCounted /\ VerdictIsTheServices

=============================================================================
