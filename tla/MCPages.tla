-------------------------------- MODULE MCPages --------------------------------
(* The pages for TLC: their state is one browser's and they share none of it, so a
   run is one of them, chosen at the start, the others staying where they begin. *)
EXTENDS Dashboard, JustOpened, AccountPage, SignIn, AgentQuestion, ForecastReplay, ProgramPages

VARIABLE part   \* the page at work

\* Four programs of two companies, two of which have no date yet.
MCRoles == <<"r1", "r2", "r3", "r4">>
MCValues == [company |-> {1, 2}, watched |-> {9}, season |-> {7}]
Fact(c, d, s, w) == [company |-> c, forecastable |-> d > 0, days |-> d, score |-> s,
                     history |-> d % 20, events |-> s,
                     meets |-> [company |-> {c}, watched |-> w, season |-> {}]]
MCFacts == [r1 |-> Fact(1, 10, 50, {9}), r2 |-> Fact(1, 10, 80, {}), r3 |-> Fact(1, 0, 0, {}), r4 |-> Fact(2, 30, 60, {})]
Link(c, w, s, sort, p) == [want |-> [company |-> c, watched |-> w, season |-> s], sort |-> sort, page |-> p]
MCLinks == {Link({}, {}, {}, "window", 1), Link({2}, {9}, {}, "confidence", 0),
            Link({}, {9}, {7}, "company", 2), Link({1}, {}, {}, "window", 1)}

\* Up to seven openings of three companies and two types, the newest company "a".
MCOpenings ==
  {<<>>} \cup UNION {{[i \in 1..n |-> [company |-> f[i], type |-> IF i % 3 = 1 THEN "x" ELSE "y"]] :
                        f \in {g \in [1..n -> {"a", "b", "c"}] : g[1] = "a"}} : n \in 1..7}

MCTools == <<"resolve_role", "create_readiness_plan">>

MCHistory(id, role, on, from, key, precision, known) ==
  [id |-> id, role |-> role, on |-> on, from |-> from, key |-> key, precision |-> precision, known |-> known]
MCHistories ==
  {{MCHistory(1, "a", 0, 0, k, p, n), MCHistory(2, "a", 5, 5, k, "exact", 9),
    MCHistory(3, "b", 1, 0, NoKey, "bounded", m), MCHistory(4, "a", 8, 7, NoKey, "bounded", 9)} :
     k \in {NoKey, "k"}, p \in {"exact", "observed_by"}, n \in {0, 6}, m \in {1, 9}}

MCReceipts == [v \in 1..2 |-> 3 - v]

PagesInit ==
  /\ part \in {"roles", "opened", "account", "signin", "agent", "replay", "program"}
  /\ RolesInit /\ (part # "roles" => corpus = ToSet(Roles) /\ url = DefaultFilters)
  /\ OpenedInit /\ (part # "opened" => opened = <<>> /\ view.page = 1)
  /\ AccountInit /\ (part # "account" => \A t \in Exported : account.rows[t] = {})
  /\ SignInInit /\ (part # "signin" => panel.email = "old" /\ panel.password = "p1" /\ panel.mode = "sign-in")
  /\ AgentInit /\ (part # "agent" => who = "member")
  /\ ReplayInit /\ (part # "replay" => recorded = CHOOSE h \in Histories : TRUE)
  /\ ProgramsInit

PagesNext ==
  /\ UNCHANGED part
  /\ \/ part = "roles" /\ RolesNext /\ UNCHANGED <<openedVars, accountVars, signInVars, agentVars, replayVars, programVars>>
     \/ part = "opened" /\ OpenedNext /\ UNCHANGED <<rolesVars, accountVars, signInVars, agentVars, replayVars, programVars>>
     \/ part = "account" /\ AccountNext /\ UNCHANGED <<rolesVars, openedVars, signInVars, agentVars, replayVars, programVars>>
     \/ part = "signin" /\ SignInNext /\ UNCHANGED <<rolesVars, openedVars, accountVars, agentVars, replayVars, programVars>>
     \/ part = "agent" /\ AgentNext /\ UNCHANGED <<rolesVars, openedVars, accountVars, signInVars, replayVars, programVars>>
     \/ part = "replay" /\ ReplayNext /\ UNCHANGED <<rolesVars, openedVars, accountVars, signInVars, agentVars, programVars>>
     \/ part = "program" /\ ProgramsNext /\ UNCHANGED <<rolesVars, openedVars, accountVars, signInVars, agentVars, replayVars>>

PagesSpec == PagesInit /\ [][PagesNext]_<<part, rolesVars, openedVars, accountVars, signInVars, agentVars, replayVars, programVars>>
================================================================================
