------------------------------- MODULE Preflight -------------------------------
(* Checking an environment before it is deployed (scripts/preflight.mjs over
   scripts/lib/env-catalog.mjs) against what the two programs then do with it: the
   worker's typed settings, which refuse to start, and the web app, which leaves a
   feature off.  Each variable stands for its kind in the catalog; exported
   variables win over the file's lines. *)
EXTENDS Naturals, FiniteSets

CONSTANT MaxEdits   \* bound on the lines changed

VARIABLES file,       \* the env file's lines
          exported,   \* the exported variables
          flag,       \* --production was given
          ready,      \* the last preflight: its verdict, features, and whether nothing changed since
          edits

preflightVars == <<file, exported, flag, ready, edits>>

Required == {"SUPABASE_URL", "FIRSTSEEN_ENV", "FIRSTSEEN_CONTACT_EMAIL", "FIRSTSEEN_DEMO_MODE",
             "AGENT_API_BEARER_TOKEN"}
Calendar == {"GOOGLE_CALENDAR_CLIENT_ID", "GOOGLE_CALENDAR_REDIRECT_URI"}
OptionalInGroup == {"REDDIT_API_ENABLED", "REDDIT_CLIENT_ID"}
Tuning == {"ALLOW_UNAUTHENTICATED_AGENT_DEV"}
EnvCatalog == Required \cup Calendar \cup OptionalInGroup \cup Tuning

BlankIsFatal == {"SUPABASE_URL", "REDDIT_API_ENABLED", "ALLOW_UNAUTHENTICATED_AGENT_DEV"}
DevelopmentDefault == {"FIRSTSEEN_ENV"}
RequiredInProduction == {"FIRSTSEEN_CONTACT_EMAIL"}
MustBeAbsentInProduction == {"FIRSTSEEN_DEMO_MODE"}
PresetInExample == {"GOOGLE_CALENDAR_REDIRECT_URI"}
Switches == {"REDDIT_API_ENABLED", "ALLOW_UNAUTHENTICATED_AGENT_DEV", "FIRSTSEEN_DEMO_MODE"}

Unset == "unset"
Blank == "blank"
Bad == "bad"
Values(v) == {Unset, Blank, Bad} \cup IF v \in Switches THEN {"true", "false"}
                                      ELSE IF v = "FIRSTSEEN_ENV" THEN {"production", "development"} ELSE {"good"}

\* The environment both programs and the check read.
Env(v) == IF exported[v] # Unset THEN exported[v] ELSE file[v]
Missing(v) == Env(v) \in {Unset, Blank}
Production == flag \/ Env("FIRSTSEEN_ENV") = "production"

MutantProblem(v) ==
  \/ Env(v) = Bad
  \/ v = "FIRSTSEEN_ENV" /\ Production /\ Env(v) # "production"
  \/ v = "FIRSTSEEN_DEMO_MODE" /\ Production
  \/ v = "ALLOW_UNAUTHENTICATED_AGENT_DEV" /\ Production /\ Env(v) = "true"

\* What a present value's own check finds wrong.
Problem(v) ==
  \/ Env(v) = Bad
  \/ v = "FIRSTSEEN_ENV" /\ Production /\ Env(v) # "production"
  \/ v = "FIRSTSEEN_DEMO_MODE" /\ Production
  \/ v = "ALLOW_UNAUTHENTICATED_AGENT_DEV" /\ Production /\ Env(v) = "true"
  \/ v = "REDDIT_API_ENABLED" /\ Env(v) = "true" /\ Missing("REDDIT_CLIENT_ID")

Row(v) ==
  IF Missing(v)
    THEN IF Env(v) = Blank /\ v \in BlankIsFatal THEN "malformed"
         ELSE IF v \in MustBeAbsentInProduction THEN "unset"
         ELSE IF v \in DevelopmentDefault /\ ~Production THEN "default"
         ELSE IF v \in RequiredInProduction /\ ~Production THEN "optional" ELSE "missing"
    ELSE IF Problem(v) THEN "malformed" ELSE "set"

\* A feature whose preset line alone is there was never started.
CalendarState ==
  IF \A v \in Calendar : Row(v) = "set" THEN "on"
  ELSE IF \E v \in Calendar \ PresetInExample : Row(v) # "missing" THEN "partial" ELSE "off"

Ready == \A v \in EnvCatalog : Row(v) # "malformed" /\ (v \in Required => Row(v) # "missing")

PreflightInit ==
  /\ file \in {[v \in EnvCatalog |-> Unset],
               [v \in EnvCatalog |-> IF v = "FIRSTSEEN_ENV" THEN "production"
                                     ELSE IF v \in Switches \cup Calendar THEN Unset ELSE "good"]}
  /\ exported = [v \in EnvCatalog |-> Unset]
  /\ flag = FALSE
  /\ ready = [verdict |-> "none", calendar |-> "off", fresh |-> FALSE]
  /\ edits = 0

EditLine ==
  /\ edits < MaxEdits
  /\ edits' = edits + 1
  /\ \E v \in EnvCatalog : \E value \in Values(v) :
       \/ file' = [file EXCEPT ![v] = value] /\ UNCHANGED exported
       \/ exported' = [exported EXCEPT ![v] = value] /\ UNCHANGED file
  /\ ready' = [ready EXCEPT !.fresh = FALSE]
  /\ UNCHANGED flag

RunPreflight ==
  /\ UNCHANGED <<file, exported, edits>>
  /\ flag' \in BOOLEAN
  /\ ready' = [verdict |-> IF Ready' THEN "READY" ELSE "NOT READY", calendar |-> CalendarState', fresh |-> TRUE]

PreflightNext == EditLine \/ RunPreflight

PreflightSpec == PreflightInit /\ [][PreflightNext]_preflightVars

\* The worker's settings: a typed value that is blank or malformed, or a combination they refuse.
WorkerStarts ==
  /\ \A v \in BlankIsFatal : Env(v) \notin {Blank, Bad}
  /\ Env("REDDIT_API_ENABLED") = "true" => ~Missing("REDDIT_CLIENT_ID")
  /\ Env("FIRSTSEEN_ENV") = "production" => /\ ~Missing("AGENT_API_BEARER_TOKEN")
                                            /\ Env("ALLOW_UNAUTHENTICATED_AGENT_DEV") # "true"

HasGoogleCalendarConfig == \A v \in Calendar : ~Missing(v)
Fixtures == Env("FIRSTSEEN_DEMO_MODE") = "true"

--------------------------------------------------------------------------------
(* An environment preflight called READY starts the worker, and under production
   rules shows no fixture (preflight.mjs:119, config.py:62-86). *)
ReadyStarts ==
  (ready.verdict = "READY" /\ ready.fresh)
    => WorkerStarts /\ (Production => ~Fixtures)

(* The state preflight prints for the calendar is the web app's own: on exactly
   where every variable it needs is there and well formed (google-calendar/config.ts). *)
OnIsServed ==
  (ready.fresh /\ ready.verdict = "READY") => (ready.calendar = "on" <=> HasGoogleCalendarConfig)

(* What preflight says of an environment is what the programs do with it. *)
PreflightIsRight == ReadyStarts /\ OnIsServed
================================================================================
