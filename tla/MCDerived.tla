------------------------------- MODULE MCDerived -------------------------------
(* For TLC, what is derived from stored evidence: the scope of a role, the forecasts,
   and the digest sent of them.  The parts meet in what they read, which each takes as
   it may stand, and not in a state they share, so a run is one of them, chosen at the
   start. *)
EXTENDS DigestDelivery, ForecastPasses, RoleScope

VARIABLE part   \* the part at work

derivedVars == <<part, vars, forecastVars, scopeVars>>

\* A signal that names a role; the whole company has it when that role is out of scope.
MCNamedBy == [s \in SignalItems |-> "intern"]

\* Rules that abstain, until a release knows the two titles together.
MCRuleVerdict == [r \in 0..MaxReleases |->
  [t \in SUBSET Titles |-> IF r = 1 /\ t = Titles THEN "out_of_scope" ELSE "ambiguous"]]

DerivedInit ==
  /\ part \in {"scope", "forecasts", "digest"}
  /\ Init /\ ForecastsInit /\ RoleScopeInit
  /\ part # "digest" => connection = (CHOOSE a \in Addresses : TRUE) /\ ~oneAtATime
  /\ \A e \in Items : evidence[e] \in (IF part = "forecasts" THEN {Nowhere, "intern"} ELSE {Nowhere})

DerivedNext ==
  /\ UNCHANGED part
  /\ \/ part = "scope" /\ RoleScopeNext /\ UNCHANGED <<vars, forecastVars>>
     \/ part = "forecasts" /\ ForecastsNext /\ UNCHANGED <<vars, scopeVars>>
     \/ part = "digest" /\ Next /\ UNCHANGED <<forecastVars, scopeVars>>

DerivedSpec == DerivedInit /\ [][DerivedNext]_derivedVars
================================================================================
