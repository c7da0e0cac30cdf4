-------------------------------- MODULE MCGuest --------------------------------
(* The Cloudflare entry for TLC: the limits of guest questions and auth requests,
   and the cache of guest pages.  They share no state, so a run is one of them,
   chosen at the start, the other staying where it begins. *)
EXTENDS GuestLimiter, GuestCache

CONSTANTS visitor, guests, auth, v1, v2, i1

\* A guest question passes the visitor's key and the one all guests share; an auth request passes
\* one key of its address and route.
MCRoute == [r \in Requests |-> IF r \in Guests THEN <<visitor, guests>> ELSE <<auth>>]
MCLimit == [k \in Keys |-> IF k = auth THEN 2 ELSE 1]

\* The visitors share an isolate.
MCIsolateOf == [v \in Visitors |-> i1]
MCBuildOf == [i \in Isolates |-> "old"]

VARIABLE part   \* the half at work

GuestInit ==
  /\ part \in {"limits", "cache"}
  /\ Init /\ CacheInit
  /\ part = "cache" => deployed

GuestNext ==
  /\ UNCHANGED part
  /\ \/ part = "limits" /\ Next /\ UNCHANGED cacheVars
     \/ part = "cache" /\ CacheNext /\ UNCHANGED vars

GuestSpec == GuestInit /\ [][GuestNext]_<<part, vars, cacheVars>>
================================================================================
