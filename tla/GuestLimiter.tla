--------------------------- MODULE GuestLimiter ---------------------------
(***************************************************************************)
(* The exact limits of the Cloudflare entry: guest questions               *)
(* (cloudflare/guest-agent.ts), the auth routes (cloudflare/auth-limits.ts)*)
(* and the Durable Object that counts for both (cloudflare/                *)
(* guest-limiter.ts), one object per key.                                  *)
(*                                                                         *)
(* An object decides in one step, from its memory, and only then waits for *)
(* its storage; the answer goes out once the write is durable. Between the *)
(* two other requests are decided, and the object may be evicted or crash, *)
(* which loses its memory and the writes not yet durable. That storage     *)
(* keeps the order of the writes of one key is the platform's promise.     *)
(***************************************************************************)
EXTENDS Integers, Sequences, FiniteSets

CONSTANTS
    Requests,       \* requests that pass a limit, each made once
    Keys,           \* one Durable Object per key
    Route,          \* request -> the keys it must pass, in order
    Guests,         \* the requests that are guest questions; the others call Supabase Auth
    Limit,          \* key -> its limit
    Period,         \* length of the window, in ticks
    TicksPerSecond,
    MaxTime,        \* bound on the clock
    MaxCrashes      \* bound on evictions and lost answers

ASSUME LimiterConstants ==
    /\ Route \in [Requests -> Seq(Keys)]
    /\ \A r \in Requests : Len(Route[r]) > 0
    /\ Guests \subseteq Requests
    /\ Limit \in [Keys -> Nat \ {0}]
    /\ Period \in Nat \ {0}
    /\ TicksPerSecond \in Nat \ {0}
    /\ MaxTime \in Nat
    /\ MaxCrashes \in Nat

\* A hit is one allowed request and the time it was decided at; hits are told apart by request.
Times == 0..MaxTime
Hits == [id : Requests, at : Times]
Decisions == [id : Requests, at : Times, allowed : BOOLEAN, hits : SUBSET Hits]

VARIABLES
    deployed,  \* whether the deployment has the limiter
    now,       \* the clock of the objects
    loaded,    \* keys whose object is in memory
    memory,    \* key -> this.hits
    storage,   \* key -> the stored hits
    writes,    \* key -> puts not yet durable, oldest first, each with its decision
    granted,   \* key -> hits whose answer was "allowed"
    pc,        \* request -> idle, asking, waiting, passed, refused, or an error
    passed,    \* request -> how many of its limits it has passed
    advice,    \* request -> the hits it was refused over, and when it may come back
    crashes

objects == <<loaded, memory, storage, writes>>
vars == <<deployed, now, objects, granted, pc, passed, advice, crashes>>

NoAdvice == [hits |-> {}, after |-> 0, key |-> "none"]

Init ==
    /\ deployed \in BOOLEAN
    /\ now = 0
    /\ loaded = {}
    /\ memory = [k \in Keys |-> {}]
    /\ storage = [k \in Keys |-> {}]
    /\ writes = [k \in Keys |-> <<>>]
    /\ granted = [k \in Keys |-> {}]
    /\ pc = [r \in Requests |-> "idle"]
    /\ passed = [r \in Requests |-> 0]
    /\ advice = [r \in Requests |-> NoAdvice]
    /\ crashes = 0

-----------------------------------------------------------------------------
(* takeFromWindow. *)

Recent(hits, t) == {h \in hits : h.at > t - Period}

\* Seconds until the oldest recent hit has left the window, rounded up and at least one.
RetryAfter(recent, t) ==
    LET oldest == CHOOSE x \in {h.at : h \in recent} : \A h \in recent : x <= h.at
        ticks == oldest + Period - t
        seconds == (ticks + TicksPerSecond - 1) \div TicksPerSecond
    IN  IF seconds < 1 THEN 1 ELSE seconds

\* A window that also counts the requests it refuses.
MutantTakeFromWindow(r, hits, limit) ==
    LET recent == Recent(hits, now)
    IN  [id |-> r, at |-> now, allowed |-> Cardinality(recent) < limit,
         hits |-> recent \cup {[id |-> r, at |-> now]}]

TakeFromWindow(r, hits, limit) ==
    LET recent == Recent(hits, now)
        allowed == Cardinality(recent) < limit
    IN  [id |-> r, at |-> now, allowed |-> allowed,
         hits |-> IF allowed THEN recent \cup {[id |-> r, at |-> now]} ELSE recent]

-----------------------------------------------------------------------------
(* The entry. *)

Key(r) == Route[r][passed[r] + 1]

\* Every request passes where there is no limiter.
MutantAsk(r) ==
    /\ pc[r] = "idle"
    /\ pc' = [pc EXCEPT ![r] = IF deployed THEN "asking" ELSE "passed"]
    /\ UNCHANGED <<deployed, now, objects, granted, passed, advice, crashes>>

\* A request reaches the entry. A deployment without the limiter refuses a guest question and lets
\* an auth request through.
Ask(r) ==
    /\ pc[r] = "idle"
    /\ pc' = [pc EXCEPT ![r] = CASE deployed -> "asking"
                                 [] ~deployed /\ r \in Guests -> "refused"
                                 [] OTHER -> "passed"]
    /\ UNCHANGED <<deployed, now, objects, granted, passed, advice, crashes>>

-----------------------------------------------------------------------------
(* The Durable Object. *)

\* The constructor loads the hits, and requests wait for it.
Load(k) ==
    /\ k \notin loaded
    /\ loaded' = loaded \cup {k}
    /\ memory' = [memory EXCEPT ![k] = storage[k]]
    /\ UNCHANGED <<deployed, now, storage, writes, granted, pc, passed, advice, crashes>>

\* A decision taken from what storage holds, with the window kept there only.
MutantDecide(r) ==
    LET k == Key(r)
        decision == TakeFromWindow(r, storage[k], Limit[k])
    IN  /\ pc[r] = "asking" /\ k \in loaded
        /\ memory' = [memory EXCEPT ![k] = decision.hits]
        /\ writes' = [writes EXCEPT ![k] = Append(@, decision)]
        /\ pc' = [pc EXCEPT ![r] = "waiting"]
        /\ UNCHANGED <<deployed, now, loaded, storage, granted, passed, advice, crashes>>

\* Read, decide and assign, then put: one step, for there is no await before the put's.
Decide(r) ==
    LET k == Key(r)
        decision == TakeFromWindow(r, memory[k], Limit[k])
    IN  /\ pc[r] = "asking" /\ k \in loaded
        /\ memory' = [memory EXCEPT ![k] = decision.hits]
        /\ writes' = [writes EXCEPT ![k] = Append(@, decision)]
        /\ pc' = [pc EXCEPT ![r] = "waiting"]
        /\ UNCHANGED <<deployed, now, loaded, storage, granted, passed, advice, crashes>>

\* The answer of the object, and what the entry does with it: the next limit, the route, or a
\* refusal that says when to come back.
Answer(k, decision) ==
    LET r == decision.id
    IN  IF decision.allowed
        THEN /\ granted' = [granted EXCEPT ![k] = @ \cup {[id |-> r, at |-> decision.at]}]
             /\ passed' = [passed EXCEPT ![r] = @ + 1]
             /\ pc' = [pc EXCEPT ![r] = IF passed[r] + 1 = Len(Route[r]) THEN "passed" ELSE "asking"]
             /\ UNCHANGED advice
        ELSE /\ pc' = [pc EXCEPT ![r] = "refused"]
             /\ advice' = [advice EXCEPT ![r] =
                   [hits |-> decision.hits, key |-> k,
                    after |-> decision.at
                              + TicksPerSecond * RetryAfter(decision.hits, decision.at)]]
             /\ UNCHANGED <<granted, passed>>

\* The oldest put is durable; its request is answered, or the answer is lost.
Flush(k) ==
    /\ writes[k] # <<>>
    /\ storage' = [storage EXCEPT ![k] = Head(writes[k]).hits]
    /\ writes' = [writes EXCEPT ![k] = Tail(@)]
    /\ \/ Answer(k, Head(writes[k])) /\ UNCHANGED crashes
       \/ /\ crashes < MaxCrashes /\ crashes' = crashes + 1
          /\ pc' = [pc EXCEPT ![Head(writes[k]).id] = "error"]
          /\ UNCHANGED <<granted, passed, advice>>
    /\ UNCHANGED <<deployed, now, loaded, memory>>

\* The object is evicted or crashes: its memory and the writes under way are gone, and the
\* requests that waited for them fail, which runs nothing.
Crash(k) ==
    /\ k \in loaded
    /\ crashes < MaxCrashes /\ crashes' = crashes + 1
    /\ loaded' = loaded \ {k}
    /\ memory' = [memory EXCEPT ![k] = {}]
    /\ writes' = [writes EXCEPT ![k] = <<>>]
    /\ pc' = [r \in Requests |->
                IF pc[r] = "waiting" /\ Key(r) = k THEN "error" ELSE pc[r]]
    /\ UNCHANGED <<deployed, now, storage, granted, passed, advice>>

Tick ==
    /\ now < MaxTime
    /\ now' = now + 1
    /\ UNCHANGED <<deployed, objects, granted, pc, passed, advice, crashes>>

Next ==
    \/ \E r \in Requests : Ask(r) \/ Decide(r)
    \/ \E k \in Keys : Load(k) \/ Flush(k) \/ Crash(k)
    \/ Tick

Spec == Init /\ [][Next]_vars

-----------------------------------------------------------------------------
(* Properties. *)

Stages == {"idle", "asking", "waiting", "passed", "refused", "error"}

\* Every variable has its type.
TypeOK ==
    /\ deployed \in BOOLEAN
    /\ now \in Times
    /\ loaded \subseteq Keys
    /\ memory \in [Keys -> SUBSET Hits]
    /\ storage \in [Keys -> SUBSET Hits]
    /\ writes \in [Keys -> Seq(Decisions)]
    /\ granted \in [Keys -> SUBSET Hits]
    /\ pc \in [Requests -> Stages]
    /\ \A r \in Requests : passed[r] \in 0..Len(Route[r])
    /\ \A r \in Requests : pc[r] \in {"asking", "waiting"} => passed[r] < Len(Route[r])
    /\ crashes \in 0..MaxCrashes

Within(hits, t) == {h \in hits : h.at > t - Period /\ h.at <= t}

\* "The limits are exact": in no period whatever does a key answer "allowed" more often than its
\* limit, although decisions overlap their writes and the object may restart between them.
LimitIsExact ==
    \A k \in Keys : \A t \in Times : Cardinality(Within(granted[k], t)) <= Limit[k]

\* A guest question reaches the agent only past both limits, each of which answered "allowed"; a
\* limiter that is missing, crashes or does not answer lets none through (guest-limiter.ts 86-87).
FailsClosed ==
    \A r \in Guests : pc[r] = "passed" =>
        \A i \in 1..Len(Route[r]) : \E h \in granted[Route[r][i]] : h.id = r

\* A refusal is never undeserved, given over a full window of requests this object allowed and none
\* it refused (guest-limiter.ts 10-11), and its advice is enough: once it has passed, the window it
\* was refused over has room (guest-limiter.ts 40).
RefusalIsFair ==
    \A r \in Requests :
        /\ pc[r] = "refused" /\ deployed =>
             /\ Cardinality(advice[r].hits) = Limit[advice[r].key]
             /\ \A h \in advice[r].hits : pc[h.id] # "refused" \/ passed[h.id] > 0
        /\ advice[r] # NoAdvice /\ now >= advice[r].after =>
             Cardinality(Recent(advice[r].hits, now)) < Limit[advice[r].key]

=============================================================================
