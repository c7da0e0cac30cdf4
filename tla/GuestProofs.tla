---------------------------- MODULE GuestProofs ----------------------------
(***************************************************************************)
(* What the Cloudflare entry promises a guest, for every value of the      *)
(* constants; its two halves share no state.                               *)
(*                                                                         *)
(* The limits are exact, a guest question passes every one of its limits,  *)
(* and a refusal is deserved. The window of a key is spread over its       *)
(* storage, its memory and the puts under way; IInv says that each of them *)
(* holds every granted hit, and every hit of an older put, that can still  *)
(* count at its own time. RequestInv says whose the puts and hits are: one *)
(* waiting request for each put, and no hit of a request that was only     *)
(* refused.                                                                *)
(*                                                                         *)
(* The public data version is a sound key, and a guest sees every write    *)
(* within a bounded time. KeyInv: nobody holds a version the sequence has  *)
(* not reached, and a page about to be stored is complete for the version  *)
(* its visitor read before rendering it. Fresh: of every version           *)
(* remembered or read, and of every page rendered or stored, the writes it *)
(* covers by the time it is of.                                            *)
(***************************************************************************)
EXTENDS GuestLimiter, GuestCache,
        FiniteSetTheorems, SequenceTheorems, WellFoundedInduction, TLAPS


\* The hits of `from` that still count at time t are all in `into`.
Carries(from, into, t) == \A h \in from : h.at > t - Period => h \in into

\* A window: finitely many hits, none after time t, no more than the limit.
IsWindow(hits, k, t) ==
    /\ hits \in SUBSET Hits
    /\ IsFiniteSet(hits)
    /\ Cardinality(hits) <= Limit[k]
    /\ \A h \in hits : h.at <= t

PutAt(k, i) == writes[k][i]

MemoryInv ==
    \A k \in Keys :
        /\ IsWindow(memory[k], k, now)
        /\ k \in loaded => Carries(granted[k], memory[k], now)
        /\ \A i \in 1..Len(writes[k]) : Carries(PutAt(k, i).hits, memory[k], now)

StorageInv ==
    \A k \in Keys :
        /\ IsWindow(storage[k], k, now)
        /\ Carries(granted[k], storage[k], now)
        /\ k \notin loaded => writes[k] = <<>>

PutInv ==
    \A k \in Keys : \A i \in 1..Len(writes[k]) :
        /\ PutAt(k, i).at <= now
        /\ IsWindow(PutAt(k, i).hits, k, PutAt(k, i).at)
        /\ PutAt(k, i).allowed => [id |-> PutAt(k, i).id, at |-> PutAt(k, i).at] \in PutAt(k, i).hits
        /\ Carries(granted[k], PutAt(k, i).hits, PutAt(k, i).at)
        /\ \A g \in granted[k] : g.at <= PutAt(k, i).at

OrderInv ==
    \A k \in Keys : \A i, j \in 1..Len(writes[k]) :
        i < j => /\ PutAt(k, i).at <= PutAt(k, j).at
                 /\ Carries(PutAt(k, i).hits, PutAt(k, j).hits, PutAt(k, j).at)

GrantedInv ==
    \A k \in Keys :
        /\ IsFiniteSet(granted[k])
        /\ \A g \in granted[k] : g.at <= now

\* The part of the type that the proof needs.
Types ==
    /\ now \in Times
    /\ loaded \subseteq Keys
    /\ memory \in [Keys -> SUBSET Hits]
    /\ storage \in [Keys -> SUBSET Hits]
    /\ writes \in [Keys -> Seq(Decisions)]
    /\ granted \in [Keys -> SUBSET Hits]

IInv == Types /\ MemoryInv /\ StorageInv /\ PutInv /\ OrderInv /\ GrantedInv /\ LimitIsExact

-----------------------------------------------------------------------------
(* Windows. *)

\* A window stays one when the clock moves on.
LEMMA WindowLater ==
    ASSUME NEW k \in Keys, NEW t \in Int, NEW u \in Int, t <= u,
           NEW hits, IsWindow(hits, k, t)
    PROVE  IsWindow(hits, k, u)
BY DEF IsWindow, Hits, Times

\* What takeFromWindow returns is a window at the time it was asked, holds every hit of the old
\* one that still counts, and the new hit when it is allowed.
LEMMA TakeIsWindow ==
    ASSUME NEW k \in Keys, NEW r \in Requests, NEW hits, now \in Times,
           IsWindow(hits, k, now), Limit[k] \in Nat
    PROVE  LET d == TakeFromWindow(r, hits, Limit[k])
           IN  /\ d \in Decisions
               /\ d.id = r /\ d.at = now
               /\ IsWindow(d.hits, k, now)
               /\ Carries(hits, d.hits, now)
               /\ d.allowed => [id |-> r, at |-> now] \in d.hits
<1> DEFINE recent == Recent(hits, now)
           new == [id |-> r, at |-> now]
           d == TakeFromWindow(r, hits, Limit[k])
<1>1. recent \in SUBSET hits /\ recent \in SUBSET Hits
  BY DEF Recent, IsWindow
<1>2. IsFiniteSet(recent) /\ Cardinality(recent) <= Cardinality(hits)
  BY <1>1, FS_Subset DEF IsWindow
<1>3. Cardinality(recent) \in Nat /\ Cardinality(hits) \in Nat
  BY <1>2, FS_CardinalityType DEF IsWindow
<1>4. new \in Hits /\ new.at = now
  BY DEF Hits
<1>5. CASE Cardinality(recent) < Limit[k]
  <2>1. d.hits = recent \cup {new} /\ d.id = r /\ d.at = now
    BY <1>5 DEF TakeFromWindow
  <2>2. IsFiniteSet(recent \cup {new}) /\ Cardinality(recent \cup {new}) <= Cardinality(recent) + 1
    <3>1. /\ IsFiniteSet(recent \cup {new})
          /\ Cardinality(recent \cup {new}) =
               IF new \in recent THEN Cardinality(recent) ELSE Cardinality(recent) + 1
      BY <1>2, FS_AddElement
    <3> HIDE DEF recent, new
    <3> QED BY <3>1, <1>3
  <2>3. Cardinality(recent \cup {new}) <= Limit[k]
    BY <2>2, <1>2, <1>3, <1>5, FS_CardinalityType DEF IsWindow
  <2>4. \A h \in recent \cup {new} : h.at <= now
    BY <1>1, <1>4 DEF IsWindow, Times
  <2>5. IsWindow(d.hits, k, now)
    BY <2>1, <2>2, <2>3, <2>4, <1>1, <1>4 DEF IsWindow
  <2>6. d \in Decisions
    BY <1>5, <1>1, <1>4 DEF TakeFromWindow, Decisions
  <2>7. Carries(hits, d.hits, now)
    BY <2>1 DEF Carries, Recent
  <2> QED BY <2>1, <2>5, <2>6, <2>7
<1>6. CASE ~(Cardinality(recent) < Limit[k])
  <2>1. d.hits = recent /\ d.id = r /\ d.at = now /\ ~d.allowed
    BY <1>6 DEF TakeFromWindow
  <2>2. IsWindow(d.hits, k, now)
    BY <2>1, <1>1, <1>2, <1>3 DEF IsWindow
  <2>3. d \in Decisions
    BY <1>6, <1>1 DEF TakeFromWindow, Decisions
  <2>4. Carries(hits, d.hits, now)
    BY <2>1 DEF Carries, Recent
  <2> QED BY <2>1, <2>2, <2>3, <2>4
<1> QED BY <1>5, <1>6

\* Granting a hit that a window holds together with every older grant that counts keeps the limit.
LEMMA GrantKeepsLimit ==
    ASSUME NEW k \in Keys, NEW G \in SUBSET Hits, NEW W, NEW n \in Hits,
           IsWindow(W, k, n.at), n \in W, Carries(G, W, n.at),
           \A g \in G : g.at <= n.at,
           NEW t \in Times, Cardinality(Within(G, t)) <= Limit[k],
           Period \in Nat, Limit[k] \in Nat
    PROVE  Cardinality(Within(G \cup {n}, t)) <= Limit[k]
<1>1. CASE n \in Within(G \cup {n}, t)
  <2>1. n.at <= t
    BY <1>1 DEF Within
  <2>2. \A h \in Within(G \cup {n}, t) : h \in W
    BY <2>1 DEF Within, Carries, Hits, Times
  <2>3. Within(G \cup {n}, t) \in SUBSET W
    BY <2>2
  <2>4. Cardinality(Within(G \cup {n}, t)) <= Cardinality(W)
    BY <2>3, FS_Subset DEF IsWindow
  <2>5. Cardinality(W) \in Nat /\ Cardinality(Within(G \cup {n}, t)) \in Nat
    BY <2>3, FS_Subset, FS_CardinalityType DEF IsWindow
  <2> QED BY <2>4, <2>5 DEF IsWindow
<1>2. CASE n \notin Within(G \cup {n}, t)
  <2>1. Within(G \cup {n}, t) = Within(G, t)
    BY <1>2 DEF Within
  <2> QED BY <2>1
<1> QED BY <1>1, <1>2

-----------------------------------------------------------------------------
(* One lemma for each action that touches the windows. *)

LEMMA ConstantTypes ==
    /\ Period \in Nat
    /\ MaxTime \in Nat
    /\ \A k \in Keys : Limit[k] \in Nat
BY LimiterConstants

\* Everything the invariant speaks of.
windows == <<now, objects, granted>>

LEMMA Unchanged ==
    ASSUME IInv, UNCHANGED windows
    PROVE  IInv'
<1>1. UNCHANGED <<now, storage, memory, loaded, writes, granted>>
  BY DEF windows, objects
<1>2. Types' /\ LimitIsExact'
  BY <1>1 DEF IInv, Types, LimitIsExact
<1>3. MemoryInv' /\ StorageInv'
  BY <1>1 DEF IInv, MemoryInv, StorageInv, PutAt
<1>4. PutInv'
  BY <1>1 DEF IInv, PutInv, PutAt
<1>5. OrderInv' /\ GrantedInv'
  BY <1>1 DEF IInv, OrderInv, GrantedInv, PutAt
<1> QED BY <1>2, <1>3, <1>4, <1>5 DEF IInv

LEMMA TickKeeps ==
    ASSUME IInv, Tick
    PROVE  IInv'
<1>1. /\ now' \in Times /\ now \in Times /\ now' = now + 1 /\ now <= now'
      /\ UNCHANGED <<loaded, memory, storage, writes, granted>>
  BY ConstantTypes DEF IInv, Types, Tick, objects, Times
<1>2. Types'
  BY <1>1 DEF IInv, Types
<1>3. \A S, T : Carries(S, T, now) /\ S \in SUBSET Hits => Carries(S, T, now')
  BY <1>1, ConstantTypes DEF Carries, Hits, Times
<1>4. \A k \in Keys : \A S : IsWindow(S, k, now) => IsWindow(S, k, now')
  BY <1>1 DEF IsWindow, Hits, Times
<1>5. MemoryInv'
  <2> SUFFICES ASSUME NEW k \in Keys
               PROVE  /\ IsWindow(memory[k], k, now')
                      /\ k \in loaded => Carries(granted[k], memory[k], now')
                      /\ \A i \in 1..Len(writes[k]) : Carries(PutAt(k, i).hits, memory[k], now')
    BY <1>1 DEF MemoryInv, IsWindow, Carries, PutAt
  <2>1. IsWindow(memory[k], k, now')
    BY <1>4 DEF IInv, MemoryInv
  <2>2. k \in loaded => Carries(granted[k], memory[k], now')
    BY <1>3 DEF IInv, MemoryInv, Types
  <2>3. ASSUME NEW i \in 1..Len(writes[k]) PROVE Carries(PutAt(k, i).hits, memory[k], now')
    <3>1. PutAt(k, i).hits \in SUBSET Hits
      BY DEF IInv, PutInv, IsWindow
    <3> QED BY <1>3, <3>1 DEF IInv, MemoryInv
  <2> QED BY <2>1, <2>2, <2>3
<1>6. StorageInv'
  <2> SUFFICES ASSUME NEW k \in Keys
               PROVE  /\ IsWindow(storage[k], k, now')
                      /\ Carries(granted[k], storage[k], now')
                      /\ k \notin loaded => writes[k] = <<>>
    BY <1>1 DEF StorageInv, IsWindow, Carries
  <2>1. IsWindow(storage[k], k, now')
    BY <1>4 DEF IInv, StorageInv
  <2>2. Carries(granted[k], storage[k], now')
    BY <1>3 DEF IInv, StorageInv, Types
  <2> QED BY <2>1, <2>2 DEF IInv, StorageInv
<1>7. PutInv'
  <2> SUFFICES ASSUME NEW k \in Keys, NEW i \in 1..Len(writes[k])
               PROVE  /\ PutAt(k, i).at <= now'
                      /\ IsWindow(PutAt(k, i).hits, k, PutAt(k, i).at)
                      /\ PutAt(k, i).allowed => [id |-> PutAt(k, i).id, at |-> PutAt(k, i).at] \in PutAt(k, i).hits
                      /\ Carries(granted[k], PutAt(k, i).hits, PutAt(k, i).at)
                      /\ \A g \in granted[k] : g.at <= PutAt(k, i).at
    BY <1>1 DEF PutInv, PutAt
  <2>1. PutAt(k, i) \in Decisions
    BY DEF IInv, Types, PutAt
  <2>2. PutAt(k, i).at <= now
    BY DEF IInv, PutInv
  <2>3. PutAt(k, i).at \in Int /\ now \in Int /\ now' \in Int
    BY <1>1, <2>1 DEF Decisions, Times
  <2>4. PutAt(k, i).at <= now'
    BY <1>1, <2>2, <2>3
  <2> QED BY <2>4 DEF IInv, PutInv
<1>8. OrderInv'
  BY <1>1 DEF IInv, OrderInv, Carries, PutAt
<1>9. GrantedInv'
  BY <1>1 DEF IInv, GrantedInv, Types, Hits, Times
<1>10. LimitIsExact'
  BY <1>1 DEF IInv, LimitIsExact, Within
<1> QED BY <1>2, <1>5, <1>6, <1>7, <1>8, <1>9, <1>10 DEF IInv

LEMMA LoadKeeps ==
    ASSUME IInv, NEW k \in Keys, Load(k)
    PROVE  IInv'
<1>1. /\ k \notin loaded /\ loaded' = loaded \cup {k}
      /\ memory' = [memory EXCEPT ![k] = storage[k]]
      /\ UNCHANGED <<now, storage, writes, granted>>
      /\ writes[k] = <<>>
  BY DEF Load, IInv, StorageInv
<1>2. Types'
  BY <1>1 DEF IInv, Types
<1>3. MemoryInv'
  <2> SUFFICES ASSUME NEW j \in Keys
               PROVE  /\ IsWindow(memory'[j], j, now)
                      /\ j \in loaded' => Carries(granted[j], memory'[j], now)
                      /\ \A i \in 1..Len(writes[j]) : Carries(PutAt(j, i).hits, memory'[j], now)
    BY <1>1 DEF MemoryInv, IsWindow, Carries, PutAt
  <2>1. CASE j = k
    <3>1. memory'[j] = storage[j]
      BY <1>1, <2>1 DEF IInv, Types
    <3>2. Len(writes[j]) = 0
      BY <1>1, <2>1
    <3> QED BY <3>1, <3>2 DEF IInv, StorageInv
  <2>2. CASE j # k
    <3>1. memory'[j] = memory[j]
      BY <1>1, <2>2 DEF IInv, Types
    <3> QED BY <1>1, <2>2, <3>1 DEF IInv, MemoryInv
  <2> QED BY <2>1, <2>2
<1>4. StorageInv'
  BY <1>1 DEF IInv, StorageInv, IsWindow, Carries
<1>5. PutInv'
  BY <1>1 DEF IInv, PutInv, IsWindow, Carries, PutAt
<1>6. OrderInv'
  BY <1>1 DEF IInv, OrderInv, Carries, PutAt
<1>7. GrantedInv'
  BY <1>1 DEF IInv, GrantedInv
<1>8. LimitIsExact'
  BY <1>1 DEF IInv, LimitIsExact, Within
<1> QED BY <1>2, <1>3, <1>4, <1>5, <1>6, <1>7, <1>8 DEF IInv

LEMMA CrashKeeps ==
    ASSUME IInv, NEW k \in Keys, Crash(k)
    PROVE  IInv'
<1>1. /\ loaded' = loaded \ {k}
      /\ memory' = [memory EXCEPT ![k] = {}]
      /\ writes' = [writes EXCEPT ![k] = <<>>]
      /\ UNCHANGED <<now, storage, granted>>
  BY DEF Crash
<1>2. Types'
  BY <1>1 DEF IInv, Types
<1>3. writes'[k] = <<>> /\ Len(writes'[k]) = 0 /\ memory'[k] = {}
  BY <1>1 DEF IInv, Types
<1>4. \A j \in Keys \ {k} : writes'[j] = writes[j] /\ memory'[j] = memory[j]
  BY <1>1 DEF IInv, Types
<1>5. IsWindow({}, k, now)
  <2>1. IsFiniteSet({}) /\ Cardinality({}) = 0
    BY FS_EmptySet
  <2> QED BY <2>1, ConstantTypes DEF IsWindow
<1>6. MemoryInv'
  <2> SUFFICES ASSUME NEW j \in Keys
               PROVE  /\ IsWindow(memory'[j], j, now)
                      /\ j \in loaded' => Carries(granted[j], memory'[j], now)
                      /\ \A i \in 1..Len(writes'[j]) : Carries(writes'[j][i].hits, memory'[j], now)
    BY <1>1 DEF MemoryInv, IsWindow, Carries, PutAt
  <2>1. CASE j = k
    <3>1. k \notin loaded'
      BY <1>1
    <3>2. 1..Len(writes'[k]) = {}
      BY <1>3
    <3> QED BY <1>3, <1>5, <2>1, <3>1, <3>2
  <2>2. CASE j # k
    BY <1>1, <1>4, <2>2 DEF IInv, MemoryInv, PutAt
  <2> QED BY <2>1, <2>2
<1>7. StorageInv'
  BY <1>1, <1>3, <1>4 DEF IInv, StorageInv, IsWindow, Carries
<1>8. PutInv'
  <2> SUFFICES ASSUME NEW j \in Keys, NEW i \in 1..Len(writes'[j])
               PROVE  /\ writes'[j][i].at <= now
                      /\ IsWindow(writes'[j][i].hits, j, writes'[j][i].at)
                      /\ writes'[j][i].allowed =>
                           [id |-> writes'[j][i].id, at |-> writes'[j][i].at] \in writes'[j][i].hits
                      /\ Carries(granted[j], writes'[j][i].hits, writes'[j][i].at)
                      /\ \A g \in granted[j] : g.at <= writes'[j][i].at
    BY <1>1 DEF PutInv, IsWindow, Carries, PutAt
  <2>1. j # k
    BY <1>3
  <2> QED BY <1>4, <2>1 DEF IInv, PutInv, PutAt
<1>9. OrderInv'
  <2> SUFFICES ASSUME NEW j \in Keys, NEW a \in 1..Len(writes'[j]), NEW b \in 1..Len(writes'[j]),
                      a < b
               PROVE  /\ writes'[j][a].at <= writes'[j][b].at
                      /\ Carries(writes'[j][a].hits, writes'[j][b].hits, writes'[j][b].at)
    BY DEF OrderInv, Carries, PutAt
  <2>1. j # k
    BY <1>3
  <2> QED BY <1>4, <2>1 DEF IInv, OrderInv, PutAt
<1>10. GrantedInv'
  BY <1>1 DEF IInv, GrantedInv
<1>11. LimitIsExact'
  BY <1>1 DEF IInv, LimitIsExact, Within
<1> QED BY <1>2, <1>6, <1>7, <1>8, <1>9, <1>10, <1>11 DEF IInv

LEMMA DecideKeeps ==
    ASSUME IInv, NEW r \in Requests, Decide(r)
    PROVE  IInv'
<1> DEFINE k == Key(r)
           d == TakeFromWindow(r, memory[k], Limit[k])
           n == Len(writes[k])
<1>1. /\ k \in loaded /\ k \in Keys
      /\ memory' = [memory EXCEPT ![k] = d.hits]
      /\ writes' = [writes EXCEPT ![k] = Append(@, d)]
      /\ UNCHANGED <<now, loaded, storage, granted>>
  BY DEF Decide, IInv, Types
<1>2. /\ d \in Decisions /\ d.id = r /\ d.at = now
      /\ IsWindow(d.hits, k, now)
      /\ Carries(memory[k], d.hits, now)
      /\ d.allowed => [id |-> r, at |-> now] \in d.hits
  BY <1>1, TakeIsWindow, ConstantTypes DEF IInv, Types, MemoryInv
<1> HIDE DEF k, d
<1>3. writes[k] \in Seq(Decisions) /\ n \in Nat
  BY <1>1 DEF IInv, Types
<1>4. /\ writes'[k] = Append(writes[k], d) /\ memory'[k] = d.hits
      /\ Len(writes'[k]) = n + 1 /\ writes'[k][n + 1] = d
      /\ \A i \in 1..n : writes'[k][i] = writes[k][i]
  BY <1>1, <1>2, <1>3 DEF IInv, Types
<1>5. \A j \in Keys \ {k} : writes'[j] = writes[j] /\ memory'[j] = memory[j]
  BY <1>1 DEF IInv, Types
<1>6. Types'
  <2>1. d.hits \in SUBSET Hits
    BY <1>2 DEF IsWindow
  <2>2. Append(writes[k], d) \in Seq(Decisions)
    BY <1>2, <1>3
  <2> QED BY <1>1, <2>1, <2>2 DEF IInv, Types
<1>7. \A S : Carries(S, memory[k], now) => Carries(S, d.hits, now)
  BY <1>2 DEF Carries
<1>8. \A i \in 1..(n + 1) : i \in 1..n \/ i = n + 1
  BY <1>3
<1>9. MemoryInv'
  <2> SUFFICES ASSUME NEW j \in Keys
               PROVE  /\ IsWindow(memory'[j], j, now)
                      /\ j \in loaded => Carries(granted[j], memory'[j], now)
                      /\ \A i \in 1..Len(writes'[j]) : Carries(writes'[j][i].hits, memory'[j], now)
    BY <1>1 DEF MemoryInv, IsWindow, Carries, PutAt
  <2>1. CASE j = k
    <3>1. Carries(granted[k], d.hits, now)
      BY <1>1, <1>7 DEF IInv, MemoryInv
    <3>2. ASSUME NEW i \in 1..n PROVE Carries(writes'[k][i].hits, d.hits, now)
      BY <1>1, <1>4, <1>7 DEF IInv, MemoryInv, PutAt
    <3>3. Carries(d.hits, d.hits, now)
      BY DEF Carries
    <3>4. \A i \in 1..(n + 1) : Carries(writes'[k][i].hits, d.hits, now)
      BY <1>4, <1>8, <3>2, <3>3
    <3> QED BY <1>2, <1>4, <2>1, <3>1, <3>4
  <2>2. CASE j # k
    BY <1>5, <2>2 DEF IInv, MemoryInv, PutAt
  <2> QED BY <2>1, <2>2
<1>10. StorageInv'
  BY <1>1, <1>5 DEF IInv, StorageInv, IsWindow, Carries
<1>11. PutInv'
  <2> SUFFICES ASSUME NEW j \in Keys, NEW i \in 1..Len(writes'[j])
               PROVE  /\ writes'[j][i].at <= now
                      /\ IsWindow(writes'[j][i].hits, j, writes'[j][i].at)
                      /\ writes'[j][i].allowed =>
                           [id |-> writes'[j][i].id, at |-> writes'[j][i].at] \in writes'[j][i].hits
                      /\ Carries(granted[j], writes'[j][i].hits, writes'[j][i].at)
                      /\ \A g \in granted[j] : g.at <= writes'[j][i].at
    BY <1>1 DEF PutInv, IsWindow, Carries, PutAt
  <2>1. CASE j = k /\ i = n + 1
    <3>1. Carries(granted[k], d.hits, now)
      BY <1>1, <1>7 DEF IInv, MemoryInv
    <3>2. \A g \in granted[k] : g.at <= now
      BY <1>1 DEF IInv, GrantedInv
    <3>3. now <= now
      BY DEF IInv, Types, Times
    <3> QED BY <1>2, <1>4, <2>1, <3>1, <3>2, <3>3
  <2>2. CASE j = k /\ i \in 1..n
    BY <1>1, <1>4, <2>2 DEF IInv, PutInv, PutAt
  <2>3. CASE j # k
    BY <1>5, <2>3 DEF IInv, PutInv, PutAt
  <2> QED BY <1>4, <1>8, <2>1, <2>2, <2>3
<1>12. OrderInv'
  <2> SUFFICES ASSUME NEW j \in Keys, NEW a \in 1..Len(writes'[j]), NEW b \in 1..Len(writes'[j]),
                      a < b
               PROVE  /\ writes'[j][a].at <= writes'[j][b].at
                      /\ Carries(writes'[j][a].hits, writes'[j][b].hits, writes'[j][b].at)
    BY DEF OrderInv, Carries, PutAt
  <2>1. CASE j = k /\ b = n + 1
    <3>1. a \in 1..n
      BY <1>3, <1>4, <2>1
    <3>2. Carries(writes[k][a].hits, d.hits, now) /\ writes[k][a].at <= now
      BY <1>1, <1>7, <3>1 DEF IInv, MemoryInv, PutInv, PutAt
    <3> QED BY <1>2, <1>4, <2>1, <3>1, <3>2
  <2>2. CASE j = k /\ b \in 1..n
    <3>1. a \in 1..n
      BY <1>3, <1>4, <2>2
    <3> QED BY <1>1, <1>4, <2>2, <3>1 DEF IInv, OrderInv, PutAt
  <2>3. CASE j # k
    BY <1>5, <2>3 DEF IInv, OrderInv, PutAt
  <2> QED BY <1>4, <1>8, <2>1, <2>2, <2>3
<1>13. GrantedInv'
  BY <1>1 DEF IInv, GrantedInv
<1>14. LimitIsExact'
  BY <1>1 DEF IInv, LimitIsExact, Within
<1> QED BY <1>6, <1>9, <1>10, <1>11, <1>12, <1>13, <1>14 DEF IInv

LEMMA FlushKeeps ==
    ASSUME IInv, NEW k \in Keys, Flush(k)
    PROVE  IInv'
<1> DEFINE e == writes[k][1]
           n == Len(writes[k])
           new == [id |-> e.id, at |-> e.at]
<1>1. /\ writes[k] # <<>>
      /\ storage' = [storage EXCEPT ![k] = Head(writes[k]).hits]
      /\ writes' = [writes EXCEPT ![k] = Tail(@)]
      /\ UNCHANGED <<now, loaded, memory>>
  BY DEF Flush
<1>2. /\ writes[k] \in Seq(Decisions) /\ n \in Nat \ {0} /\ Head(writes[k]) = e
      /\ e \in Decisions /\ 1 \in 1..n
  BY <1>1 DEF IInv, Types
<1>3. /\ writes'[k] = Tail(writes[k]) /\ Len(writes'[k]) = n - 1 /\ storage'[k] = e.hits
      /\ \A i \in 1..(n - 1) : writes'[k][i] = writes[k][i + 1] /\ i + 1 \in 1..n
  BY <1>1, <1>2 DEF IInv, Types
<1>4. \A j \in Keys \ {k} : writes'[j] = writes[j] /\ storage'[j] = storage[j]
  BY <1>1 DEF IInv, Types
<1>5. \/ granted' = granted
      \/ e.allowed /\ granted' = [granted EXCEPT ![k] = @ \cup {new}]
  BY <1>2 DEF Flush, Answer
<1>6. /\ e.at <= now /\ IsWindow(e.hits, k, e.at)
      /\ e.allowed => new \in e.hits
      /\ Carries(granted[k], e.hits, e.at)
      /\ \A g \in granted[k] : g.at <= e.at
  BY <1>2 DEF IInv, PutInv, PutAt
<1>7. now \in Times /\ e.at \in Times /\ e.hits \in SUBSET Hits /\ granted[k] \in SUBSET Hits
  BY <1>2 DEF IInv, Types, Decisions
<1> HIDE DEF e, n
<1>8. new \in Hits /\ new.at = e.at
  BY <1>2, <1>7 DEF Hits, Decisions
<1>9. \A j \in Keys \ {k} : granted'[j] = granted[j]
  BY <1>5 DEF IInv, Types
<1>10. /\ granted[k] \subseteq granted'[k]
       /\ \A g \in granted'[k] : g \in granted[k] \/ (g = new /\ e.allowed)
       /\ granted'[k] = granted[k] \/ (e.allowed /\ granted'[k] = granted[k] \cup {new})
  BY <1>5 DEF IInv, Types
<1>11. Types'
  <2>1. Tail(writes[k]) \in Seq(Decisions)
    BY <1>1, <1>2
  <2>2. writes' \in [Keys -> Seq(Decisions)]
    BY <1>1, <2>1 DEF IInv, Types
  <2>3. granted' \in [Keys -> SUBSET Hits]
    <3>1. granted[k] \cup {new} \in SUBSET Hits
      BY <1>7, <1>8
    <3> HIDE DEF new
    <3> QED BY <1>5, <3>1 DEF IInv, Types
  <2>4. storage' \in [Keys -> SUBSET Hits]
    BY <1>1, <1>2, <1>7 DEF IInv, Types
  <2> QED BY <1>1, <2>2, <2>3, <2>4 DEF IInv, Types
<1>12. MemoryInv'
  <2> SUFFICES ASSUME NEW j \in Keys
               PROVE  /\ IsWindow(memory[j], j, now)
                      /\ j \in loaded => Carries(granted'[j], memory[j], now)
                      /\ \A i \in 1..Len(writes'[j]) : Carries(writes'[j][i].hits, memory[j], now)
    BY <1>1 DEF MemoryInv, IsWindow, Carries, PutAt
  <2>1. CASE j = k
    <3>1. Carries(e.hits, memory[k], now) /\ (k \in loaded => Carries(granted[k], memory[k], now))
      BY <1>2 DEF IInv, MemoryInv, PutAt, e, n
    <3>2. k \in loaded => Carries(granted'[k], memory[k], now)
      BY <3>1, <1>6, <1>10 DEF Carries
    <3>3. \A i \in 1..(n - 1) : Carries(writes'[k][i].hits, memory[k], now)
      BY <1>3 DEF IInv, MemoryInv, PutAt, n
    <3> QED BY <1>3, <2>1, <3>2, <3>3 DEF IInv, MemoryInv
  <2>2. CASE j # k
    BY <1>4, <1>9, <2>2 DEF IInv, MemoryInv, PutAt
  <2> QED BY <2>1, <2>2
<1>13. StorageInv'
  <2> SUFFICES ASSUME NEW j \in Keys
               PROVE  /\ IsWindow(storage'[j], j, now)
                      /\ Carries(granted'[j], storage'[j], now)
                      /\ j \notin loaded => writes'[j] = <<>>
    BY <1>1 DEF StorageInv, IsWindow, Carries
  <2>1. CASE j = k
    <3>1. IsWindow(e.hits, k, now)
      BY <1>6, <1>7, WindowLater DEF Times
    <3>2. Carries(granted[k], e.hits, now)
      BY <1>6, <1>7, ConstantTypes DEF Carries, Times, Hits
    <3>3. Carries(granted'[k], e.hits, now)
      BY <3>2, <1>6, <1>10 DEF Carries
    <3>4. k \in loaded
      BY <1>1 DEF IInv, StorageInv
    <3> QED BY <1>3, <2>1, <3>1, <3>3, <3>4
  <2>2. CASE j # k
    BY <1>4, <1>9, <2>2 DEF IInv, StorageInv
  <2> QED BY <2>1, <2>2
<1>14. PutInv'
  <2> SUFFICES ASSUME NEW j \in Keys, NEW i \in 1..Len(writes'[j])
               PROVE  /\ writes'[j][i].at <= now
                      /\ IsWindow(writes'[j][i].hits, j, writes'[j][i].at)
                      /\ writes'[j][i].allowed =>
                           [id |-> writes'[j][i].id, at |-> writes'[j][i].at] \in writes'[j][i].hits
                      /\ Carries(granted'[j], writes'[j][i].hits, writes'[j][i].at)
                      /\ \A g \in granted'[j] : g.at <= writes'[j][i].at
    BY <1>1 DEF PutInv, IsWindow, Carries, PutAt
  <2>1. CASE j = k
    <3> DEFINE w == writes[k][i + 1]
    <3>1. i \in 1..(n - 1) /\ writes'[j][i] = w /\ i + 1 \in 1..n /\ 1 < i + 1
      <4>1. i \in 1..(n - 1)
        BY <1>3, <2>1
      <4>2. 1 < i + 1
        BY <1>2, <4>1
      <4> QED BY <1>3, <2>1, <4>1, <4>2
    <3>2. /\ w.at <= now /\ IsWindow(w.hits, k, w.at)
          /\ w.allowed => [id |-> w.id, at |-> w.at] \in w.hits
          /\ Carries(granted[k], w.hits, w.at)
          /\ \A g \in granted[k] : g.at <= w.at
      BY <3>1 DEF IInv, PutInv, PutAt, n
    <3>3. e.at <= w.at /\ Carries(e.hits, w.hits, w.at)
      BY <3>1, <1>2 DEF IInv, OrderInv, PutAt, e, n
    <3> HIDE DEF w
    <3>4. Carries(granted'[k], w.hits, w.at)
      BY <3>2, <3>3, <1>6, <1>10 DEF Carries
    <3>5. \A g \in granted'[k] : g.at <= w.at
      BY <3>2, <3>3, <1>8, <1>10
    <3> QED BY <2>1, <3>1, <3>2, <3>4, <3>5
  <2>2. CASE j # k
    BY <1>4, <1>9, <2>2 DEF IInv, PutInv, PutAt
  <2> QED BY <2>1, <2>2
<1>15. OrderInv'
  <2> SUFFICES ASSUME NEW j \in Keys, NEW a \in 1..Len(writes'[j]), NEW b \in 1..Len(writes'[j]),
                      a < b
               PROVE  /\ writes'[j][a].at <= writes'[j][b].at
                      /\ Carries(writes'[j][a].hits, writes'[j][b].hits, writes'[j][b].at)
    BY DEF OrderInv, Carries, PutAt
  <2>1. CASE j = k
    <3>1. /\ writes'[j][a] = writes[k][a + 1] /\ a + 1 \in 1..n
          /\ writes'[j][b] = writes[k][b + 1] /\ b + 1 \in 1..n /\ a + 1 < b + 1
      <4>1. a \in 1..(n - 1) /\ b \in 1..(n - 1)
        BY <1>3, <2>1
      <4>2. a + 1 < b + 1
        BY <1>2, <4>1
      <4> QED BY <1>3, <2>1, <4>1, <4>2
    <3> QED BY <3>1 DEF IInv, OrderInv, PutAt, n
  <2>2. CASE j # k
    BY <1>4, <2>2 DEF IInv, OrderInv, PutAt
  <2> QED BY <2>1, <2>2
<1>16. GrantedInv'
  <2> SUFFICES ASSUME NEW j \in Keys
               PROVE  IsFiniteSet(granted'[j]) /\ \A g \in granted'[j] : g.at <= now
    BY <1>1 DEF GrantedInv
  <2>1. IsFiniteSet(granted[k] \cup {new})
    BY FS_AddElement DEF IInv, GrantedInv
  <2>2. CASE j = k
    BY <1>6, <1>8, <1>10, <2>1, <2>2 DEF IInv, GrantedInv
  <2>3. CASE j # k
    BY <1>9, <2>3 DEF IInv, GrantedInv
  <2> QED BY <2>2, <2>3
<1>17. LimitIsExact'
  <2> SUFFICES ASSUME NEW j \in Keys, NEW t \in Times
               PROVE  Cardinality(Within(granted'[j], t)) <= Limit[j]
    BY DEF LimitIsExact, Within
  <2>1. Cardinality(Within(granted[j], t)) <= Limit[j]
    BY DEF IInv, LimitIsExact
  <2>2. CASE j = k /\ e.allowed /\ granted'[k] = granted[k] \cup {new}
    <3> HIDE DEF new
    <3> QED BY <1>6, <1>7, <1>8, <2>1, <2>2, GrantKeepsLimit, ConstantTypes
  <2> QED BY <1>9, <1>10, <2>1, <2>2
<1> QED BY <1>11, <1>12, <1>13, <1>14, <1>15, <1>16, <1>17 DEF IInv

-----------------------------------------------------------------------------
(* The theorem. *)

LEMMA InitHolds == ASSUME Init PROVE IInv
<1>1. IsFiniteSet({}) /\ Cardinality({}) = 0
  BY FS_EmptySet
<1>2. Types
  BY ConstantTypes DEF Init, Types, Times
<1>3. \A k \in Keys : /\ memory[k] = {} /\ storage[k] = {} /\ granted[k] = {}
                     /\ writes[k] = <<>> /\ 1..Len(writes[k]) = {}
  BY DEF Init
<1>4. \A k \in Keys : \A t : IsWindow({}, k, t) /\ Carries({}, {}, t)
  BY <1>1, ConstantTypes DEF IsWindow, Carries
<1>5. MemoryInv /\ StorageInv
  BY <1>3, <1>4 DEF MemoryInv, StorageInv
<1>6. PutInv /\ OrderInv /\ GrantedInv
  BY <1>1, <1>3 DEF PutInv, OrderInv, GrantedInv
<1>7. LimitIsExact
  <2>1. \A t : Within({}, t) = {}
    BY DEF Within
  <2>2. \A k \in Keys : 0 <= Limit[k]
    BY ConstantTypes
  <2> QED BY <1>1, <1>3, <2>1, <2>2 DEF LimitIsExact
<1> QED BY <1>2, <1>5, <1>6, <1>7 DEF IInv

LEMMA WindowsKept == IInv /\ [Next]_vars => IInv'
<1> SUFFICES ASSUME IInv, [Next]_vars PROVE IInv'
  OBVIOUS
<1>1. CASE \E r \in Requests : Ask(r)
  BY <1>1, Unchanged DEF Ask, windows
<1>2. CASE UNCHANGED vars
  BY <1>2, Unchanged DEF vars, windows
<1> QED BY <1>1, <1>2, DecideKeeps, LoadKeeps, FlushKeeps, CrashKeeps, TickKeeps DEF Next

\* The limits are exact: for any number of requests, any routes, limits and period, a key answers
\* "allowed" at most its limit of times in every period, whatever is decided while a write is under
\* way and wherever an object restarts (guest-limiter.ts 37-76).
THEOREM LimitsAreExact == Spec => []LimitIsExact
<1>1. IInv => LimitIsExact
  BY DEF IInv
<1> QED BY <1>1, InitHolds, WindowsKept, PTL DEF Spec

-----------------------------------------------------------------------------
(* Where each request stands. A put belongs to one waiting request; a hit belongs to a request that
   some object allowed, or that its answer was lost to. *)

\* A request that an object has allowed, or may have: it holds a limit, failed, or waits for an answer
\* that will be "allowed".
Admitted(r) ==
    \/ passed[r] > 0
    \/ pc[r] = "error"
    \/ /\ pc[r] = "waiting"
       /\ \A k \in Keys : \A i \in 1..Len(writes[k]) : PutAt(k, i).id = r => PutAt(k, i).allowed

AllAdmitted(hits) == \A h \in hits : Admitted(h.id)

StageTypes ==
    /\ pc \in [Requests -> Stages]
    /\ passed \in [Requests -> Nat]
    /\ \A r \in Requests :
         /\ passed[r] \in 0..Len(Route[r])
         /\ pc[r] \in {"idle", "asking", "waiting"} => passed[r] < Len(Route[r])

PutsAreWaitedFor ==
    \A k \in Keys : \A i \in 1..Len(writes[k]) :
        /\ pc[PutAt(k, i).id] = "waiting" /\ Key(PutAt(k, i).id) = k
        /\ \A j \in 1..Len(writes[k]) : PutAt(k, j).id = PutAt(k, i).id => i = j
        /\ ~PutAt(k, i).allowed => Cardinality(PutAt(k, i).hits) = Limit[k]

HitsAreAdmitted ==
    \A k \in Keys :
        /\ AllAdmitted(memory[k]) /\ AllAdmitted(storage[k])
        /\ \A i \in 1..Len(writes[k]) : AllAdmitted(PutAt(k, i).hits)

\* What a refusal was given over, and the time its advice was counted from.
IsAdvice(a) ==
    /\ AllAdmitted(a.hits)
    /\ \E k \in Keys, t \in Times :
         /\ a = [hits |-> a.hits, key |-> k,
                 after |-> t + TicksPerSecond * RetryAfter(a.hits, t)]
         /\ IsWindow(a.hits, k, t) /\ Cardinality(a.hits) = Limit[k]

AdviceIsGiven ==
    /\ advice = [r \in Requests |-> advice[r]]
    /\ \A r \in Requests :
         /\ advice[r] # NoAdvice => IsAdvice(advice[r])
         /\ pc[r] = "refused" /\ deployed => advice[r] # NoAdvice

PassedIsGranted ==
    \A r \in Requests :
        /\ \A i \in 1..passed[r] : \E h \in granted[Route[r][i]] : h.id = r
        /\ r \in Guests /\ pc[r] = "passed" => passed[r] = Len(Route[r])

RequestInv == StageTypes /\ PutsAreWaitedFor /\ HitsAreAdmitted /\ AdviceIsGiven /\ PassedIsGranted

\* The three ways the oldest put e of key k ends.
Granted(k, e) ==
    /\ e.allowed
    /\ granted' = [granted EXCEPT ![k] = @ \cup {[id |-> e.id, at |-> e.at]}]
    /\ passed' = [passed EXCEPT ![e.id] = @ + 1]
    /\ pc' = [pc EXCEPT ![e.id] = IF passed[e.id] + 1 = Len(Route[e.id]) THEN "passed" ELSE "asking"]
    /\ UNCHANGED advice
Refused(k, e) ==
    /\ ~e.allowed
    /\ pc' = [pc EXCEPT ![e.id] = "refused"]
    /\ advice' = [advice EXCEPT ![e.id] =
          [hits |-> e.hits, key |-> k, after |-> e.at + TicksPerSecond * RetryAfter(e.hits, e.at)]]
    /\ UNCHANGED <<granted, passed>>
Lost(e) ==
    /\ pc' = [pc EXCEPT ![e.id] = "error"]
    /\ UNCHANGED <<granted, passed, advice>>

LEMMA FlushEnds ==
    ASSUME IInv, StageTypes, PutsAreWaitedFor, NEW k \in Keys, Flush(k)
    PROVE  \E e \in Decisions :
             /\ 1 \in 1..Len(writes[k]) /\ e = PutAt(k, 1)
             /\ pc[e.id] = "waiting" /\ Key(e.id) = k /\ passed[e.id] < Len(Route[e.id])
             /\ IsWindow(e.hits, k, e.at) /\ (~e.allowed => Cardinality(e.hits) = Limit[k])
             /\ storage' = [storage EXCEPT ![k] = e.hits]
             /\ \A j \in Keys \ {k} : writes'[j] = writes[j]
             /\ \A i \in 1..Len(writes'[k]) : i + 1 \in 2..Len(writes[k]) /\ writes'[k][i] = PutAt(k, i + 1)
             /\ UNCHANGED <<deployed, now, loaded, memory>>
             /\ Granted(k, e) \/ Refused(k, e) \/ Lost(e)
<1> DEFINE e == Head(writes[k])
<1>1. writes[k] \in Seq(Decisions) /\ writes[k] # <<>> /\ writes \in [Keys -> Seq(Decisions)]
  BY DEF Flush, IInv, Types
<1>2. e \in Decisions /\ e = PutAt(k, 1) /\ 1 \in 1..Len(writes[k])
  BY <1>1 DEF PutAt
<1>3. writes' = [writes EXCEPT ![k] = Tail(@)] /\ storage' = [storage EXCEPT ![k] = e.hits]
  BY DEF Flush
<1>4. \A i \in 1..Len(writes'[k]) : i + 1 \in 2..Len(writes[k]) /\ writes'[k][i] = PutAt(k, i + 1)
  BY <1>1, <1>3 DEF PutAt
<1>5. UNCHANGED <<deployed, now, loaded, memory>>
  BY DEF Flush
<1>6. Granted(k, e) \/ Refused(k, e) \/ Lost(e)
  BY DEF Flush, Answer, Granted, Refused, Lost
<1>7. pc[e.id] = "waiting" /\ Key(e.id) = k /\ passed[e.id] < Len(Route[e.id])
  BY <1>2 DEF PutsAreWaitedFor, StageTypes, Decisions
<1>8. IsWindow(e.hits, k, e.at) /\ (~e.allowed => Cardinality(e.hits) = Limit[k])
  <2>1. IsWindow(e.hits, k, e.at)
    BY <1>2 DEF IInv, PutInv
  <2>2. ~e.allowed => Cardinality(e.hits) = Limit[k]
    BY <1>2 DEF PutsAreWaitedFor
  <2> QED BY <2>1, <2>2
<1>9. \A j \in Keys \ {k} : writes'[j] = writes[j]
  BY <1>1, <1>3
<1> HIDE DEF e
<1> QED BY <1>2, <1>3, <1>4, <1>5, <1>6, <1>7, <1>8, <1>9

\* What a decision adds.
LEMMA DecideAdds ==
    ASSUME IInv, NEW r \in Requests, Decide(r)
    PROVE  \E k \in Keys, d \in Decisions :
             /\ k = Key(r) /\ pc[r] = "asking" /\ pc' = [pc EXCEPT ![r] = "waiting"]
             /\ d.id = r /\ d.hits \subseteq memory[k] \cup {[id |-> r, at |-> now]}
             /\ ~d.allowed => d.hits \subseteq memory[k] /\ Cardinality(d.hits) = Limit[k]
             /\ memory' = [memory EXCEPT ![k] = d.hits]
             /\ writes'[k] = Append(writes[k], d)
             /\ \A j \in Keys \ {k} : writes'[j] = writes[j]
             /\ UNCHANGED <<deployed, now, loaded, storage, granted, passed, advice>>
<1> DEFINE k == Key(r)
           d == TakeFromWindow(r, memory[k], Limit[k])
<1>1. /\ k \in Keys /\ pc[r] = "asking" /\ pc' = [pc EXCEPT ![r] = "waiting"]
      /\ memory' = [memory EXCEPT ![k] = d.hits] /\ writes' = [writes EXCEPT ![k] = Append(@, d)]
      /\ UNCHANGED <<deployed, now, loaded, storage, granted, passed, advice>>
  BY DEF Decide, IInv, Types
<1>2. d \in Decisions /\ d.id = r /\ IsWindow(d.hits, k, now)
  BY <1>1, TakeIsWindow, ConstantTypes DEF IInv, Types, MemoryInv
<1>3. d.hits \subseteq memory[k] \cup {[id |-> r, at |-> now]}
  BY DEF TakeFromWindow, Recent
<1>4. ~d.allowed => d.hits \subseteq memory[k] /\ ~(Cardinality(d.hits) < Limit[k])
  BY DEF TakeFromWindow, Recent
<1>5. Cardinality(d.hits) \in Nat /\ Cardinality(d.hits) <= Limit[k] /\ Limit[k] \in Nat
  BY <1>1, <1>2, FS_CardinalityType, ConstantTypes DEF IsWindow
<1>6. writes'[k] = Append(writes[k], d) /\ \A j \in Keys \ {k} : writes'[j] = writes[j]
  BY <1>1 DEF IInv, Types
<1> HIDE DEF d
<1>7. ~d.allowed => Cardinality(d.hits) = Limit[k]
  BY <1>4, <1>5
<1> QED BY <1>1, <1>2, <1>3, <1>4, <1>6, <1>7

\* A request once admitted stays so.
LEMMA AdmittedStays ==
    ASSUME IInv, StageTypes, PutsAreWaitedFor, [Next]_vars, NEW r \in Requests, Admitted(r)
    PROVE  Admitted(r)'
<1>t. /\ pc \in [Requests -> Stages] /\ passed \in [Requests -> Nat] /\ writes \in [Keys -> Seq(Decisions)]
  BY DEF StageTypes, IInv, Types
<1>1. ASSUME NEW q \in Requests, Ask(q) PROVE Admitted(r)'
  <2>1. pc[q] = "idle" /\ UNCHANGED <<passed, writes>> /\ \A b \in Requests : b # q => pc'[b] = pc[b]
    BY <1>1, <1>t DEF Ask, objects
  <2>. QED BY <2>1 DEF Admitted, PutAt
<1>2. ASSUME NEW q \in Requests, Decide(q) PROVE Admitted(r)'
  <2>1. PICK k \in Keys, d \in Decisions :
          /\ pc[q] = "asking" /\ pc' = [pc EXCEPT ![q] = "waiting"] /\ d.id = q /\ UNCHANGED passed
          /\ writes'[k] = Append(writes[k], d) /\ \A j \in Keys \ {k} : writes'[j] = writes[j]
    BY <1>2, DecideAdds
  <2>2. CASE q = r
    BY <2>1, <2>2 DEF Admitted
  <2>3. CASE q # r
    <3>1. pc'[r] = pc[r]
      BY <1>t, <2>1, <2>3
    <3>2. ASSUME NEW j \in Keys, NEW i \in 1..Len(writes'[j]), writes'[j][i].id = r
          PROVE  i \in 1..Len(writes[j]) /\ writes'[j][i] = PutAt(j, i)
      <4>1. CASE j = k /\ i = Len(writes[k]) + 1
        BY <1>t, <2>1, <2>3, <3>2, <4>1
      <4>2. CASE j = k /\ i \in 1..Len(writes[k])
        BY <1>t, <2>1, <4>2 DEF PutAt
      <4>3. CASE j # k
        BY <2>1, <4>3 DEF PutAt
      <4>. QED BY <1>t, <2>1, <4>1, <4>2, <4>3
    <3>. QED BY <2>1, <3>1, <3>2 DEF Admitted, PutAt
  <2>. QED BY <2>2, <2>3
<1>3. ASSUME NEW k \in Keys, Flush(k) PROVE Admitted(r)'
  <2>1. PICK e \in Decisions :
          /\ 1 \in 1..Len(writes[k]) /\ e = PutAt(k, 1)
          /\ \A j \in Keys \ {k} : writes'[j] = writes[j]
          /\ \A i \in 1..Len(writes'[k]) : i + 1 \in 2..Len(writes[k]) /\ writes'[k][i] = PutAt(k, i + 1)
          /\ Granted(k, e) \/ Refused(k, e) \/ Lost(e)
    BY <1>3, FlushEnds
  <2>2. e.id \in Requests
    BY DEF Decisions
  <2>3. CASE e.id = r
    <3>1. CASE Granted(k, e)
      BY <1>t, <2>3, <3>1 DEF Granted, Admitted
    <3>2. CASE Refused(k, e)
      BY <1>t, <2>1, <2>3, <3>2 DEF Refused, Admitted, PutsAreWaitedFor
    <3>3. CASE Lost(e)
      BY <1>t, <2>3, <3>3 DEF Lost, Admitted
    <3>. QED BY <2>1, <3>1, <3>2, <3>3
  <2>4. CASE e.id # r
    <3>1. pc'[r] = pc[r] /\ passed'[r] = passed[r]
      BY <1>t, <2>1, <2>2, <2>4 DEF Granted, Refused, Lost
    <3>2. ASSUME NEW j \in Keys, NEW i \in 1..Len(writes'[j])
          PROVE  \E l \in 1..Len(writes[j]) : writes'[j][i] = PutAt(j, l)
      <4>1. CASE j = k
        <5>1. i + 1 \in 2..Len(writes[k]) /\ writes'[k][i] = PutAt(k, i + 1)
          BY <2>1, <4>1
        <5>2. i + 1 \in 1..Len(writes[k])
          BY <5>1
        <5>. QED BY <4>1, <5>1, <5>2
      <4>2. CASE j # k
        BY <2>1, <4>2 DEF PutAt
      <4>. QED BY <4>1, <4>2
    <3>. QED BY <3>1, <3>2 DEF Admitted, PutAt
  <2>. QED BY <2>3, <2>4
<1>4. ASSUME NEW k \in Keys, Crash(k) PROVE Admitted(r)'
  <2>1. /\ UNCHANGED passed /\ pc'[r] \in {pc[r], "error"}
        /\ writes' = [writes EXCEPT ![k] = <<>>]
    BY <1>4 DEF Crash
  <2>2. \A j \in Keys : \A i \in 1..Len(writes'[j]) : j # k /\ writes'[j] = writes[j]
    BY <1>t, <2>1
  <2>. QED BY <2>1, <2>2 DEF Admitted, PutAt
<1>5. ASSUME UNCHANGED <<pc, passed, writes>> PROVE Admitted(r)'
  BY <1>5 DEF Admitted, PutAt
<1>6. ASSUME NEW k \in Keys, Load(k) PROVE Admitted(r)'
  BY <1>5, <1>6 DEF Load
<1>7. CASE Tick
  BY <1>5, <1>7 DEF Tick, objects
<1>8. CASE UNCHANGED vars
  BY <1>5, <1>8 DEF vars, objects
<1>. QED BY <1>1, <1>2, <1>3, <1>4, <1>6, <1>7, <1>8 DEF Next

LEMMA AllAdmittedStays ==
    ASSUME IInv, StageTypes, PutsAreWaitedFor, [Next]_vars, NEW hits \in SUBSET Hits, AllAdmitted(hits)
    PROVE  \A h \in hits : Admitted(h.id)'
BY AdmittedStays DEF AllAdmitted, Hits

LEMMA StageStep == IInv /\ StageTypes /\ PutsAreWaitedFor /\ [Next]_vars => StageTypes'
<1>. SUFFICES ASSUME IInv, StageTypes, PutsAreWaitedFor, [Next]_vars PROVE StageTypes'
  OBVIOUS
<1>t. /\ pc \in [Requests -> Stages] /\ passed \in [Requests -> Nat]
      /\ \A r \in Requests : Len(Route[r]) \in Nat \ {0}
      /\ \A r \in Requests : passed[r] \in 0..Len(Route[r])
      /\ \A r \in Requests : pc[r] \in {"idle", "asking", "waiting"} => passed[r] < Len(Route[r])
  BY LimiterConstants DEF StageTypes
<1>1. ASSUME NEW q \in Requests, Ask(q) PROVE StageTypes'
  <2>1. PICK stage \in {"asking", "refused", "passed"} : pc' = [pc EXCEPT ![q] = stage]
    BY <1>1 DEF Ask
  <2>. QED BY <1>1, <1>t, <2>1 DEF Ask, StageTypes, Stages
<1>2. ASSUME NEW q \in Requests, Decide(q) PROVE StageTypes'
  <2>1. pc[q] = "asking" /\ pc' = [pc EXCEPT ![q] = "waiting"] /\ UNCHANGED passed
    BY <1>2 DEF Decide
  <2>. QED BY <2>1, <1>t DEF StageTypes, Stages
<1>3. ASSUME NEW k \in Keys, Flush(k) PROVE StageTypes'
  <2>1. PICK e \in Decisions :
          /\ pc[e.id] = "waiting" /\ passed[e.id] < Len(Route[e.id])
          /\ Granted(k, e) \/ Refused(k, e) \/ Lost(e)
    BY <1>3, FlushEnds
  <2>2. e.id \in Requests
    BY DEF Decisions
  <2>3. CASE Granted(k, e)
    <3>1. /\ passed' = [passed EXCEPT ![e.id] = @ + 1]
          /\ \E stage \in {"passed", "asking"} :
               /\ pc' = [pc EXCEPT ![e.id] = stage]
               /\ stage = "asking" => passed[e.id] + 1 # Len(Route[e.id])
      BY <2>3 DEF Granted
    <3>. QED BY <1>t, <2>1, <2>2, <3>1 DEF StageTypes, Stages
  <2>4. CASE Refused(k, e) \/ Lost(e)
    BY <1>t, <2>2, <2>4 DEF Refused, Lost, StageTypes, Stages
  <2>. QED BY <2>1, <2>3, <2>4
<1>4. ASSUME NEW k \in Keys, Crash(k) PROVE StageTypes'
  BY <1>4, <1>t DEF Crash, StageTypes, Stages
<1>5. ASSUME NEW k \in Keys, Load(k) PROVE StageTypes'
  BY <1>5 DEF Load, StageTypes
<1>6. CASE Tick
  BY <1>6 DEF Tick, StageTypes
<1>7. CASE UNCHANGED vars
  BY <1>7 DEF vars, StageTypes
<1>. QED BY <1>1, <1>2, <1>3, <1>4, <1>5, <1>6, <1>7 DEF Next

\* A put under way is a decision; a decision is put behind the others.
LEMMA PutType ==
    ASSUME Types, NEW k \in Keys, NEW i \in 1..Len(writes[k])
    PROVE  PutAt(k, i) \in Decisions /\ PutAt(k, i).id \in Requests /\ PutAt(k, i).hits \in SUBSET Hits
<1>1. writes[k] \in Seq(Decisions)
  BY DEF Types
<1>2. PutAt(k, i) \in Decisions
  BY <1>1 DEF PutAt
<1>. QED BY <1>2 DEF Decisions

LEMMA PutBehind ==
    ASSUME NEW s \in Seq(Decisions), NEW d \in Decisions, NEW i \in 1..Len(Append(s, d))
    PROVE  \/ i = Len(s) + 1 /\ Append(s, d)[i] = d
           \/ i \in 1..Len(s) /\ Append(s, d)[i] = s[i]
OBVIOUS

\* What it takes to show that the puts are waited for after a step.
LEMMA WaitedFor ==
    ASSUME \A j \in Keys : \A i \in 1..Len(writes'[j]) :
             /\ \E b \in Requests : writes'[j][i].id = b /\ pc'[b] = "waiting" /\ Key(b)' = j
             /\ ~writes'[j][i].allowed => Cardinality(writes'[j][i].hits) = Limit[j],
           \A j \in Keys : \A i, l \in 1..Len(writes'[j]) :
             writes'[j][i].id = writes'[j][l].id => i = l
    PROVE  PutsAreWaitedFor'
BY DEF PutsAreWaitedFor, PutAt, Key

LEMMA PutsStep == IInv /\ StageTypes /\ PutsAreWaitedFor /\ [Next]_vars => PutsAreWaitedFor'
<1>. SUFFICES ASSUME IInv, StageTypes, PutsAreWaitedFor, [Next]_vars PROVE PutsAreWaitedFor'
  OBVIOUS
<1>t. /\ pc \in [Requests -> Stages] /\ passed \in [Requests -> Nat] /\ writes \in [Keys -> Seq(Decisions)]
      /\ Types
  BY DEF StageTypes, IInv, Types
<1>p. \A k \in Keys : \A i \in 1..Len(writes[k]) : PutAt(k, i).id \in Requests
  BY <1>t, PutType
<1>1. ASSUME NEW q \in Requests, Ask(q) PROVE PutsAreWaitedFor'
  <2>1. pc[q] = "idle" /\ UNCHANGED <<passed, writes>> /\ \A b \in Requests : b # q => pc'[b] = pc[b]
    BY <1>1, <1>t DEF Ask, objects
  <2>2. ASSUME NEW j \in Keys, NEW i \in 1..Len(writes'[j])
        PROVE  /\ \E b \in Requests : writes'[j][i].id = b /\ pc'[b] = "waiting" /\ Key(b)' = j
               /\ ~writes'[j][i].allowed => Cardinality(writes'[j][i].hits) = Limit[j]
    <3>1. PICK b \in Requests : PutAt(j, i).id = b /\ pc[b] = "waiting" /\ Key(b) = j
      BY <1>p, <2>1 DEF PutsAreWaitedFor
    <3>2. pc'[b] = "waiting" /\ Key(b)' = j
      BY <2>1, <3>1 DEF Key
    <3>. QED BY <2>1, <3>1, <3>2 DEF PutsAreWaitedFor, PutAt
  <2>3. \A j \in Keys : \A i, l \in 1..Len(writes'[j]) : writes'[j][i].id = writes'[j][l].id => i = l
    BY <2>1 DEF PutsAreWaitedFor, PutAt
  <2>. QED BY <2>2, <2>3, WaitedFor
<1>2. ASSUME NEW q \in Requests, Decide(q) PROVE PutsAreWaitedFor'
  <2>1. PICK k \in Keys, d \in Decisions :
          /\ k = Key(q) /\ pc[q] = "asking" /\ pc' = [pc EXCEPT ![q] = "waiting"] /\ d.id = q /\ UNCHANGED passed
          /\ ~d.allowed => Cardinality(d.hits) = Limit[k]
          /\ writes'[k] = Append(writes[k], d) /\ \A j \in Keys \ {k} : writes'[j] = writes[j]
    BY <1>2, DecideAdds
  <2>2. \A j \in Keys : \A i \in 1..Len(writes[j]) : PutAt(j, i).id # q
    BY <2>1 DEF PutsAreWaitedFor
  <2>3. ASSUME NEW j \in Keys, NEW i \in 1..Len(writes[j])
        PROVE  /\ \E b \in Requests : PutAt(j, i).id = b /\ pc'[b] = "waiting" /\ Key(b)' = j
               /\ ~PutAt(j, i).allowed => Cardinality(PutAt(j, i).hits) = Limit[j]
    <3>1. PICK b \in Requests : PutAt(j, i).id = b /\ b # q
      BY <1>p, <2>2
    <3>2. pc[b] = "waiting" /\ Key(b) = j
      BY <3>1 DEF PutsAreWaitedFor
    <3>3. pc'[b] = "waiting" /\ Key(b)' = j
      BY <1>t, <2>1, <3>1, <3>2 DEF Key
    <3>. QED BY <3>1, <3>3 DEF PutsAreWaitedFor
  <2>4. ASSUME NEW j \in Keys, NEW i \in 1..Len(writes'[j])
        PROVE  \/ j = k /\ i = Len(writes[k]) + 1 /\ writes'[j][i] = d
               \/ i \in 1..Len(writes[j]) /\ writes'[j][i] = PutAt(j, i)
    <3>1. CASE j = k
      <4>1. writes[k] \in Seq(Decisions) /\ writes'[k] = Append(writes[k], d)
        BY <1>t, <2>1
      <4>. QED BY <3>1, <4>1, PutBehind DEF PutAt
    <3>2. CASE j # k
      BY <2>1, <3>2 DEF PutAt
    <3>. QED BY <3>1, <3>2
  <2>5. pc'[q] = "waiting" /\ Key(q)' = k
    BY <1>t, <2>1 DEF Key
  <2>6. ASSUME NEW j \in Keys, NEW i \in 1..Len(writes'[j]), NEW l \in 1..Len(writes'[j]),
               writes'[j][i].id = writes'[j][l].id
        PROVE  i = l
    <3>1. CASE writes'[j][i].id = q
      BY <2>1, <2>2, <2>4, <2>6, <3>1
    <3>2. CASE writes'[j][i].id # q
      BY <2>1, <2>4, <2>6, <3>2 DEF PutsAreWaitedFor
    <3>. QED BY <3>1, <3>2
  <2>7. ASSUME NEW j \in Keys, NEW i \in 1..Len(writes'[j])
        PROVE  /\ \E b \in Requests : writes'[j][i].id = b /\ pc'[b] = "waiting" /\ Key(b)' = j
               /\ ~writes'[j][i].allowed => Cardinality(writes'[j][i].hits) = Limit[j]
    BY <2>1, <2>3, <2>4, <2>5
  <2>. QED BY <2>6, <2>7, WaitedFor
<1>3. ASSUME NEW k \in Keys, Flush(k) PROVE PutsAreWaitedFor'
  <2>1. PICK e \in Decisions :
          /\ 1 \in 1..Len(writes[k]) /\ e = PutAt(k, 1) /\ Key(e.id) = k
          /\ \A j \in Keys \ {k} : writes'[j] = writes[j]
          /\ \A i \in 1..Len(writes'[k]) : i + 1 \in 2..Len(writes[k]) /\ writes'[k][i] = PutAt(k, i + 1)
          /\ Granted(k, e) \/ Refused(k, e) \/ Lost(e)
    BY <1>3, FlushEnds
  <2>2. \A b \in Requests : b # e.id => pc'[b] = pc[b] /\ passed'[b] = passed[b]
    BY <1>t, <2>1 DEF Granted, Refused, Lost
  <2>3. ASSUME NEW j \in Keys, NEW i \in 1..Len(writes'[j])
        PROVE  \E l \in 1..Len(writes[j]) :
                 /\ writes'[j][i] = PutAt(j, l) /\ l = (IF j = k THEN i + 1 ELSE i)
                 /\ PutAt(j, l).id # e.id
    <3>1. CASE j = k
      <4>1. i + 1 \in 2..Len(writes[k]) /\ writes'[k][i] = PutAt(k, i + 1)
        BY <2>1, <3>1
      <4>2. i + 1 \in 1..Len(writes[k]) /\ i + 1 # 1
        BY <4>1
      <4>3. PutAt(k, i + 1).id # e.id
        BY <2>1, <4>2 DEF PutsAreWaitedFor
      <4>. QED BY <3>1, <4>1, <4>2, <4>3
    <3>2. CASE j # k
      BY <2>1, <3>2 DEF PutAt, PutsAreWaitedFor
    <3>. QED BY <3>1, <3>2
  <2>4. ASSUME NEW j \in Keys, NEW i \in 1..Len(writes'[j])
        PROVE  /\ \E b \in Requests : writes'[j][i].id = b /\ pc'[b] = "waiting" /\ Key(b)' = j
               /\ ~writes'[j][i].allowed => Cardinality(writes'[j][i].hits) = Limit[j]
    <3>1. PICK l \in 1..Len(writes[j]) : writes'[j][i] = PutAt(j, l) /\ PutAt(j, l).id # e.id
      BY <2>3
    <3>2. PICK b \in Requests : PutAt(j, l).id = b
      BY <1>p
    <3>3. pc[b] = "waiting" /\ Key(b) = j /\ b # e.id
      BY <3>1, <3>2 DEF PutsAreWaitedFor
    <3>4. pc'[b] = "waiting" /\ Key(b)' = j
      BY <2>2, <3>3 DEF Key
    <3>. QED BY <3>1, <3>2, <3>4 DEF PutsAreWaitedFor
  <2>5. ASSUME NEW j \in Keys, NEW i \in 1..Len(writes'[j]), NEW l \in 1..Len(writes'[j]),
               writes'[j][i].id = writes'[j][l].id
        PROVE  i = l
    <3>1. PICK a \in 1..Len(writes[j]) : writes'[j][i] = PutAt(j, a) /\ a = (IF j = k THEN i + 1 ELSE i)
      BY <2>3
    <3>2. PICK b \in 1..Len(writes[j]) : writes'[j][l] = PutAt(j, b) /\ b = (IF j = k THEN l + 1 ELSE l)
      BY <2>3
    <3>3. a = b
      BY <2>5, <3>1, <3>2 DEF PutsAreWaitedFor
    <3>. QED BY <3>1, <3>2, <3>3
  <2>. QED BY <2>4, <2>5, WaitedFor
<1>4. ASSUME NEW k \in Keys, Crash(k) PROVE PutsAreWaitedFor'
  <2>1. /\ UNCHANGED passed /\ writes' = [writes EXCEPT ![k] = <<>>]
        /\ \A b \in Requests : Key(b) # k => pc'[b] = pc[b]
    BY <1>4 DEF Crash
  <2>2. \A j \in Keys : \A i \in 1..Len(writes'[j]) : j # k /\ writes'[j] = writes[j]
    BY <1>t, <2>1
  <2>3. ASSUME NEW j \in Keys, NEW i \in 1..Len(writes'[j])
        PROVE  /\ \E b \in Requests : writes'[j][i].id = b /\ pc'[b] = "waiting" /\ Key(b)' = j
               /\ ~writes'[j][i].allowed => Cardinality(writes'[j][i].hits) = Limit[j]
    <3>1. j # k /\ writes'[j] = writes[j]
      BY <2>2
    <3>2. PICK b \in Requests : PutAt(j, i).id = b /\ pc[b] = "waiting" /\ Key(b) = j
      BY <1>p, <3>1 DEF PutsAreWaitedFor
    <3>3. pc'[b] = "waiting" /\ Key(b)' = j
      BY <2>1, <3>1, <3>2 DEF Key
    <3>. QED BY <3>1, <3>2, <3>3 DEF PutsAreWaitedFor, PutAt
  <2>4. \A j \in Keys : \A i, l \in 1..Len(writes'[j]) : writes'[j][i].id = writes'[j][l].id => i = l
    BY <2>2 DEF PutsAreWaitedFor, PutAt
  <2>. QED BY <2>3, <2>4, WaitedFor
<1>5. ASSUME UNCHANGED <<pc, passed, writes>> PROVE PutsAreWaitedFor'
  BY <1>5 DEF PutsAreWaitedFor, PutAt, Key
<1>6. ASSUME NEW k \in Keys, Load(k) PROVE PutsAreWaitedFor'
  BY <1>5, <1>6 DEF Load
<1>7. CASE Tick
  BY <1>5, <1>7 DEF Tick, objects
<1>8. CASE UNCHANGED vars
  BY <1>5, <1>8 DEF vars, objects
<1>. QED BY <1>1, <1>2, <1>3, <1>4, <1>6, <1>7, <1>8 DEF Next

LEMMA HitsStep == IInv /\ StageTypes /\ PutsAreWaitedFor /\ HitsAreAdmitted /\ [Next]_vars => HitsAreAdmitted'
<1>. SUFFICES ASSUME IInv, StageTypes, PutsAreWaitedFor, HitsAreAdmitted, [Next]_vars PROVE HitsAreAdmitted'
  OBVIOUS
<1>t. /\ memory \in [Keys -> SUBSET Hits] /\ storage \in [Keys -> SUBSET Hits] /\ writes \in [Keys -> Seq(Decisions)]
      /\ Types
  BY DEF IInv, Types
<1>a. ASSUME NEW k \in Keys
      PROVE  /\ \A h \in memory[k] \cup storage[k] : Admitted(h.id)'
             /\ \A i \in 1..Len(writes[k]) : \A h \in PutAt(k, i).hits : Admitted(h.id)'
  BY <1>t, PutType, AllAdmittedStays DEF HitsAreAdmitted
<1>0. ASSUME \A k \in Keys : memory'[k] \subseteq memory[k] \cup storage[k] /\ storage'[k] \subseteq storage[k],
             \A k \in Keys : writes'[k] \in {writes[k], <<>>}
      PROVE  HitsAreAdmitted'
  <2>1. \A k \in Keys : \A i \in 1..Len(writes'[k]) : writes'[k] = writes[k]
    BY <1>0
  <2>. QED BY <1>0, <1>a, <2>1 DEF HitsAreAdmitted, AllAdmitted, PutAt
<1>1. ASSUME NEW q \in Requests, Decide(q) PROVE HitsAreAdmitted'
  <2>1. PICK k \in Keys, d \in Decisions :
          /\ pc[q] = "asking" /\ pc' = [pc EXCEPT ![q] = "waiting"] /\ d.id = q
          /\ d.hits \subseteq memory[k] \cup {[id |-> q, at |-> now]}
          /\ ~d.allowed => d.hits \subseteq memory[k]
          /\ memory' = [memory EXCEPT ![k] = d.hits] /\ UNCHANGED storage
          /\ writes'[k] = Append(writes[k], d) /\ \A j \in Keys \ {k} : writes'[j] = writes[j]
    BY <1>1, DecideAdds
  <2>b. ASSUME NEW j \in Keys, NEW i \in 1..Len(writes'[j])
        PROVE  writes'[j][i] = d \/ (i \in 1..Len(writes[j]) /\ writes'[j][i] = PutAt(j, i))
    <3>1. CASE j = k
      <4>1. writes[k] \in Seq(Decisions) /\ writes'[k] = Append(writes[k], d)
        BY <1>t, <2>1
      <4>2. i \in 1..Len(Append(writes[k], d))
        BY <3>1, <4>1
      <4>3. \/ i = Len(writes[k]) + 1 /\ Append(writes[k], d)[i] = d
            \/ i \in 1..Len(writes[k]) /\ Append(writes[k], d)[i] = writes[k][i]
        BY <4>1, <4>2, PutBehind
      <4>4. writes'[j][i] = Append(writes[k], d)[i] /\ writes[j] = writes[k]
        BY <3>1, <4>1
      <4>. QED BY <4>3, <4>4, <3>1 DEF PutAt
    <3>2. CASE j # k
      BY <2>1, <3>2 DEF PutAt
    <3>. QED BY <3>1, <3>2
  <2>2. ASSUME d.allowed PROVE Admitted(q)'
    <3>1. \A j \in Keys : \A i \in 1..Len(writes[j]) : PutAt(j, i).id # q
      BY <2>1 DEF PutsAreWaitedFor
    <3>2. ASSUME NEW j \in Keys, NEW i \in 1..Len(writes'[j]), writes'[j][i].id = q
          PROVE  writes'[j][i].allowed
      BY <2>2, <2>b, <3>1, <3>2
    <3>3. pc'[q] = "waiting"
      BY <2>1 DEF StageTypes
    <3>. QED BY <3>2, <3>3 DEF Admitted, PutAt
  <2>3. \A h \in d.hits : Admitted(h.id)'
    BY <1>a, <2>1, <2>2
  <2>4. ASSUME NEW j \in Keys PROVE \A h \in memory'[j] \cup storage'[j] : Admitted(h.id)'
    BY <1>a, <1>t, <2>1, <2>3
  <2>5. ASSUME NEW j \in Keys, NEW i \in 1..Len(writes'[j]) PROVE \A h \in writes'[j][i].hits : Admitted(h.id)'
    BY <1>a, <2>b, <2>3
  <2>. QED BY <2>4, <2>5 DEF HitsAreAdmitted, AllAdmitted, PutAt
<1>2. ASSUME NEW k \in Keys, Flush(k) PROVE HitsAreAdmitted'
  <2>1. PICK e \in Decisions :
          /\ 1 \in 1..Len(writes[k]) /\ e = PutAt(k, 1) /\ UNCHANGED memory
          /\ storage' = [storage EXCEPT ![k] = e.hits]
          /\ \A j \in Keys \ {k} : writes'[j] = writes[j]
          /\ \A i \in 1..Len(writes'[k]) : i + 1 \in 2..Len(writes[k]) /\ writes'[k][i] = PutAt(k, i + 1)
    BY <1>2, FlushEnds
  <2>2. ASSUME NEW j \in Keys PROVE \A h \in memory'[j] \cup storage'[j] : Admitted(h.id)'
    BY <1>a, <1>t, <2>1
  <2>3. ASSUME NEW j \in Keys, NEW i \in 1..Len(writes'[j]) PROVE \A h \in writes'[j][i].hits : Admitted(h.id)'
    <3>1. CASE j = k
      <4>1. i + 1 \in 2..Len(writes[k]) /\ writes'[k][i] = PutAt(k, i + 1)
        BY <2>1, <3>1
      <4>2. i + 1 \in 1..Len(writes[k])
        BY <4>1
      <4>. QED BY <1>a, <3>1, <4>1, <4>2
    <3>2. CASE j # k
      BY <1>a, <2>1, <3>2 DEF PutAt
    <3>. QED BY <3>1, <3>2
  <2>. QED BY <2>2, <2>3 DEF HitsAreAdmitted, AllAdmitted, PutAt
<1>3. ASSUME NEW k \in Keys, Load(k) \/ Crash(k) PROVE HitsAreAdmitted'
  BY <1>0, <1>3, <1>t DEF Load, Crash
<1>4. ASSUME UNCHANGED <<memory, storage, writes>> PROVE HitsAreAdmitted'
  BY <1>0, <1>4
<1>5. ASSUME NEW q \in Requests, Ask(q) PROVE HitsAreAdmitted'
  BY <1>4, <1>5 DEF Ask, objects
<1>6. CASE Tick
  BY <1>4, <1>6 DEF Tick, objects
<1>7. CASE UNCHANGED vars
  BY <1>4, <1>7 DEF vars, objects
<1>. QED BY <1>1, <1>2, <1>3, <1>5, <1>6, <1>7 DEF Next

LEMMA AdviceStep == IInv /\ RequestInv /\ [Next]_vars => AdviceIsGiven'
<1>. SUFFICES ASSUME IInv, RequestInv, [Next]_vars PROVE AdviceIsGiven'
  OBVIOUS
<1>t. /\ StageTypes /\ PutsAreWaitedFor /\ HitsAreAdmitted /\ AdviceIsGiven /\ Types
      /\ pc \in [Requests -> Stages]
  BY DEF RequestInv, StageTypes, IInv
<1>a. ASSUME NEW r \in Requests, advice[r] # NoAdvice PROVE IsAdvice(advice[r])' \/ advice'[r] # advice[r]
  <2>1. IsAdvice(advice[r])
    BY <1>a, <1>t DEF AdviceIsGiven
  <2>2. advice[r].hits \in SUBSET Hits /\ AllAdmitted(advice[r].hits)
    BY <2>1 DEF IsAdvice, IsWindow
  <2>3. \A h \in advice[r].hits : Admitted(h.id)'
    BY <1>t, <2>2, AllAdmittedStays
  <2>. QED BY <2>1, <2>3 DEF IsAdvice, AllAdmitted, IsWindow
<1>0. ASSUME UNCHANGED <<advice, deployed>>, \A r \in Requests : pc'[r] = "refused" /\ deployed => pc[r] = "refused"
      PROVE  AdviceIsGiven'
  BY <1>0, <1>a, <1>t DEF AdviceIsGiven
<1>1. ASSUME NEW k \in Keys, Flush(k) PROVE AdviceIsGiven'
  <2>1. PICK e \in Decisions :
          /\ 1 \in 1..Len(writes[k]) /\ e = PutAt(k, 1) /\ UNCHANGED deployed
          /\ IsWindow(e.hits, k, e.at) /\ (~e.allowed => Cardinality(e.hits) = Limit[k])
          /\ Granted(k, e) \/ Refused(k, e) \/ Lost(e)
    BY <1>1, <1>t, FlushEnds
  <2>2. CASE Granted(k, e) \/ Lost(e)
    <3>1. \E stage \in {"passed", "asking", "error"} : pc' = [pc EXCEPT ![e.id] = stage]
      BY <2>2 DEF Granted, Lost
    <3>2. UNCHANGED advice
      BY <2>2 DEF Granted, Lost
    <3>. QED BY <1>0, <1>t, <2>1, <3>1, <3>2
  <2>3. CASE Refused(k, e)
    <3>. DEFINE new == [hits |-> e.hits, key |-> k,
                        after |-> e.at + TicksPerSecond * RetryAfter(e.hits, e.at)]
    <3>1. advice' = [advice EXCEPT ![e.id] = new] /\ pc' = [pc EXCEPT ![e.id] = "refused"] /\ ~e.allowed
      BY <2>3 DEF Refused
    <3>2. e.id \in Requests /\ e.at \in Times /\ e.hits \in SUBSET Hits
      BY DEF Decisions
    <3>3. \A h \in e.hits : Admitted(h.id)'
      BY <1>t, <2>1, <3>2, AllAdmittedStays DEF HitsAreAdmitted
    <3>4. /\ \A h \in new.hits : Admitted(h.id)'
          /\ new = [hits |-> new.hits, key |-> k, after |-> e.at + TicksPerSecond * RetryAfter(new.hits, e.at)]
          /\ IsWindow(new.hits, k, e.at) /\ Cardinality(new.hits) = Limit[k]
      BY <2>1, <3>1, <3>3
    <3>5. new # NoAdvice
      <4>1. new.key = k /\ NoAdvice.key = "none"
        BY DEF NoAdvice
      <4>2. new.hits # {}
        BY <3>4, LimiterConstants, FS_EmptySet
      <4>. QED BY <4>2 DEF NoAdvice
    <3>. HIDE DEF new
    <3>6. ASSUME NEW r \in Requests PROVE advice'[r] = (IF r = e.id THEN new ELSE advice[r])
      BY <1>t, <3>1, <3>2 DEF AdviceIsGiven
    <3>7. ASSUME NEW r \in Requests PROVE pc'[r] = (IF r = e.id THEN "refused" ELSE pc[r])
      BY <1>t, <3>1, <3>2
    <3>8. advice' = [r \in Requests |-> advice'[r]]
      BY <1>t, <3>1 DEF AdviceIsGiven
    <3>9. ASSUME NEW r \in Requests, advice'[r] # NoAdvice PROVE IsAdvice(advice[r])'
      <4>1. CASE r = e.id
        <5>1. advice'[r] = new
          BY <3>6, <4>1
        <5>. QED BY <3>2, <3>4, <5>1 DEF IsAdvice, AllAdmitted, IsWindow
      <4>2. CASE r # e.id
        BY <1>a, <3>6, <3>9, <4>2
      <4>. QED BY <4>1, <4>2
    <3>10. ASSUME NEW r \in Requests, pc'[r] = "refused", deployed PROVE advice'[r] # NoAdvice
      BY <1>t, <3>5, <3>6, <3>7, <3>10 DEF AdviceIsGiven
    <3>. QED BY <2>1, <3>8, <3>9, <3>10 DEF AdviceIsGiven
  <2>. QED BY <2>1, <2>2, <2>3
<1>2. ASSUME NEW q \in Requests, Ask(q) \/ Decide(q) PROVE AdviceIsGiven'
  <2>1. UNCHANGED <<advice, deployed>>
    BY <1>2 DEF Ask, Decide
  <2>2. \E stage \in Stages : pc' = [pc EXCEPT ![q] = stage] /\ (deployed => stage # "refused")
    <3>1. CASE Ask(q) /\ deployed
      BY <3>1 DEF Ask, Stages
    <3>2. CASE Ask(q) /\ ~deployed
      BY <3>2 DEF Ask, Stages
    <3>3. CASE Decide(q)
      BY <3>3 DEF Decide, Stages
    <3>. QED BY <1>2, <3>1, <3>2, <3>3
  <2>. QED BY <1>0, <1>t, <2>1, <2>2
<1>3. ASSUME NEW k \in Keys, Crash(k) PROVE AdviceIsGiven'
  BY <1>0, <1>3 DEF Crash
<1>4. ASSUME NEW k \in Keys, Load(k) PROVE AdviceIsGiven'
  BY <1>0, <1>4 DEF Load
<1>5. CASE Tick
  BY <1>0, <1>5 DEF Tick
<1>6. CASE UNCHANGED vars
  BY <1>0, <1>6 DEF vars
<1>. QED BY <1>1, <1>2, <1>3, <1>4, <1>5, <1>6 DEF Next

LEMMA PassedStep == IInv /\ RequestInv /\ [Next]_vars => PassedIsGranted'
<1>. SUFFICES ASSUME IInv, RequestInv, [Next]_vars PROVE PassedIsGranted'
  OBVIOUS
<1>t. /\ StageTypes /\ PutsAreWaitedFor /\ PassedIsGranted /\ granted \in [Keys -> SUBSET Hits]
      /\ pc \in [Requests -> Stages] /\ passed \in [Requests -> Nat]
      /\ \A r \in Requests : Route[r] \in Seq(Keys) /\ passed[r] <= Len(Route[r])
  BY LimiterConstants DEF RequestInv, StageTypes, IInv, Types
<1>0. ASSUME UNCHANGED <<granted, passed>>,
             \A r \in Guests : pc'[r] = "passed" => pc[r] = "passed"
      PROVE  PassedIsGranted'
  BY <1>0, <1>t DEF PassedIsGranted
<1>1. ASSUME NEW k \in Keys, Flush(k) PROVE PassedIsGranted'
  <2>1. PICK e \in Decisions :
          /\ Key(e.id) = k /\ passed[e.id] < Len(Route[e.id])
          /\ Granted(k, e) \/ Refused(k, e) \/ Lost(e)
    BY <1>1, <1>t, FlushEnds
  <2>2. e.id \in Requests
    BY DEF Decisions
  <2>3. CASE Refused(k, e) \/ Lost(e)
    <3>1. \E stage \in {"refused", "error"} : pc' = [pc EXCEPT ![e.id] = stage]
      BY <2>3 DEF Refused, Lost
    <3>2. UNCHANGED <<granted, passed>>
      BY <2>3 DEF Refused, Lost
    <3>. QED BY <1>0, <1>t, <3>1, <3>2, LimiterConstants
  <2>4. CASE Granted(k, e)
    <3>. DEFINE hit == [id |-> e.id, at |-> e.at]
    <3>1. /\ granted' = [granted EXCEPT ![k] = @ \cup {hit}] /\ hit.id = e.id
          /\ passed' = [passed EXCEPT ![e.id] = @ + 1]
          /\ \E stage \in {"passed", "asking"} :
               /\ pc' = [pc EXCEPT ![e.id] = stage]
               /\ stage = "passed" => passed[e.id] + 1 = Len(Route[e.id])
      BY <2>4 DEF Granted
    <3>. HIDE DEF hit
    <3>2. \A j \in Keys : granted[j] \subseteq granted'[j]
      BY <1>t, <3>1
    <3>3. hit \in granted'[k]
      BY <1>t, <3>1
    <3>4. ASSUME NEW r \in Requests, NEW i \in 1..passed'[r]
          PROVE  \E h \in granted'[Route[r][i]] : h.id = r
      <4>1. CASE i \in 1..passed[r]
        <5>1. Route[r][i] \in Keys
          BY <1>t, <4>1
        <5>. QED BY <1>t, <3>2, <4>1, <5>1 DEF PassedIsGranted
      <4>2. CASE i \notin 1..passed[r]
        <5>1. r = e.id /\ i = passed[r] + 1
          BY <1>t, <2>2, <3>1, <4>2
        <5>2. Route[r][i] = k
          BY <2>1, <5>1 DEF Key
        <5>. QED BY <3>1, <3>3, <5>1, <5>2
      <4>. QED BY <4>1, <4>2
    <3>5. ASSUME NEW r \in Requests, r \in Guests, pc'[r] = "passed" PROVE passed'[r] = Len(Route[r])
      BY <1>t, <2>2, <3>1, <3>5 DEF PassedIsGranted
    <3>. QED BY <3>4, <3>5 DEF PassedIsGranted
  <2>. QED BY <2>1, <2>3, <2>4
<1>2. ASSUME NEW q \in Requests, Ask(q) PROVE PassedIsGranted'
  <2>1. UNCHANGED <<granted, passed>>
    BY <1>2 DEF Ask, objects
  <2>2. \E stage \in Stages : pc' = [pc EXCEPT ![q] = stage] /\ (q \in Guests => stage # "passed")
    <3>1. CASE deployed
      BY <1>2, <3>1 DEF Ask, Stages
    <3>2. CASE ~deployed /\ q \in Guests
      BY <1>2, <3>2 DEF Ask, Stages
    <3>3. CASE ~deployed /\ q \notin Guests
      BY <1>2, <3>3 DEF Ask, Stages
    <3>. QED BY <3>1, <3>2, <3>3
  <2>. QED BY <1>0, <1>t, <2>1, <2>2, LimiterConstants
<1>3. ASSUME NEW q \in Requests, Decide(q) PROVE PassedIsGranted'
  <2>1. UNCHANGED <<granted, passed>> /\ pc' = [pc EXCEPT ![q] = "waiting"]
    BY <1>3 DEF Decide
  <2>. QED BY <1>0, <1>t, <2>1, LimiterConstants
<1>4. ASSUME NEW k \in Keys, Crash(k) PROVE PassedIsGranted'
  BY <1>0, <1>4, LimiterConstants DEF Crash
<1>5. ASSUME NEW k \in Keys, Load(k) PROVE PassedIsGranted'
  BY <1>0, <1>5 DEF Load
<1>6. CASE Tick
  BY <1>0, <1>6 DEF Tick
<1>7. CASE UNCHANGED vars
  BY <1>0, <1>7 DEF vars
<1>. QED BY <1>1, <1>2, <1>3, <1>4, <1>5, <1>6, <1>7 DEF Next

LEMMA RequestInit == Init => RequestInv
<1>. SUFFICES ASSUME Init PROVE RequestInv
  OBVIOUS
<1>1. \A k \in Keys : memory[k] = {} /\ storage[k] = {} /\ writes[k] = <<>> /\ 1..Len(writes[k]) = {}
  BY DEF Init
<1>2. \A r \in Requests : pc[r] = "idle" /\ passed[r] = 0 /\ advice[r] = NoAdvice /\ 1..passed[r] = {}
  BY DEF Init
<1>3. StageTypes
  BY <1>2, LimiterConstants DEF Init, StageTypes, Stages
<1>4. PutsAreWaitedFor /\ HitsAreAdmitted
  BY <1>1 DEF PutsAreWaitedFor, HitsAreAdmitted, AllAdmitted
<1>5. AdviceIsGiven
  BY <1>2 DEF Init, AdviceIsGiven
<1>6. PassedIsGranted
  BY <1>2 DEF PassedIsGranted
<1>. QED BY <1>3, <1>4, <1>5, <1>6 DEF RequestInv

LEMMA RequestStep == IInv /\ RequestInv /\ [Next]_vars => RequestInv'
BY StageStep, PutsStep, HitsStep, AdviceStep, PassedStep DEF RequestInv

\* A guest question reaches the agent only past both limits, whatever fails: one that got through has
\* an "allowed" of every object of its route (guest-limiter.ts 86-87, guest-agent.ts).
THEOREM GuestsPassEveryLimit == Spec => []FailsClosed
<1>1. RequestInv => FailsClosed
  BY LimiterConstants DEF RequestInv, PassedIsGranted, FailsClosed
<1>. QED BY <1>1, InitHolds, WindowsKept, RequestInit, RequestStep, PTL DEF Spec

-----------------------------------------------------------------------------
(* What a refusal says. *)

\* Rounding up: that many seconds are at least that many ticks.
LEMMA RoundedUp ==
    ASSUME NEW a \in Int, NEW b \in Nat \ {0}
    PROVE  a \div b \in Int /\ b * (a \div b) > a - b
OBVIOUS

\* The oldest of a window.
LEMMA Oldest ==
    ASSUME NEW S \in SUBSET Nat, S # {}
    PROVE  \E x \in S : \A y \in S : x <= y
<1>. DEFINE Less == OpToRel(<, Nat)
<1>1. PICK x \in S : \A y \in S : ~ (<<y, x>> \in Less)
  BY NatLessThanWellFounded, WFMin
<1>2. ASSUME NEW y \in S PROVE x <= y
  <2>1. ~(y < x)
    BY <1>1 DEF OpToRel
  <2>2. x \in Nat /\ y \in Nat
    OBVIOUS
  <2>. HIDE DEF Less
  <2>. QED BY <2>1, <2>2
<1>. QED BY <1>2

\* Once the advice has passed, one of the hits it was given over has left the window.
LEMMA AdviceIsEnough ==
    ASSUME NEW S, NEW k \in Keys, NEW t \in Times, IsWindow(S, k, t), Cardinality(S) = Limit[k],
           NEW n \in Nat, n >= t + TicksPerSecond * RetryAfter(S, t)
    PROVE  Cardinality(Recent(S, n)) < Limit[k]
<1>1. S \in SUBSET Hits /\ IsFiniteSet(S) /\ S # {}
  BY LimiterConstants, FS_EmptySet DEF IsWindow
<1>. DEFINE ats == {h.at : h \in S}
            oldest == CHOOSE x \in ats : \A h \in S : x <= h.at
            ticks == oldest + Period - t
            seconds == (ticks + TicksPerSecond - 1) \div TicksPerSecond
<1>2. ats \in SUBSET Nat /\ ats # {}
  BY <1>1 DEF Hits, Times
<1>3. PICK x \in ats : \A y \in ats : x <= y
  BY <1>2, Oldest
<1>4. oldest \in ats /\ \A h \in S : oldest <= h.at
  BY <1>3
<1>5. PICK h \in S : h.at = oldest
  BY <1>4
<1>6. oldest \in Nat /\ ticks \in Int /\ t \in Nat /\ Period \in Nat /\ TicksPerSecond \in Nat \ {0}
  <2>. HIDE DEF oldest, ats
  <2>1. oldest \in Nat
    BY <1>2, <1>4
  <2>2. t \in Nat
    BY LimiterConstants DEF Times
  <2>. QED BY <2>1, <2>2, LimiterConstants
<1>. HIDE DEF oldest
<1>7. seconds \in Int /\ TicksPerSecond * seconds > ticks - 1
  <2>1. ticks + TicksPerSecond - 1 \in Int
    BY <1>6
  <2>2. seconds \in Int /\ TicksPerSecond * seconds > (ticks + TicksPerSecond - 1) - TicksPerSecond
    BY <1>6, <2>1, RoundedUp
  <2>. HIDE DEF seconds
  <2>. QED BY <1>6, <2>2
<1>8. RetryAfter(S, t) = IF seconds < 1 THEN 1 ELSE seconds
  BY DEF RetryAfter, oldest
<1>. HIDE DEF seconds
<1>9. n >= t + ticks
  <2>1. CASE seconds < 1
    <3>1. n >= t + TicksPerSecond
      BY <1>6, <1>8, <2>1
    <3>2. TicksPerSecond * seconds <= 0
      BY <1>6, <1>7, <2>1
    <3>3. TicksPerSecond * seconds \in Int
      BY <1>6, <1>7
    <3>. HIDE DEF ticks
    <3>. QED BY <1>6, <1>7, <3>1, <3>2, <3>3
  <2>2. CASE ~(seconds < 1)
    <3>1. n >= t + TicksPerSecond * seconds
      BY <1>8, <2>2
    <3>3. TicksPerSecond * seconds \in Int
      BY <1>6, <1>7
    <3>. HIDE DEF ticks
    <3>. QED BY <1>6, <1>7, <3>1, <3>3
  <2>. QED BY <2>1, <2>2
<1>10. h.at <= n - Period
  BY <1>5, <1>6, <1>9
<1>11. Recent(S, n) \subseteq S /\ h \notin Recent(S, n)
  BY <1>5, <1>6, <1>10 DEF Recent
<1>12. Recent(S, n) \subseteq S \ {h} /\ IsFiniteSet(S \ {h}) /\ Cardinality(S \ {h}) = Cardinality(S) - 1
  BY <1>1, <1>11, FS_RemoveElement
<1>13. Cardinality(Recent(S, n)) <= Cardinality(S) - 1 /\ IsFiniteSet(Recent(S, n))
  BY <1>12, FS_Subset
<1>14. Cardinality(Recent(S, n)) \in Nat /\ Cardinality(S) \in Nat
  BY <1>1, <1>13, FS_CardinalityType
<1>. QED BY <1>13, <1>14

\* A refusal is never undeserved, and its advice is enough: it was given over a full window of
\* requests that were allowed, and once the advice has passed that window has room (guest-limiter.ts
\* 10-11, 40).
THEOREM RefusalsAreFair == Spec => []RefusalIsFair
<1>1. IInv /\ RequestInv => RefusalIsFair
  <2>. SUFFICES ASSUME IInv, RequestInv, NEW r \in Requests
                PROVE  /\ pc[r] = "refused" /\ deployed =>
                            /\ Cardinality(advice[r].hits) = Limit[advice[r].key]
                            /\ \A h \in advice[r].hits : pc[h.id] # "refused" \/ passed[h.id] > 0
                       /\ advice[r] # NoAdvice /\ now >= advice[r].after =>
                            Cardinality(Recent(advice[r].hits, now)) < Limit[advice[r].key]
    BY DEF RefusalIsFair
  <2>1. CASE advice[r] = NoAdvice
    BY <2>1 DEF RequestInv, AdviceIsGiven
  <2>2. CASE advice[r] # NoAdvice
    <3>1. AllAdmitted(advice[r].hits)
      BY <2>2 DEF RequestInv, AdviceIsGiven, IsAdvice
    <3>2. PICK k \in Keys, t \in Times :
            /\ advice[r] = [hits |-> advice[r].hits, key |-> k,
                            after |-> t + TicksPerSecond * RetryAfter(advice[r].hits, t)]
            /\ IsWindow(advice[r].hits, k, t) /\ Cardinality(advice[r].hits) = Limit[k]
      BY <2>2 DEF RequestInv, AdviceIsGiven, IsAdvice
    <3>3. advice[r].key = k /\ advice[r].after = t + TicksPerSecond * RetryAfter(advice[r].hits, t)
      BY <3>2
    <3>4. \A h \in advice[r].hits : pc[h.id] # "refused" \/ passed[h.id] > 0
      BY <3>1 DEF AllAdmitted, Admitted
    <3>5. now \in Nat
      BY DEF IInv, Types, Times
    <3>6. now >= advice[r].after => Cardinality(Recent(advice[r].hits, now)) < Limit[k]
      BY <3>2, <3>3, <3>5, AdviceIsEnough
    <3>. QED BY <3>2, <3>3, <3>4, <3>6
  <2>. QED BY <2>1, <2>2
<1>. QED BY <1>1, InitHolds, WindowsKept, RequestInit, RequestStep, PTL DEF Spec

-----------------------------------------------------------------------------
\* The state of the limiter has its type in every reachable state.
THEOREM LimiterTypeCorrect == Spec => []TypeOK
<1>. DEFINE Rest == deployed \in BOOLEAN /\ crashes \in 0..MaxCrashes
<1>1. Init => Rest
  BY LimiterConstants DEF Init
<1>2. Rest /\ [Next]_vars => Rest'
  BY LimiterConstants DEF Next, vars, Ask, Decide, Load, Flush, Crash, Tick
<1>3. IInv /\ RequestInv /\ Rest => TypeOK
  BY DEF IInv, Types, RequestInv, StageTypes, TypeOK
<1>. QED BY <1>1, <1>2, <1>3, InitHolds, WindowsKept, RequestInit, RequestStep, PTL DEF Spec

-----------------------------------------------------------------------------
(* The edge cache of guest pages. *)

Complete(content, upTo) ==
    \A w \in Writes \ late : bump[w] # 0 /\ bump[w] <= upTo => w \in content

VersionInv ==
    /\ cacheNow \in Nat
    /\ sequence \in Nat
    /\ bump \in [Writes -> Nat]
    /\ committed \in [Writes -> Nat]
    /\ \A w \in Writes : bump[w] <= sequence
    /\ \A w \in Writes \ late : bump[w] # 0 => committed[w] <= cacheNow

MemoInv ==
    /\ memo \in [Isolates -> {Absent} \cup [value : Nat, expires : Nat]]
    /\ \A i \in Isolates : memo[i] # Absent => memo[i].value <= sequence

VisitorInv ==
    /\ readerPc \in [Visitors -> ReaderStages]
    /\ version \in [Visitors -> Versions]
    /\ began \in [Visitors -> Nat]
    /\ page \in [Visitors -> SUBSET Writes]
    /\ \A v \in Visitors : readerPc[v] \in {"read", "match", "put"} => version[v] \in Nat
    /\ \A v \in Visitors : version[v] \in Nat => version[v] <= sequence
    /\ \A v \in Visitors : readerPc[v] = "put" => Complete(page[v], version[v])

CacheInv ==
    /\ cache \in [CacheKeys -> {Absent} \cup [content : SUBSET Writes, at : Nat]]
    /\ \A k \in CacheKeys : cache[k] # Absent => k[2] <= sequence

KeyInv == VersionInv /\ MemoInv /\ VisitorInv /\ CacheInv /\ KeyCoversContent

LEMMA CacheConstantTypes ==
    /\ IsolateOf \in [Visitors -> Isolates] /\ BuildOf \in [Isolates -> Builds]
    /\ MemoTicks \in Nat /\ CacheMaxTime \in Nat /\ MaxVersion \in Nat
    /\ NoVersion \notin Nat
BY CacheConstants

LEMMA KeyInitHolds == ASSUME CacheInit PROVE KeyInv
BY CacheConstantTypes DEF CacheInit, KeyInv, VersionInv, MemoInv, VisitorInv, CacheInv, KeyCoversContent,
   Never, ReaderStages, Versions

LEMMA WriteKeeps ==
    ASSUME KeyInv, NEW w \in Writes, Write(w)
    PROVE  KeyInv'
<1>1. /\ sequence' = sequence + 1 /\ bump' = [bump EXCEPT ![w] = sequence + 1]
      /\ \/ committed' = [committed EXCEPT ![w] = cacheNow] /\ late' = late
         \/ committed' = committed /\ late' = late \cup {w}
      /\ UNCHANGED <<cacheNow, memo, cache, locals>>
  BY DEF Write
<1>2. VersionInv'
  BY <1>1 DEF KeyInv, VersionInv
<1>3. MemoInv'
  <2>1. memo' = memo /\ sequence \in Nat /\ sequence' = sequence + 1
    BY <1>1 DEF KeyInv, VersionInv
  <2>2. \A i \in Isolates : memo[i] # Absent => memo[i].value \in Nat
    BY DEF KeyInv, MemoInv
  <2> QED BY <2>1, <2>2 DEF KeyInv, MemoInv
<1>4. \A content, u : u \in Nat /\ u <= sequence /\ Complete(content, u) => Complete(content, u)'
  BY <1>1 DEF KeyInv, VersionInv, Complete
<1>5. VisitorInv'
  <2>1. UNCHANGED <<readerPc, version, began, page>> /\ sequence \in Nat /\ sequence' = sequence + 1
    BY <1>1 DEF locals, KeyInv, VersionInv
  <2>2. ASSUME NEW v \in Visitors, readerPc[v] = "put" PROVE Complete(page[v], version[v])'
    BY <1>4, <2>1, <2>2 DEF KeyInv, VisitorInv, Complete
  <2> QED BY <2>1, <2>2 DEF KeyInv, VisitorInv
<1>6. CacheInv'
  <2>1. cache' = cache /\ sequence \in Nat /\ sequence' = sequence + 1
    BY <1>1 DEF KeyInv, VersionInv
  <2>2. \A k \in CacheKeys : k[2] \in Nat
    BY CacheConstantTypes DEF CacheKeys
  <2> QED BY <2>1, <2>2 DEF KeyInv, CacheInv
<1>7. KeyCoversContent'
  <2> SUFFICES ASSUME NEW k \in CacheKeys, cache[k] # Absent
               PROVE  Complete(cache[k].content, k[2])'
    BY <1>1 DEF KeyCoversContent, Complete
  <2>1. k[2] \in Nat /\ k[2] <= sequence
    BY CacheConstantTypes DEF CacheKeys, KeyInv, CacheInv
  <2>2. Complete(cache[k].content, k[2])
    BY DEF KeyInv, KeyCoversContent, Complete
  <2> QED BY <1>1, <1>4, <2>1, <2>2 DEF Complete
<1> QED BY <1>2, <1>3, <1>5, <1>6, <1>7 DEF KeyInv

\* A commit changes nothing the key is about: the write was committed when it advanced the sequence.
LEMMA CommitKeeps ==
    ASSUME KeyInv, NEW w \in Writes, Commit(w)
    PROVE  KeyInv'
<1>1. /\ committed' = [committed EXCEPT ![w] = cacheNow]
      /\ UNCHANGED <<cacheNow, sequence, bump, late, memo, cache, readerPc, began, version, page>>
  BY DEF Commit, locals
<1>2. VersionInv'
  BY <1>1 DEF KeyInv, VersionInv
<1> QED BY <1>1, <1>2 DEF KeyInv, MemoInv, VisitorInv, CacheInv, KeyCoversContent, Complete

\* What a step of a request must do to keep the invariant.
LEMMA RequestFrame ==
    ASSUME KeyInv, UNCHANGED <<cacheNow, database>>, MemoInv', VisitorInv', CacheInv', KeyCoversContent'
    PROVE  KeyInv'
BY DEF KeyInv, VersionInv, database

LEMMA FinishKeeps ==
    ASSUME KeyInv, NEW v \in Visitors, Finish(v), UNCHANGED <<cacheNow, database>>
    PROVE  VisitorInv'
<1>1. /\ readerPc' = [readerPc EXCEPT ![v] = "idle"] /\ began' = [began EXCEPT ![v] = 0]
      /\ version' = [version EXCEPT ![v] = NoVersion] /\ page' = [page EXCEPT ![v] = {}]
      /\ UNCHANGED <<sequence, bump, late>>
  BY DEF Finish, Goto, database
<1> QED BY <1>1, CacheConstantTypes DEF KeyInv, VisitorInv, ReaderStages, Versions, Complete

LEMMA ServeKeeps ==
    ASSUME KeyInv, NEW v \in Visitors, Serve(v)
    PROVE  KeyInv'
<1>1. IsolateOf[v] \in Isolates /\ Build(v) \in Builds /\ sequence \in Nat /\ cacheNow \in Nat
  BY CacheConstantTypes DEF Build, KeyInv, VersionInv
<1>2. CASE Begin(v)
  <2>1. /\ UNCHANGED <<cacheNow, sequence, bump, committed, late, memo, cache, page>>
        /\ began' = [began EXCEPT ![v] = cacheNow]
    BY <1>2 DEF Begin, database
  <2>2. CASE Memo(v) # Absent /\ Memo(v).expires > cacheNow
    <3>1. version' = [version EXCEPT ![v] = Memo(v).value] /\ readerPc' = [readerPc EXCEPT ![v] = "match"]
      BY <1>2, <2>2 DEF Begin, Goto
    <3>2. Memo(v).value \in Nat /\ Memo(v).value <= sequence
      BY <1>1, <2>2 DEF Memo, KeyInv, MemoInv
    <3>3. VisitorInv'
      BY <1>1, <2>1, <3>1, <3>2 DEF KeyInv, VisitorInv, ReaderStages, Versions, Complete
    <3> QED BY <2>1, <3>3 DEF KeyInv, VersionInv, MemoInv, CacheInv, KeyCoversContent
  <2>3. CASE ~(Memo(v) # Absent /\ Memo(v).expires > cacheNow)
    <3>1. version' = version /\ readerPc' = [readerPc EXCEPT ![v] = "asking"]
      BY <1>2, <2>3 DEF Begin, Goto
    <3>2. VisitorInv'
      BY <1>1, <2>1, <3>1 DEF KeyInv, VisitorInv, ReaderStages, Versions, Complete
    <3> QED BY <2>1, <3>2 DEF KeyInv, VersionInv, MemoInv, CacheInv, KeyCoversContent
  <2> QED BY <2>2, <2>3
<1>3. CASE ReadVersion(v)
  <2>1. /\ UNCHANGED <<cacheNow, sequence, bump, committed, late, memo, cache, began, page>>
        /\ version' = [version EXCEPT ![v] = sequence] /\ readerPc' = [readerPc EXCEPT ![v] = "read"]
    BY <1>3 DEF ReadVersion, Goto, database
  <2>2. VisitorInv'
    BY <1>1, <2>1 DEF KeyInv, VisitorInv, ReaderStages, Versions, Complete
  <2> QED BY <2>1, <2>2 DEF KeyInv, VersionInv, MemoInv, CacheInv, KeyCoversContent
<1>4. CASE Remember(v)
  <2>1. /\ UNCHANGED <<cacheNow, sequence, bump, committed, late, cache, began, version, page>>
        /\ readerPc[v] = "read" /\ readerPc' = [readerPc EXCEPT ![v] = "match"]
        /\ memo' = [memo EXCEPT ![IsolateOf[v]] =
                      [value |-> version[v], expires |-> began[v] + MemoTicks]]
    BY <1>4 DEF Remember, Goto, database
  <2>2. version[v] \in Nat /\ version[v] <= sequence /\ began[v] + MemoTicks \in Nat
    BY <2>1, CacheConstantTypes DEF KeyInv, VisitorInv
  <2>3. MemoInv'
    BY <1>1, <2>1, <2>2 DEF KeyInv, MemoInv
  <2>4. VisitorInv'
    BY <2>1, <2>2 DEF KeyInv, VisitorInv, ReaderStages, Complete
  <2> QED BY <2>1, <2>3, <2>4 DEF KeyInv, VersionInv, CacheInv, KeyCoversContent
<1>5. CASE ReadFails(v)
  <2>1. /\ UNCHANGED <<cacheNow, sequence, bump, committed, late, cache, began, version, page>>
        /\ readerPc' = [readerPc EXCEPT ![v] = "render"]
        /\ memo' = [memo EXCEPT ![IsolateOf[v]] = Absent]
    BY <1>5 DEF ReadFails, Goto, database
  <2>2. MemoInv'
    BY <1>1, <2>1 DEF KeyInv, MemoInv
  <2>3. VisitorInv'
    BY <2>1 DEF KeyInv, VisitorInv, ReaderStages, Complete
  <2> QED BY <2>1, <2>2, <2>3 DEF KeyInv, VersionInv, CacheInv, KeyCoversContent
<1>6. CASE Match(v)
  <2>1. UNCHANGED <<cacheNow, sequence, bump, committed, late, memo, cache, database>>
    BY <1>6 DEF Match, database
  <2>2. VisitorInv'
    <3>1. CASE Finish(v)
      BY <2>1, <3>1, FinishKeeps
    <3>2. CASE readerPc' = [readerPc EXCEPT ![v] = "render"] /\ UNCHANGED <<began, version, page>>
      BY <2>1, <3>2 DEF KeyInv, VisitorInv, ReaderStages, Complete
    <3> QED BY <1>6, <3>1, <3>2 DEF Match, Goto
  <2> QED BY <2>1, <2>2 DEF KeyInv, VersionInv, MemoInv, CacheInv, KeyCoversContent
<1>7. CASE Render(v)
  <2>1. UNCHANGED <<cacheNow, sequence, bump, committed, late, memo, cache, database>>
    BY <1>7 DEF Render, database
  <2>2. VisitorInv'
    <3>1. CASE Finish(v)
      BY <2>1, <3>1, FinishKeeps
    <3>2. CASE /\ version[v] # NoVersion /\ page' = [page EXCEPT ![v] = Committed]
               /\ readerPc' = [readerPc EXCEPT ![v] = "put"] /\ UNCHANGED <<began, version>>
      <4>1. \A w \in Writes \ late' : bump'[w] # 0 => w \in Committed
        BY <2>1 DEF Committed, KeyInv, VersionInv
      <4>2. Committed \in SUBSET Writes
        BY DEF Committed
      <4>3. version[v] \in Nat
        BY <3>2 DEF KeyInv, VisitorInv, Versions
      <4>4. \A x \in Visitors : readerPc'[x] = "put" => Complete(page[x], version[x])'
        <5> SUFFICES ASSUME NEW x \in Visitors, readerPc'[x] = "put"
                     PROVE  Complete(page[x], version[x])'
          OBVIOUS
        <5>1. CASE x = v
          <6>1. page'[v] = Committed
            BY <3>2 DEF KeyInv, VisitorInv
          <6> QED BY <4>1, <5>1, <6>1 DEF Complete
        <5>2. CASE x # v
          BY <2>1, <3>2, <5>2 DEF KeyInv, VisitorInv, Complete
        <5> QED BY <5>1, <5>2
      <4> QED BY <2>1, <3>2, <4>2, <4>3, <4>4 DEF KeyInv, VisitorInv, ReaderStages
    <3> QED BY <1>7, <3>1, <3>2 DEF Render, Goto
  <2> QED BY <2>1, <2>2 DEF KeyInv, VersionInv, MemoInv, CacheInv, KeyCoversContent
<1>8. CASE Put(v)
  <2>1. UNCHANGED <<cacheNow, sequence, bump, committed, late, memo, database>> /\ Finish(v) /\ readerPc[v] = "put"
    BY <1>8 DEF Put, database
  <2>2. VisitorInv'
    BY <2>1, FinishKeeps
  <2>3. CASE cache' = cache
    BY <2>1, <2>2, <2>3 DEF KeyInv, VersionInv, MemoInv, CacheInv, KeyCoversContent
  <2>4. CASE cache' = [cache EXCEPT ![CacheKey(v)] = Stored(v)]
    <3>1. CacheKey(v)[2] = version[v] /\ version[v] <= sequence /\ Complete(page[v], version[v])
      BY <2>1 DEF CacheKey, KeyInv, VisitorInv
    <3>2. Stored(v) \in [content : SUBSET Writes, at : Nat] /\ Stored(v).content = page[v]
      BY <1>1 DEF Stored, KeyInv, VisitorInv
    <3>3. \A k \in CacheKeys : cache'[k] = cache[k] \/ (k = CacheKey(v) /\ cache'[k] = Stored(v))
      BY <2>4 DEF KeyInv, CacheInv
    <3>4. CacheInv'
      BY <2>1, <2>4, <3>1, <3>2, <3>3 DEF KeyInv, CacheInv
    <3>5. KeyCoversContent'
      BY <2>1, <3>1, <3>2, <3>3 DEF KeyInv, KeyCoversContent, Complete
    <3> QED BY <2>1, <2>2, <3>4, <3>5 DEF KeyInv, VersionInv, MemoInv
  <2> QED BY <1>8, <2>3, <2>4 DEF Put
<1> QED BY <1>2, <1>3, <1>4, <1>5, <1>6, <1>7, <1>8 DEF Serve

LEMMA EvictKeeps ==
    ASSUME KeyInv, NEW k \in CacheKeys, Evict(k)
    PROVE  KeyInv'
<1>1. /\ cache' = [cache EXCEPT ![k] = Absent]
      /\ UNCHANGED <<cacheNow, sequence, bump, committed, late, memo, readerPc, began, version, page>>
  BY DEF Evict, database, locals
<1> QED BY <1>1 DEF KeyInv, VersionInv, MemoInv, VisitorInv, CacheInv, KeyCoversContent, Complete

LEMMA CacheTickKeeps ==
    ASSUME KeyInv, CacheTick
    PROVE  KeyInv'
<1>1. cacheNow' = cacheNow + 1 /\ UNCHANGED <<sequence, bump, committed, late, memo, cache, readerPc, began, version, page>>
  BY DEF CacheTick, database, locals
<1>2. VersionInv'
  BY <1>1 DEF KeyInv, VersionInv
<1> QED BY <1>1, <1>2 DEF KeyInv, MemoInv, VisitorInv, CacheInv, KeyCoversContent, Complete

LEMMA KeyStep == KeyInv /\ [CacheNext]_cacheVars => KeyInv'
<1> SUFFICES ASSUME KeyInv, [CacheNext]_cacheVars PROVE KeyInv'
  OBVIOUS
<1>1. CASE UNCHANGED cacheVars
  BY <1>1 DEF cacheVars, database, locals, KeyInv, VersionInv, MemoInv, VisitorInv, CacheInv,
     KeyCoversContent, Complete
<1> QED BY <1>1, WriteKeeps, CommitKeeps, ServeKeeps, EvictKeeps, CacheTickKeeps DEF CacheNext

\* A page stored under a public data version shows every write up to that version that committed
\* in the instant it advanced the sequence (guest-cache.ts 102-110, 132-181).
THEOREM VersionIsAKey == CacheSpec => []KeyCoversContent
<1>1. KeyInv => KeyCoversContent
  BY DEF KeyInv
<1> QED BY <1>1, KeyInitHolds, KeyStep, PTL DEF CacheSpec

-----------------------------------------------------------------------------
(* How old a page can be. Every version a visitor goes by, every page it is about to store and every
   page stored is of some time; these say which writes of before that time it covers. *)

OnTime ==
    /\ cacheNow \in CacheTimes /\ sequence <= MaxVersion
    /\ \A v \in Visitors :
         began[v] <= cacheNow /\ (readerPc[v] # "idle" => cacheNow <= began[v] + RequestTicks)
    /\ \A w \in Writes : bump[w] = 0 => committed[w] = Never /\ w \notin late

MemoIsFresh ==
    \A i \in Isolates : memo[i] # Absent =>
        /\ memo[i].expires <= cacheNow + MemoTicks
        /\ \A w \in Writes \ late :
             bump[w] # 0 /\ committed[w] + MemoTicks < memo[i].expires => bump[w] <= memo[i].value

VersionIsFresh ==
    \A v \in Visitors : version[v] \in Nat =>
        \A w \in Writes \ late : bump[w] # 0 =>
            /\ committed[w] + MemoTicks <= began[v] => bump[w] <= version[v]
            /\ readerPc[v] = "read" /\ committed[w] < began[v] => bump[w] <= version[v]

PageIsFresh ==
    \A v \in Visitors : readerPc[v] = "put" => \A w \in Writes : committed[w] < began[v] => w \in page[v]

StoredIsFresh ==
    \A k \in CacheKeys : cache[k] # Absent =>
        /\ cache[k].at <= cacheNow
        /\ \A w \in Writes : committed[w] + RequestTicks < cache[k].at => w \in cache[k].content

\* A request has no version before it has read one.
NoneYet == \A v \in Visitors : readerPc[v] \in {"idle", "asking"} => version[v] = NoVersion

Fresh == NoneYet /\ OnTime /\ MemoIsFresh /\ VersionIsFresh /\ PageIsFresh /\ StoredIsFresh

LEMMA TickTypes ==
    /\ MemoTicks \in Nat \ {0} /\ PageTicks \in Nat /\ RequestTicks \in Nat /\ CacheMaxTime \in Nat
    /\ NoVersion \notin Nat
    /\ Never \in Nat /\ CacheMaxTime < Never /\ MaxVersion \in Nat
BY CacheConstants DEF Never

\* The values the inequalities are about.
LEMMA Numbers ==
    ASSUME KeyInv
    PROVE  /\ cacheNow \in Nat /\ sequence \in Nat
           /\ \A w \in Writes : bump[w] \in Nat /\ committed[w] \in Nat /\ bump[w] <= sequence
           /\ \A v \in Visitors : began[v] \in Nat /\ (version[v] # NoVersion => version[v] \in Nat)
           /\ \A i \in Isolates : memo[i] # Absent =>
                memo[i].expires \in Nat /\ memo[i].value \in Nat
           /\ \A k \in CacheKeys : cache[k] # Absent => cache[k].at \in Nat
BY DEF KeyInv, VersionInv, VisitorInv, MemoInv, CacheInv, Versions

LEMMA FreshInit == CacheInit => Fresh
BY TickTypes DEF CacheInit, Fresh, NoneYet, OnTime, MemoIsFresh, VersionIsFresh, PageIsFresh, StoredIsFresh, CacheTimes

\* Writing and committing now touches nothing that is of an earlier time.
LEMMA FreshWrite ==
    ASSUME KeyInv, Fresh, NEW w \in Writes, Write(w) \/ Commit(w)
    PROVE  Fresh'
<1>t. /\ bump \in [Writes -> Nat] /\ committed \in [Writes -> Nat] /\ sequence \in Nat
  BY DEF KeyInv, VersionInv
<1>1. UNCHANGED <<cacheNow, memo, cache, readerPc, began, version, page>>
  BY DEF Write, Commit, locals
<1>2. \A u \in Writes : committed'[u] \in {committed[u], cacheNow}
  BY <1>t DEF Write, Commit
<1>3. \A u \in Writes \ late' :
        /\ u \in Writes \ late
        /\ (bump'[u] = bump[u] /\ committed'[u] = committed[u]) \/ committed'[u] = cacheNow
  BY <1>t DEF Write, Commit
<1>4. \A u \in Writes : bump'[u] = 0 => committed'[u] = Never /\ u \notin late'
  <2>1. CASE Write(w)
    BY <1>t, <2>1 DEF Write, Fresh, OnTime
  <2>2. CASE Commit(w)
    BY <1>t, <2>2 DEF Commit, Fresh, OnTime
  <2>. QED BY <2>1, <2>2
<1>5. OnTime'
  <2>1. sequence' <= MaxVersion
    BY CacheConstants, <1>t DEF Write, Commit, Fresh, OnTime
  <2>. QED BY <1>1, <1>4, <2>1 DEF Fresh, OnTime, Never, CacheTimes
<1>6. MemoIsFresh'
  <2>. SUFFICES ASSUME NEW i \in Isolates, memo[i] # Absent, NEW u \in Writes \ late',
                       bump'[u] # 0, committed'[u] + MemoTicks < memo[i].expires
                PROVE  bump'[u] <= memo[i].value
    BY <1>1 DEF MemoIsFresh, Fresh
  <2>1. memo[i].expires <= cacheNow + MemoTicks
    BY DEF MemoIsFresh, Fresh
  <2>2. committed'[u] # cacheNow
    BY <2>1, TickTypes, Numbers
  <2>. QED BY <1>3, <2>2 DEF MemoIsFresh, Fresh
<1>7. VersionIsFresh'
  <2>. SUFFICES ASSUME NEW v \in Visitors, version[v] \in Nat, NEW u \in Writes \ late', bump'[u] # 0
                PROVE  /\ committed'[u] + MemoTicks <= began[v] => bump'[u] <= version[v]
                       /\ readerPc[v] = "read" /\ committed'[u] < began[v] => bump'[u] <= version[v]
    BY <1>1 DEF VersionIsFresh
  <2>1. began[v] <= cacheNow
    BY DEF Fresh, OnTime
  <2>2. CASE committed'[u] = cacheNow
    BY <2>1, <2>2, TickTypes, Numbers
  <2>3. CASE bump'[u] = bump[u] /\ committed'[u] = committed[u]
    BY <1>3, <2>3 DEF VersionIsFresh, Fresh
  <2>. QED BY <1>3, <2>2, <2>3
<1>8. PageIsFresh'
  <2>. SUFFICES ASSUME NEW v \in Visitors, readerPc[v] = "put", NEW u \in Writes, committed'[u] < began[v]
                PROVE  u \in page[v]
    BY <1>1 DEF PageIsFresh
  <2>1. began[v] <= cacheNow
    BY DEF Fresh, OnTime
  <2>2. committed'[u] = committed[u]
    BY <1>2, <2>1, Numbers
  <2>. QED BY <2>2 DEF PageIsFresh, Fresh
<1>9. StoredIsFresh'
  <2>. SUFFICES ASSUME NEW k \in CacheKeys, cache[k] # Absent, NEW u \in Writes,
                       committed'[u] + RequestTicks < cache[k].at
                PROVE  u \in cache[k].content
    BY <1>1 DEF StoredIsFresh, Fresh
  <2>1. cache[k].at <= cacheNow
    BY DEF Fresh, StoredIsFresh
  <2>2. committed'[u] = committed[u]
    BY <1>2, <2>1, TickTypes, Numbers
  <2>. QED BY <2>2 DEF StoredIsFresh, Fresh
<1>10. NoneYet'
  BY <1>1 DEF Fresh, NoneYet
<1>. QED BY <1>5, <1>6, <1>7, <1>8, <1>9, <1>10 DEF Fresh

\* The parts that a step leaving the writes, the clock and a part of the state alone keeps.
Still == UNCHANGED <<cacheNow, sequence, bump, committed, late>>

LEMMA SameMemo == ASSUME Fresh, Still, UNCHANGED memo PROVE MemoIsFresh'
BY DEF Fresh, Still, MemoIsFresh

LEMMA SameCache == ASSUME Fresh, Still, UNCHANGED cache PROVE StoredIsFresh'
BY DEF Fresh, Still, StoredIsFresh

\* A request may go on under the version it has, but never back to having just read one, or end.
LEMMA SameVersion ==
    ASSUME Fresh, Still, NEW v \in Visitors,
           \A u \in Visitors : u # v =>
             readerPc'[u] = readerPc[u] /\ began'[u] = began[u] /\ version'[u] = version[u],
           \/ began'[v] = began[v] /\ version'[v] = version[v] /\ (readerPc'[v] = "read" => readerPc[v] = "read")
           \/ version'[v] = NoVersion
    PROVE  VersionIsFresh'
<1>1. ASSUME NEW u \in Visitors, version'[u] \in Nat
      PROVE  began'[u] = began[u] /\ version'[u] = version[u] /\ (readerPc'[u] = "read" => readerPc[u] = "read")
  BY <1>1, TickTypes
<1>. QED BY <1>1 DEF Fresh, Still, VersionIsFresh

LEMMA SamePages ==
    ASSUME Fresh, Still, NEW v \in Visitors,
           \A u \in Visitors : u # v => readerPc'[u] = readerPc[u] /\ began'[u] = began[u] /\ page'[u] = page[u],
           readerPc'[v] # "put"
    PROVE  PageIsFresh'
BY DEF Fresh, Still, PageIsFresh

\* A request's step keeps to its time: it begins now, goes on, or ends.
LEMMA StaysOnTime ==
    ASSUME KeyInv, Fresh, Still, NEW v \in Visitors,
           \A u \in Visitors : u # v => readerPc'[u] = readerPc[u] /\ began'[u] = began[u],
           \/ readerPc[v] # "idle" /\ began'[v] = began[v]
           \/ readerPc'[v] = "idle" /\ began'[v] = 0
           \/ began'[v] = cacheNow
    PROVE  OnTime'
<1>1. ASSUME NEW u \in Visitors
      PROVE  began'[u] <= cacheNow /\ (readerPc'[u] # "idle" => cacheNow <= began'[u] + RequestTicks)
  BY TickTypes, Numbers DEF Fresh, OnTime
<1>. QED BY <1>1 DEF Fresh, OnTime, Still, Never, CacheTimes

LEMMA FreshServe ==
    ASSUME KeyInv, Fresh, NEW v \in Visitors, Serve(v)
    PROVE  Fresh'
<1>t. /\ readerPc \in [Visitors -> ReaderStages] /\ began \in [Visitors -> Nat]
      /\ version \in [Visitors -> Versions] /\ page \in [Visitors -> SUBSET Writes]
      /\ memo \in [Isolates -> {Absent} \cup [value : Nat, expires : Nat]] /\ IsolateOf[v] \in Isolates
  BY CacheConstantTypes DEF KeyInv, VisitorInv, MemoInv
<1>f. ASSUME Finish(v)
      PROVE  /\ readerPc'[v] = "idle" /\ began'[v] = 0 /\ version'[v] = NoVersion
             /\ \A u \in Visitors : u # v => /\ readerPc'[u] = readerPc[u] /\ began'[u] = began[u]
                                             /\ version'[u] = version[u] /\ page'[u] = page[u]
  BY <1>f, <1>t DEF Finish, Goto
<1>s. Still
  BY DEF Serve, Begin, ReadVersion, Remember, ReadFails, Match, Render, Put, database, Still
<1>1. CASE Begin(v)
  <2>1. /\ readerPc'[v] \in {"match", "asking"} /\ began'[v] = cacheNow /\ UNCHANGED <<memo, cache>>
        /\ readerPc[v] = "idle"
        /\ \A u \in Visitors : u # v => /\ readerPc'[u] = readerPc[u] /\ began'[u] = began[u]
                                        /\ version'[u] = version[u] /\ page'[u] = page[u]
    BY <1>1, <1>t DEF Begin, Goto
  <2>2. VersionIsFresh'
    <3>. SUFFICES ASSUME NEW u \in Visitors, version'[u] \in Nat, NEW w \in Writes \ late, bump[w] # 0
                  PROVE  /\ committed[w] + MemoTicks <= began'[u] => bump[w] <= version'[u]
                         /\ readerPc'[u] = "read" /\ committed[w] < began'[u] => bump[w] <= version'[u]
      BY <1>s DEF VersionIsFresh, Still
    <3>1. CASE u # v
      BY <2>1, <3>1 DEF Fresh, VersionIsFresh
    <3>2. CASE u = v /\ Memo(v) # Absent /\ Memo(v).expires > cacheNow
      <4>1. version'[v] = Memo(v).value
        BY <1>1, <1>t, <3>2 DEF Begin
      <4>2. committed[w] + MemoTicks < Memo(v).expires => bump[w] <= Memo(v).value
        BY <1>t, <3>2 DEF Fresh, MemoIsFresh, Memo
      <4>3. Memo(v).expires \in Nat /\ committed[w] \in Nat /\ cacheNow \in Nat
        BY <1>t, <3>2, Numbers DEF Memo
      <4>. QED BY <2>1, <3>2, <4>1, <4>2, <4>3, TickTypes
    <3>3. CASE u = v /\ ~(Memo(v) # Absent /\ Memo(v).expires > cacheNow)
      <4>1. version'[v] = version[v] /\ readerPc'[v] = "asking"
        BY <1>1, <1>t, <3>3 DEF Begin, Goto
      <4>2. version[v] = NoVersion
        BY <2>1 DEF Fresh, NoneYet
      <4>. QED BY <3>3, <4>1, <4>2, TickTypes
    <3>. QED BY <3>1, <3>2, <3>3
  <2>3. NoneYet'
    <3>1. readerPc'[v] = "asking" => version'[v] = version[v]
      BY <1>1, <1>t DEF Begin, Goto
    <3>. QED BY <2>1, <3>1 DEF Fresh, NoneYet
  <2>4. OnTime'
    BY <1>s, <2>1, StaysOnTime
  <2>5. PageIsFresh'
    BY <1>s, <2>1, SamePages
  <2>. QED BY <1>s, <2>1, <2>2, <2>3, <2>4, <2>5, SameMemo, SameCache DEF Fresh
<1>2. CASE ReadVersion(v)
  <2>1. /\ readerPc[v] = "asking" /\ readerPc'[v] = "read" /\ version'[v] = sequence
        /\ UNCHANGED <<memo, cache, began, page>>
        /\ \A u \in Visitors : u # v => readerPc'[u] = readerPc[u] /\ version'[u] = version[u]
    BY <1>2, <1>t DEF ReadVersion, Goto
  <2>2. VersionIsFresh'
    <3>. SUFFICES ASSUME NEW u \in Visitors, version'[u] \in Nat, NEW w \in Writes \ late, bump[w] # 0
                  PROVE  /\ committed[w] + MemoTicks <= began[u] => bump[w] <= version'[u]
                         /\ readerPc'[u] = "read" /\ committed[w] < began[u] => bump[w] <= version'[u]
      BY <1>s, <2>1 DEF VersionIsFresh, Still
    <3>1. CASE u = v
      BY <2>1, <3>1, Numbers
    <3>2. CASE u # v
      BY <2>1, <3>2 DEF Fresh, VersionIsFresh
    <3>. QED BY <3>1, <3>2
  <2>3. NoneYet'
    BY <2>1 DEF Fresh, NoneYet
  <2>4. OnTime'
    BY <1>s, <2>1, StaysOnTime
  <2>5. PageIsFresh'
    BY <1>s, <2>1, SamePages
  <2>. QED BY <1>s, <2>1, <2>2, <2>3, <2>4, <2>5, SameMemo, SameCache DEF Fresh
<1>3. CASE Remember(v)
  <2>1. /\ readerPc[v] = "read" /\ readerPc'[v] = "match" /\ UNCHANGED <<cache, began, version, page>>
        /\ memo' = [memo EXCEPT ![IsolateOf[v]] = [value |-> version[v], expires |-> began[v] + MemoTicks]]
        /\ \A u \in Visitors : u # v => readerPc'[u] = readerPc[u]
    BY <1>3, <1>t DEF Remember, Goto
  <2>2. MemoIsFresh'
    <3>. SUFFICES ASSUME NEW i \in Isolates, memo'[i] # Absent
                  PROVE  /\ memo'[i].expires <= cacheNow + MemoTicks
                         /\ \A w \in Writes \ late :
                              bump[w] # 0 /\ committed[w] + MemoTicks < memo'[i].expires =>
                                bump[w] <= memo'[i].value
      BY <1>s DEF MemoIsFresh, Still
    <3>1. CASE i = IsolateOf[v]
      <4>1. memo'[i].value = version[v] /\ memo'[i].expires = began[v] + MemoTicks
        BY <1>t, <2>1, <3>1
      <4>2. version[v] \in Nat
        BY <2>1 DEF KeyInv, VisitorInv
      <4>3. \A w \in Writes \ late : bump[w] # 0 /\ committed[w] < began[v] => bump[w] <= version[v]
        BY <2>1, <4>2 DEF Fresh, VersionIsFresh
      <4>4. began[v] <= cacheNow
        BY DEF Fresh, OnTime
      <4>. QED BY <4>1, <4>3, <4>4, Numbers, TickTypes
    <3>2. CASE i # IsolateOf[v]
      BY <1>t, <2>1, <3>2 DEF Fresh, MemoIsFresh
    <3>. QED BY <3>1, <3>2
  <2>3. VersionIsFresh'
    BY <1>s, <2>1, SameVersion
  <2>4. NoneYet'
    BY <2>1 DEF Fresh, NoneYet
  <2>5. OnTime'
    BY <1>s, <2>1, StaysOnTime
  <2>6. PageIsFresh'
    BY <1>s, <2>1, SamePages
  <2>. QED BY <1>s, <2>1, <2>2, <2>3, <2>4, <2>5, <2>6, SameCache DEF Fresh
<1>4. CASE ReadFails(v)
  <2>1. /\ readerPc[v] = "asking" /\ readerPc'[v] = "render" /\ UNCHANGED <<cache, began, version, page>>
        /\ memo' = [memo EXCEPT ![IsolateOf[v]] = Absent]
        /\ \A u \in Visitors : u # v => readerPc'[u] = readerPc[u]
    BY <1>4, <1>t DEF ReadFails, Goto
  <2>2. MemoIsFresh'
    <3>1. \A i \in Isolates : memo'[i] # Absent => memo'[i] = memo[i]
      BY <1>t, <2>1
    <3>. QED BY <1>s, <3>1 DEF Fresh, MemoIsFresh, Still
  <2>3. VersionIsFresh'
    BY <1>s, <2>1, SameVersion
  <2>4. NoneYet'
    BY <2>1 DEF Fresh, NoneYet
  <2>5. OnTime'
    BY <1>s, <2>1, StaysOnTime
  <2>6. PageIsFresh'
    BY <1>s, <2>1, SamePages
  <2>. QED BY <1>s, <2>1, <2>2, <2>3, <2>4, <2>5, <2>6, SameCache DEF Fresh
<1>5. ASSUME Finish(v), UNCHANGED memo, StoredIsFresh' PROVE Fresh'
  <2>1. VersionIsFresh'
    BY <1>f, <1>s, <1>5, SameVersion
  <2>2. NoneYet'
    BY <1>f, <1>5 DEF Fresh, NoneYet
  <2>3. OnTime'
    BY <1>f, <1>s, <1>5, StaysOnTime
  <2>4. PageIsFresh'
    BY <1>f, <1>s, <1>5, SamePages
  <2>. QED BY <1>s, <1>5, <2>1, <2>2, <2>3, <2>4, SameMemo DEF Fresh
<1>6. CASE Match(v)
  <2>1. UNCHANGED <<memo, cache>> /\ readerPc[v] = "match"
    BY <1>6 DEF Match
  <2>2. CASE Finish(v)
    BY <1>s, <1>5, <2>1, <2>2, SameCache
  <2>3. CASE readerPc' = [readerPc EXCEPT ![v] = "render"] /\ UNCHANGED <<began, version, page>>
    <3>1. readerPc'[v] = "render" /\ \A u \in Visitors : u # v => readerPc'[u] = readerPc[u]
      BY <1>t, <2>3
    <3>2. VersionIsFresh'
      BY <1>s, <2>3, <3>1, SameVersion
    <3>3. NoneYet'
      BY <2>3, <3>1 DEF Fresh, NoneYet
    <3>4. OnTime'
      BY <1>s, <2>1, <2>3, <3>1, StaysOnTime
    <3>5. PageIsFresh'
      BY <1>s, <2>3, <3>1, SamePages
    <3>. QED BY <1>s, <2>1, <3>2, <3>3, <3>4, <3>5, SameMemo, SameCache DEF Fresh
  <2>. QED BY <1>6, <2>2, <2>3 DEF Match, Goto
<1>7. CASE Render(v)
  <2>1. UNCHANGED <<memo, cache>> /\ readerPc[v] = "render"
    BY <1>7 DEF Render
  <2>2. CASE Finish(v)
    BY <1>s, <1>5, <2>1, <2>2, SameCache
  <2>3. CASE /\ page' = [page EXCEPT ![v] = Committed]
             /\ readerPc' = [readerPc EXCEPT ![v] = "put"] /\ UNCHANGED <<began, version>>
    <3>1. /\ readerPc'[v] = "put" /\ page'[v] = Committed
          /\ \A u \in Visitors : u # v => readerPc'[u] = readerPc[u] /\ page'[u] = page[u]
      BY <1>t, <2>3
    <3>2. VersionIsFresh'
      BY <1>s, <2>3, <3>1, SameVersion
    <3>3. NoneYet'
      BY <2>3, <3>1 DEF Fresh, NoneYet
    <3>4. OnTime'
      BY <1>s, <2>1, <2>3, <3>1, StaysOnTime
    <3>5. PageIsFresh'
      <4>. SUFFICES ASSUME NEW u \in Visitors, readerPc'[u] = "put", NEW w \in Writes, committed[w] < began[u]
                    PROVE  w \in page'[u]
        BY <1>s, <2>3 DEF PageIsFresh, Still
      <4>1. CASE u = v
        <5>1. committed[w] <= cacheNow
          BY Numbers DEF Fresh, OnTime
        <5>. QED BY <3>1, <4>1, <5>1 DEF Committed
      <4>2. CASE u # v
        BY <3>1, <4>2 DEF Fresh, PageIsFresh
      <4>. QED BY <4>1, <4>2
    <3>. QED BY <1>s, <2>1, <3>2, <3>3, <3>4, <3>5, SameMemo, SameCache DEF Fresh
  <2>. QED BY <1>7, <2>2, <2>3 DEF Render, Goto
<1>8. CASE Put(v)
  <2>1. /\ Finish(v) /\ UNCHANGED memo /\ readerPc[v] = "put"
        /\ cache' = cache \/ cache' = [cache EXCEPT ![CacheKey(v)] = Stored(v)]
    BY <1>8 DEF Put
  <2>2. CASE cache' = cache
    BY <1>s, <1>5, <2>1, <2>2, SameCache
  <2>3. CASE cache' = [cache EXCEPT ![CacheKey(v)] = Stored(v)]
    <3>1. \A w \in Writes : committed[w] < began[v] => w \in page[v]
      BY <2>1 DEF Fresh, PageIsFresh
    <3>2. cacheNow <= began[v] + RequestTicks
      BY <2>1 DEF Fresh, OnTime
    <3>3. \A k \in CacheKeys : cache'[k] = cache[k] \/ cache'[k] = Stored(v)
      BY <2>3 DEF KeyInv, CacheInv
    <3>4. Stored(v).at = cacheNow /\ Stored(v).content = page[v]
      BY DEF Stored
    <3>5. \A w \in Writes : committed[w] + RequestTicks < Stored(v).at => w \in Stored(v).content
      BY <3>1, <3>2, <3>4, Numbers, TickTypes
    <3>6. Stored(v).at <= cacheNow
      BY <3>4, Numbers
    <3>7. StoredIsFresh'
      <4>. SUFFICES ASSUME NEW k \in CacheKeys, cache'[k] # Absent
                    PROVE  /\ cache'[k].at <= cacheNow
                           /\ \A w \in Writes : committed[w] + RequestTicks < cache'[k].at => w \in cache'[k].content
        BY <1>s DEF StoredIsFresh, Still
      <4>1. CASE cache'[k] = cache[k]
        BY <4>1 DEF Fresh, StoredIsFresh
      <4>2. CASE cache'[k] = Stored(v)
        BY <3>5, <3>6, <4>2
      <4>. QED BY <3>3, <4>1, <4>2
    <3>. QED BY <1>5, <2>1, <3>7
  <2>. QED BY <2>1, <2>2, <2>3
<1>. QED BY <1>1, <1>2, <1>3, <1>4, <1>6, <1>7, <1>8 DEF Serve

LEMMA FreshStep == KeyInv /\ Fresh /\ [CacheNext]_cacheVars => Fresh'
<1>. SUFFICES ASSUME KeyInv, Fresh, [CacheNext]_cacheVars PROVE Fresh'
  OBVIOUS
<1>1. ASSUME NEW k \in CacheKeys, Evict(k) PROVE Fresh'
  <2>1. Still /\ UNCHANGED <<memo, readerPc, began, version, page>>
    BY <1>1 DEF Evict, Still, database, locals
  <2>2. \A j \in CacheKeys : cache'[j] # Absent => cache'[j] = cache[j]
    BY <1>1 DEF Evict, KeyInv, CacheInv
  <2>3. StoredIsFresh'
    BY <2>1, <2>2 DEF Fresh, StoredIsFresh, Still
  <2>. QED BY <2>1, <2>3 DEF Fresh, Still, NoneYet, OnTime, MemoIsFresh, VersionIsFresh, PageIsFresh,
       Never, CacheTimes
<1>2. CASE CacheTick
  <2>1. /\ cacheNow < CacheMaxTime /\ cacheNow' = cacheNow + 1
        /\ \A v \in Visitors : readerPc[v] = "idle" \/ cacheNow < began[v] + RequestTicks
        /\ UNCHANGED <<sequence, bump, committed, late, memo, cache, readerPc, began, version, page>>
    BY <1>2 DEF CacheTick, database, locals
  <2>2. cacheNow \in Nat /\ cacheNow' \in Nat
    BY <2>1, Numbers
  <2>3. OnTime'
    <3>1. cacheNow' \in CacheTimes
      BY <2>1, <2>2, TickTypes DEF CacheTimes
    <3>2. \A v \in Visitors : began[v] <= cacheNow' /\ (readerPc[v] # "idle" => cacheNow' <= began[v] + RequestTicks)
      BY <2>1, <2>2, Numbers, TickTypes DEF Fresh, OnTime
    <3>. QED BY <2>1, <3>1, <3>2 DEF Fresh, OnTime, Never, CacheTimes
  <2>4. MemoIsFresh'
    <3>1. \A i \in Isolates : memo[i] # Absent => memo[i].expires <= cacheNow' + MemoTicks
      BY <2>1, <2>2, Numbers, TickTypes DEF Fresh, MemoIsFresh
    <3>. QED BY <2>1, <3>1 DEF Fresh, MemoIsFresh
  <2>5. StoredIsFresh'
    <3>1. \A k \in CacheKeys : cache[k] # Absent => cache[k].at <= cacheNow'
      BY <2>1, <2>2, Numbers DEF Fresh, StoredIsFresh
    <3>. QED BY <2>1, <3>1 DEF Fresh, StoredIsFresh
  <2>. QED BY <2>1, <2>3, <2>4, <2>5 DEF Fresh, NoneYet, VersionIsFresh, PageIsFresh
<1>3. CASE UNCHANGED cacheVars
  <2>1. UNCHANGED <<cacheNow, sequence, bump, committed, late, memo, cache, readerPc, began, version, page>>
    BY <1>3 DEF cacheVars, database, locals
  <2>. QED BY <2>1 DEF Fresh, NoneYet, OnTime, MemoIsFresh, VersionIsFresh, PageIsFresh, StoredIsFresh,
       Never, CacheTimes
<1>. QED BY <1>1, <1>2, <1>3, FreshWrite, FreshServe DEF CacheNext

\* A visitor that is served within its time, under a version that covers what committed before it
\* began, sees that. Its page covers as much as the stored one does.
LEMMA ShownIsFresh == KeyInv /\ Fresh /\ GuestSeesWrites /\ [CacheNext]_cacheVars => GuestSeesWrites'
<1>. SUFFICES ASSUME KeyInv, Fresh, GuestSeesWrites, [CacheNext]_cacheVars PROVE GuestSeesWrites'
  OBVIOUS
<1>. USE DEF GuestSeesWrites, PurgedWithTheMemo, GoneWithTheLifetime, FreshWithin
<1>1. CASE Quiet
  BY <1>1 DEF Quiet
<1>2. CASE UNCHANGED cacheVars
  BY <1>2 DEF cacheVars, database
<1>3. ASSUME NEW v \in Visitors, Match(v), Live(CacheKey(v)), Show(cache[CacheKey(v)].content)
      PROVE  GuestSeesWrites'
  <2>. DEFINE k == CacheKey(v)
  <2>1. readerPc[v] = "match" /\ version[v] \in Nat /\ version[v] <= sequence
    BY <1>3 DEF Match, KeyInv, VisitorInv
  <2>2. UNCHANGED <<committed, late>> /\ shown' = [content |-> cache[k].content, at |-> cacheNow]
    BY <1>3 DEF Match, database, Show
  <2>3. cache[k] # Absent /\ cache[k].at + PageTicks > cacheNow
    BY <1>3 DEF Live
  <2>4. k \in CacheKeys /\ k[2] = version[v]
    <3>1. version[v] \in 0..MaxVersion
      BY <2>1, Numbers, TickTypes DEF Fresh, OnTime
    <3>2. Build(v) \in Builds
      BY CacheConstantTypes DEF Build
    <3>. QED BY <3>1, <3>2 DEF CacheKey, CacheKeys
  <2>. HIDE DEF k
  <2>5. cacheNow <= began[v] + RequestTicks /\ cacheNow \in CacheTimes
    BY <2>1 DEF Fresh, OnTime
  <2>6. ASSUME NEW w \in Writes \ late, committed[w] + (MemoTicks + RequestTicks) <= cacheNow
        PROVE  w \in cache[k].content
    <3>1. committed[w] + MemoTicks <= began[v]
      BY <2>5, <2>6, Numbers, TickTypes
    <3>2. bump[w] # 0
      <4>1. committed[w] < Never
        BY <2>5, <2>6, Numbers, TickTypes DEF CacheTimes
      <4>. QED BY <4>1, TickTypes DEF Fresh, OnTime
    <3>3. bump[w] <= version[v]
      BY <2>1, <3>1, <3>2 DEF Fresh, VersionIsFresh
    <3>. QED BY <2>3, <2>4, <3>2, <3>3 DEF KeyInv, KeyCoversContent
  <2>7. ASSUME NEW w \in Writes, committed[w] + (PageTicks + 2 * RequestTicks) <= cacheNow
        PROVE  w \in cache[k].content
    <3>1. committed[w] + RequestTicks < cache[k].at
      BY <2>3, <2>4, <2>7, Numbers, TickTypes
    <3>. QED BY <2>3, <2>4, <3>1 DEF Fresh, StoredIsFresh
  <2>. QED BY <2>2, <2>6, <2>7
<1>4. ASSUME NEW v \in Visitors, Render(v) PROVE GuestSeesWrites'
  <2>1. UNCHANGED <<committed, late>> /\ shown' = [content |-> Committed, at |-> cacheNow]
    BY <1>4 DEF Render, database, Show
  <2>2. \A w \in Writes, n \in Nat : committed[w] + n <= cacheNow => w \in Committed
    BY Numbers DEF Committed
  <2>3. MemoTicks + RequestTicks \in Nat /\ PageTicks + 2 * RequestTicks \in Nat
    BY TickTypes
  <2>. QED BY <2>1, <2>2, <2>3
<1>5. ASSUME NEW v \in Visitors, Serve(v) PROVE GuestSeesWrites'
  BY <1>1, <1>3, <1>4, <1>5 DEF Serve, Begin, ReadVersion, Remember, ReadFails, Match, Put
<1>. QED BY <1>1, <1>2, <1>5 DEF CacheNext, Write, Commit, Evict, CacheTick

\* How old a page a guest can be shown: a write that commits as it advances the version is seen once
\* the remembered versions have run out, and any write once the stored pages have (guest-cache.ts
\* 9-12). Both bounds count the time a request may take.
THEOREM GuestsSeeWrites == CacheSpec => []GuestSeesWrites
<1>1. CacheInit => GuestSeesWrites
  BY DEF CacheInit, GuestSeesWrites, PurgedWithTheMemo, GoneWithTheLifetime, FreshWithin
<1>. QED BY <1>1, KeyInitHolds, KeyStep, FreshInit, FreshStep, ShownIsFresh, PTL DEF CacheSpec

\* Every variable has its type in every reachable state.
THEOREM CacheTypeCorrect == CacheSpec => []CacheTypeOK
<1>. DEFINE Rest == /\ committed \in [Writes -> 0..Never] /\ late \subseteq Writes
                    /\ shown \in {Absent} \cup Pages
<1>1. CacheInit => Rest
  BY TickTypes DEF CacheInit
<1>2. KeyInv /\ Fresh /\ Rest /\ [CacheNext]_cacheVars => Rest'
  <2>. SUFFICES ASSUME KeyInv, Fresh, Rest, [CacheNext]_cacheVars PROVE Rest'
    OBVIOUS
  <2>1. cacheNow \in CacheTimes /\ cacheNow \in 0..Never
    BY TickTypes DEF Fresh, OnTime, CacheTimes
  <2>2. committed' \in [Writes -> 0..Never] /\ late' \subseteq Writes
    BY <2>1 DEF CacheNext, cacheVars, database, Write, Commit, Serve, Begin, ReadVersion, Remember, ReadFails,
       Match, Render, Put, Evict, CacheTick
  <2>3. CASE Quiet
    BY <2>2, <2>3 DEF Quiet
  <2>4. CASE UNCHANGED cacheVars
    BY <2>2, <2>4 DEF cacheVars
  <2>5. ASSUME NEW content \in SUBSET Writes, Show(content) PROVE Rest'
    BY <2>1, <2>2, <2>5 DEF Show, Pages
  <2>6. ASSUME NEW v \in Visitors, Serve(v) PROVE Rest'
    <3>1. Committed \in SUBSET Writes
      BY DEF Committed
    <3>2. Live(CacheKey(v)) /\ readerPc[v] = "match" => cache[CacheKey(v)].content \in SUBSET Writes
      <4>. SUFFICES ASSUME Live(CacheKey(v)), readerPc[v] = "match" PROVE cache[CacheKey(v)].content \in SUBSET Writes
        OBVIOUS
      <4>1. version[v] \in 0..MaxVersion
        BY Numbers, TickTypes DEF Fresh, OnTime, KeyInv, VisitorInv
      <4>2. CacheKey(v) \in CacheKeys
        BY <4>1, CacheConstantTypes DEF CacheKey, CacheKeys, Build
      <4>. QED BY <4>2 DEF Live, KeyInv, CacheInv
    <3>. QED BY <2>3, <2>5, <2>6, <3>1, <3>2
         DEF Serve, Begin, ReadVersion, Remember, ReadFails, Match, Render, Put
  <2>. QED BY <2>3, <2>4, <2>6 DEF CacheNext, Write, Commit, Evict, CacheTick
<1>3. KeyInv /\ Fresh /\ Rest => CacheTypeOK
  <2>. SUFFICES ASSUME KeyInv, Fresh, Rest PROVE CacheTypeOK
    OBVIOUS
  <2>1. sequence \in 0..MaxVersion /\ cacheNow \in CacheTimes
    BY Numbers, TickTypes DEF Fresh, OnTime
  <2>2. cache \in [CacheKeys -> {Absent} \cup Pages]
    <3>1. \A k \in CacheKeys : cache[k] # Absent => cache[k] \in [content : SUBSET Writes, at : Nat]
      BY DEF KeyInv, CacheInv
    <3>2. \A k \in CacheKeys : cache[k] # Absent => cache[k].at \in CacheTimes
      BY <2>1, Numbers, TickTypes DEF Fresh, StoredIsFresh, CacheTimes
    <3>3. \A k \in CacheKeys : cache[k] \in {Absent} \cup Pages
      BY <3>1, <3>2 DEF Pages
    <3>. QED BY <3>3 DEF KeyInv, CacheInv
  <2>3. began \in [Visitors -> CacheTimes]
    <3>1. \A v \in Visitors : began[v] \in CacheTimes
      BY <2>1, Numbers, TickTypes DEF Fresh, OnTime, CacheTimes
    <3>. QED BY <3>1 DEF KeyInv, VisitorInv
  <2>4. \A v \in Visitors : readerPc[v] \in {"read", "match", "put"} => version[v] # NoVersion
    BY TickTypes DEF KeyInv, VisitorInv
  <2>. QED BY <2>1, <2>2, <2>3, <2>4 DEF CacheTypeOK, KeyInv, VersionInv, MemoInv, VisitorInv, Fresh, NoneYet
<1>. QED BY <1>1, <1>2, <1>3, KeyInitHolds, KeyStep, FreshInit, FreshStep, PTL DEF CacheSpec

=============================================================================
