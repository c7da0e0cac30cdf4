--------------------------- MODULE FirstRunProofs ---------------------------
(***************************************************************************)
(* The first run and the follow buttons keep their word for any tabs,      *)
(* accounts, roles, answers and number of clicks, saves, faults and        *)
(* sign-ins.                                                               *)
(*                                                                         *)
(* A button knows the row it wrote last because row ids are never used     *)
(* twice (IdsAreUnique): the id a button holds, or a request of it found,  *)
(* is of its own role or of no row at all (ButtonsHoldTheirOwn), so what   *)
(* others do to the row since shows in who wrote it (LastWriterAtWork).    *)
(* A save under way has stored what its place in the route says            *)
(* (SavesAreKept), and a follow leaves the list only by the user's hand.   *)
(* What a guest chose to save goes from the record to a URL and from there *)
(* to the payoff a timer saves (AskedAllAlong).                            *)
(***************************************************************************)
EXTENDS FirstRun, FiniteSetTheorems, SequenceTheorems, TLAPS

-----------------------------------------------------------------------------
(* Follows and follow buttons. *)

\* What a user followed, or dropped.
Kept(u) == Followed(u) \cup dropped[u]

IdsAreUnique ==
    /\ \A u \in Users, x \in Targets : items[u][x] <= rows
    /\ \A u, v \in Users, x, y \in Targets :
          items[u][x] # 0 /\ items[u][x] = items[v][y] => u = v /\ x = y

\* An id that is a row of the role, or of none any more.
OfRole(id, r) == id <= rows /\ \A u \in Users, x \in Targets : items[u][x] = id /\ id # 0 => x = r

HoldsItsOwn(b, t) ==
    /\ OfRole(b.item, b.role) /\ OfRole(b.found, b.role)
    /\ \A u \in Users, x \in Targets : writer[u][x] = t => x = b.role
    /\ b.following <=> b.item # 0
    /\ b.call \in {"delete", "unfollowed"} => b.following
    /\ b.call \in {"lookup", "write", "followed"} => ~b.following
    /\ b.call = "followed" => b.found # 0
    /\ b.call # "idle" => b.role # "none"
    /\ b.call \in {"write", "followed", "unfollowed"} => b.by \in Users /\ (b.other \/ b.by = b.user)

ButtonsHoldTheirOwn == \A t \in Tabs : HoldsItsOwn(button[t], t)

\* The tab that wrote a row last, while a request of it is under way.
Knows(b, t, u, r) ==
    writer[u][r] = t /\ b.role = r /\ b.user = u /\ ~b.other =>
        /\ b.call \in {"idle", "lookup", "delete", "write", "refused"} => b.item = items[u][r]
        /\ b.call = "write" => b.found = 0
        /\ b.call = "followed" => b.found = items[u][r]
        /\ b.call = "unfollowed" => items[u][r] = 0

LastWriterAtWork == faults = 0 => \A t \in Tabs, u \in Users, r \in Roles : Knows(button[t], t, u, r)

WatchInv == WatchTypeOK /\ IdsAreUnique /\ ButtonsHoldTheirOwn /\ LastWriterAtWork

-----------------------------------------------------------------------------
(* The first run. *)

\* What a save has done by its place in the route.
Settled(c) ==
    /\ c.user \in Users /\ prefs[c.user].completed
    /\ c.chosen \cup c.answers.companies \subseteq Kept(c.user)

SaveIsKept(c) ==
    /\ c.pc \in {"companies", "insert_companies", "roles", "insert_roles", "saved"}
          => c.user \in Users /\ prefs[c.user].completed
    /\ c.pc \in {"insert_companies", "insert_roles"} => c.seen \subseteq Kept(c.user)
    /\ c.pc \in {"roles", "insert_roles", "saved"} => c.answers.companies \subseteq Kept(c.user)
    /\ c.pc = "saved" => c.chosen \subseteq Kept(c.user)
    /\ c.auto => \E a \in asked : \A r \in c.roles : Fits(a, r)

SavesAreKept ==
    /\ \A i \in DOMAIN calls : SaveIsKept(calls[i])
    /\ \A t \in Tabs : tab[t].on /\ tab[t].saved # 0 => calls[tab[t].saved].pc = "done" /\ Settled(calls[tab[t].saved])

\* A URL that asks to save is of answers a guest chose to save.
UrlIsAsked(url) == url.save => url.ready /\ url.answers \in asked

PageIsAsked(p) ==
    p.on => /\ UrlIsAsked(p.url)
            /\ p.nav # None => UrlIsAsked(p.nav)
            /\ p.url.ready => p.payoff \subseteq Matching(p.url.answers)
            /\ p.auto = "armed" => p.url.save

AskedAllAlong ==
    /\ ShouldCarryOver => record.answers \in asked
    /\ \A t \in Tabs : PageIsAsked(tab[t])

IInv == TypeOK /\ WatchInv /\ SavesAreKept /\ AskedAllAlong

-----------------------------------------------------------------------------
(* What a statement does to the table. *)

LEMMA TargetsAreFinite == ASSUME NEW xs \in SUBSET Targets PROVE IsFiniteSet(xs)
BY WatchConstants, FS_Union, FS_Subset DEF Targets

\* Fresh ids: there are as many as there are rows to insert.
LEMMA FreshIds ==
    ASSUME NEW xs \in SUBSET Targets, NEW n \in Nat
    PROVE  /\ Cardinality(xs) \in Nat
           /\ \E f \in [xs -> (n + 1)..(n + Cardinality(xs))] : IsInjective(f)
<1>1. IsFiniteSet(xs) /\ Cardinality(xs) \in Nat
  BY TargetsAreFinite, FS_CardinalityType
<1> DEFINE ids == (n + 1)..(n + Cardinality(xs))
<1>2. IsFiniteSet(ids) /\ Cardinality(ids) = Cardinality(xs)
  <2>1. n + 1 \in Int /\ n + Cardinality(xs) \in Int
    BY <1>1
  <2>. QED BY <1>1, <2>1, FS_Interval
<1>3. ExistsBijection(xs, ids)
  BY <1>1, <1>2, FS_SameCardinalityBij
<1>4. \E f \in [xs -> ids] : IsInjective(f)
  BY <1>3 DEF ExistsBijection, Bijection, Injection
<1>. QED BY <1>1, <1>4

LEMMA InsertWorks ==
    ASSUME WatchTypeOK, IdsAreUnique, NEW u \in Users, NEW xs \in SUBSET Targets,
           CanInsert(u, xs), Insert(u, xs)
    PROVE  /\ items' \in [Users -> [Targets -> 0..MaxRows]]
           /\ rows' \in 0..MaxRows /\ rows <= rows'
           /\ \A x \in xs : items[u][x] = 0 /\ items'[u][x] > rows /\ items'[u][x] <= rows'
           /\ \A x \in Targets \ xs : items'[u][x] = items[u][x]
           /\ \A v \in Users \ {u} : items'[v] = items[v]
           /\ IdsAreUnique'
<1> DEFINE n == Cardinality(xs)
           ids == (rows + 1)..(rows + n)
           id == CHOOSE f \in [xs -> ids] : IsInjective(f)
<1>1. /\ rows \in Nat /\ rows <= MaxRows /\ MaxRows \in Nat
      /\ items \in [Users -> [Targets -> 0..MaxRows]]
  BY WatchConstants DEF WatchTypeOK
<1>2. n \in Nat /\ id \in [xs -> ids] /\ IsInjective(id)
  <2>1. n \in Nat /\ \E f \in [xs -> ids] : IsInjective(f)
    BY <1>1, FreshIds
  <2>. QED BY <2>1
<1>3. rows' = rows + n /\ rows + n <= MaxRows
  BY DEF Insert
<1>4. items' = [items EXCEPT ![u] = [x \in Targets |-> IF x \in xs THEN id[x] ELSE items[u][x]]]
  BY <1>1 DEF Insert
<1>5. \A x \in xs : id[x] \in Nat /\ id[x] > rows /\ id[x] <= rows + n
  BY <1>1, <1>2
<1>6. \A x, y \in xs : id[x] = id[y] => x = y
  BY <1>2 DEF IsInjective
<1> HIDE DEF n, id
<1>7. /\ \A x \in Targets : items'[u][x] = IF x \in xs THEN id[x] ELSE items[u][x]
      /\ \A v \in Users \ {u} : items'[v] = items[v]
  BY <1>1, <1>4
<1>8. items' \in [Users -> [Targets -> 0..MaxRows]]
  <2>1. [x \in Targets |-> IF x \in xs THEN id[x] ELSE items[u][x]] \in [Targets -> 0..MaxRows]
    BY <1>1, <1>2, <1>3, <1>5
  <2>. QED BY <1>1, <1>4, <2>1
<1>9. \A x \in xs : items[u][x] = 0
  BY DEF CanInsert, Followed
<1>10. IdsAreUnique'
  <2>1. \A v \in Users, x \in Targets : items[v][x] \in Nat /\ items[v][x] <= rows
    BY <1>1 DEF IdsAreUnique
  <2>2. ASSUME NEW v \in Users, NEW x \in Targets PROVE items'[v][x] <= rows'
    <3>1. CASE v = u /\ x \in xs
      BY <1>3, <1>5, <1>7, <3>1
    <3>2. CASE ~(v = u /\ x \in xs)
      <4>1. items'[v][x] = items[v][x]
        BY <1>7, <3>2
      <4>. QED BY <1>1, <1>2, <1>3, <2>1, <4>1
    <3>. QED BY <3>1, <3>2
  <2>3. ASSUME NEW v \in Users, NEW w \in Users, NEW x \in Targets, NEW y \in Targets,
               items'[v][x] # 0, items'[v][x] = items'[w][y]
        PROVE  v = w /\ x = y
    <3>1. CASE v = u /\ x \in xs /\ w = u /\ y \in xs
      BY <1>6, <1>7, <2>3, <3>1
    <3>2. CASE ~(v = u /\ x \in xs) /\ ~(w = u /\ y \in xs)
      BY <1>7, <2>3, <3>2 DEF IdsAreUnique
    <3>3. CASE (v = u /\ x \in xs) /\ ~(w = u /\ y \in xs)
      <4>1. items'[v][x] > rows /\ items'[w][y] = items[w][y]
        BY <1>5, <1>7, <3>3
      <4>. QED BY <1>1, <2>1, <2>3, <4>1
    <3>4. CASE ~(v = u /\ x \in xs) /\ (w = u /\ y \in xs)
      <4>1. items'[w][y] > rows /\ items'[v][x] = items[v][x]
        BY <1>5, <1>7, <3>4
      <4>. QED BY <1>1, <2>1, <2>3, <4>1
    <3>. QED BY <3>1, <3>2, <3>3, <3>4
  <2>. QED BY <2>2, <2>3 DEF IdsAreUnique
<1>11. \A x \in xs : items'[u][x] > rows /\ items'[u][x] <= rows'
  BY <1>3, <1>5, <1>7
<1>12. rows' \in 0..MaxRows /\ rows <= rows'
  BY <1>1, <1>2, <1>3
<1>. QED BY <1>7, <1>8, <1>9, <1>10, <1>11, <1>12

-----------------------------------------------------------------------------
(* What a follow button's step does. *)

\* A step of one button, the table as it was.
LEMMA OneButton ==
    ASSUME WatchInv, NEW t \in Tabs, NEW b \in Buttons, button' = [button EXCEPT ![t] = b],
           UNCHANGED <<session, tableVars>>,
           faults' \in 0..MaxFaults, faults' = 0 => faults = 0,
           HoldsItsOwn(b, t),
           faults' = 0 => \A u \in Users, r \in Roles : Knows(b, t, u, r)
    PROVE  WatchInv'
<1>1. button \in [Tabs -> Buttons]
  BY DEF WatchInv, WatchTypeOK
<1>2. /\ button' \in [Tabs -> Buttons] /\ button'[t] = b
      /\ \A s \in Tabs \ {t} : button'[s] = button[s]
  BY <1>1
<1>3. UNCHANGED <<session, items, rows, dropped, writer>>
  BY DEF tableVars
<1>4. WatchTypeOK' /\ IdsAreUnique'
  BY <1>2, <1>3 DEF WatchInv, WatchTypeOK, IdsAreUnique
<1>5. ASSUME NEW s \in Tabs PROVE HoldsItsOwn(button[s], s)'
  <2>1. CASE s = t
    <3>1. button'[s] = b
      BY <1>2, <2>1
    <3>. QED BY <1>3, <2>1, <3>1 DEF HoldsItsOwn, OfRole
  <2>2. CASE s # t
    <3>1. button'[s] = button[s]
      BY <1>2, <2>2
    <3>2. HoldsItsOwn(button[s], s)
      BY DEF WatchInv, ButtonsHoldTheirOwn
    <3>. QED BY <1>3, <3>1, <3>2 DEF HoldsItsOwn, OfRole
  <2>. QED BY <2>1, <2>2
<1>6. ASSUME faults' = 0, NEW s \in Tabs, NEW u \in Users, NEW r \in Roles
      PROVE  Knows(button[s], s, u, r)'
  <2>1. CASE s = t
    <3>1. button'[s] = b
      BY <1>2, <2>1
    <3>. QED BY <1>3, <1>6, <2>1, <3>1 DEF Knows
  <2>2. CASE s # t
    <3>1. button'[s] = button[s]
      BY <1>2, <2>2
    <3>2. Knows(button[s], s, u, r)
      BY <1>6 DEF WatchInv, LastWriterAtWork
    <3>. QED BY <1>3, <3>1, <3>2 DEF Knows
  <2>. QED BY <2>1, <2>2
<1>. QED BY <1>4, <1>5, <1>6 DEF WatchInv, ButtonsHoldTheirOwn, LastWriterAtWork

LEMMA RenderedAndAsked ==
    ASSUME WatchInv, NEW t \in Tabs, (\E r \in Shown : OpenRole(t, r)) \/ ClickFollow(t) \/ SignedOutCall(t)
    PROVE  WatchInv'
<1> DEFINE b == button[t]
<1>1. /\ b \in Buttons /\ HoldsItsOwn(b, t)
      /\ faults = 0 => \A u \in Users, q \in Roles : Knows(b, t, u, q)
      /\ session \in Users \cup {Guest} /\ Guest \notin Users
      /\ rows \in 0..MaxRows /\ MaxRows \in Nat /\ Shown \subseteq Roles /\ Roles \subseteq Targets
      /\ items \in [Users -> [Targets -> 0..MaxRows]] /\ faults \in 0..MaxFaults
  <2>1. WatchTypeOK /\ ButtonsHoldTheirOwn /\ LastWriterAtWork
    BY DEF WatchInv
  <2>2. b \in Buttons
    BY <2>1 DEF WatchTypeOK
  <2>3. HoldsItsOwn(b, t) /\ (faults = 0 => \A u \in Users, q \in Roles : Knows(b, t, u, q))
    BY <2>1 DEF ButtonsHoldTheirOwn, LastWriterAtWork
  <2>. QED BY <2>1, <2>2, <2>3, WatchConstants, GuestIsNobody DEF WatchTypeOK, Targets
<1>2. CASE \E r \in Shown : OpenRole(t, r)
  <2>0. PICK r \in Shown : OpenRole(t, r)
    BY <1>2
  <2> DEFINE c == [NoButton EXCEPT !.role = r, !.user = session, !.following = Watching(session, r),
                                   !.item = RowOf(session, r)]
  <2>1. /\ c.role = r /\ c.user = session /\ c.following = Watching(session, r) /\ c.item = RowOf(session, r)
        /\ c.error = FALSE /\ c.call = "idle" /\ c.by = Guest /\ c.found = 0 /\ c.other = FALSE
        /\ RowOf(session, r) \in 0..MaxRows /\ Watching(session, r) \in BOOLEAN
    BY <1>1, <2>0 DEF NoButton, RowOf, Watching
  <2>2. c \in Buttons
    <3>1. NoButton \in Buttons
      <4>1. 0 \in 0..MaxRows
        BY <1>1, <2>0
      <4>. QED BY <4>1 DEF NoButton, Buttons
    <3>. QED BY <1>1, <2>0, <2>1, <3>1 DEF Buttons
  <2>3. /\ b.role = "none" /\ button' = [button EXCEPT ![t] = c]
        /\ UNCHANGED <<session, tableVars>> /\ faults' = faults
    BY <2>0 DEF OpenRole
  <2>4. \A u \in Users, x \in Targets : writer[u][x] # t
    BY <1>1, <2>0, <2>3, NoneIsNothing DEF HoldsItsOwn
  <2>5. OfRole(RowOf(session, r), r) /\ OfRole(0, r)
    BY <1>1, <2>0 DEF WatchInv, IdsAreUnique, OfRole, RowOf
  <2> HIDE DEF c
  <2>6. HoldsItsOwn(c, t)
    BY <1>1, <2>0, <2>1, <2>4, <2>5 DEF HoldsItsOwn, RowOf, Watching
  <2>7. \A u \in Users, q \in Roles : Knows(c, t, u, q)
    BY <1>1, <2>0, <2>4 DEF Knows
  <2>. QED BY <1>1, <2>0, <2>2, <2>3, <2>6, <2>7, OneButton
<1>3. CASE ClickFollow(t)
  <2> DEFINE w == IF b.following /\ b.item # 0 THEN "delete" ELSE "lookup"
             c == [b EXCEPT !.error = FALSE, !.call = w]
  <2>1. /\ b.role # "none" /\ b.call = "idle" /\ button' = [button EXCEPT ![t] = c]
        /\ UNCHANGED <<session, tableVars>> /\ faults' = faults
    BY <1>1, <1>3 DEF ClickFollow, Buttons
  <2>2. w \in {"delete", "lookup"}
    OBVIOUS
  <2>3. /\ c \in Buttons /\ c.call = w
        /\ c.role = b.role /\ c.user = b.user /\ c.following = b.following /\ c.item = b.item
        /\ c.by = b.by /\ c.found = b.found /\ c.other = b.other
    BY <1>1, <2>2 DEF Buttons
  <2>4. (w = "delete" => b.following) /\ (w = "lookup" => ~b.following)
    BY <1>1 DEF HoldsItsOwn, Buttons
  <2> HIDE DEF c, w
  <2>5. HoldsItsOwn(c, t)
    BY <1>1, <2>1, <2>2, <2>3, <2>4 DEF HoldsItsOwn
  <2>6. faults = 0 => \A u \in Users, q \in Roles : Knows(c, t, u, q)
    BY <1>1, <2>1, <2>2, <2>3 DEF Knows
  <2>. QED BY <1>1, <2>1, <2>3, <2>5, <2>6, OneButton
<1>4. CASE SignedOutCall(t)
  <2> DEFINE c == [b EXCEPT !.call = "refused"]
  <2>1. /\ b.call \in {"lookup", "delete"} /\ button' = [button EXCEPT ![t] = c]
        /\ UNCHANGED <<session, tableVars>> /\ faults' = faults
    BY <1>1, <1>4 DEF SignedOutCall, Buttons
  <2>3. /\ c \in Buttons /\ c.call = "refused"
        /\ c.role = b.role /\ c.user = b.user /\ c.following = b.following /\ c.item = b.item
        /\ c.by = b.by /\ c.found = b.found /\ c.other = b.other
    BY <1>1 DEF Buttons
  <2> HIDE DEF c
  <2>5. HoldsItsOwn(c, t)
    BY <1>1, <2>1, <2>3 DEF HoldsItsOwn
  <2>6. faults = 0 => \A u \in Users, q \in Roles : Knows(c, t, u, q)
    BY <1>1, <2>1, <2>3 DEF Knows
  <2>. QED BY <1>1, <2>1, <2>3, <2>5, <2>6, OneButton
<1>. QED BY <1>2, <1>3, <1>4

\* What every button's request is met with.
LEMMA AtWork ==
    ASSUME WatchInv, NEW t \in Tabs
    PROVE  /\ button[t] \in Buttons /\ HoldsItsOwn(button[t], t)
           /\ faults = 0 => \A u \in Users, q \in Roles : Knows(button[t], t, u, q)
           /\ session \in Users \cup {Guest} /\ Guest \notin Users
           /\ rows \in 0..MaxRows /\ MaxRows \in Nat /\ MaxFaults \in Nat /\ Roles \subseteq Targets
           /\ items \in [Users -> [Targets -> 0..MaxRows]] /\ faults \in 0..MaxFaults
           /\ writer \in [Users -> [Targets -> Tabs \cup {"none"}]]
           /\ dropped \in [Users -> SUBSET Targets]
<1>1. WatchTypeOK /\ ButtonsHoldTheirOwn /\ LastWriterAtWork
  BY DEF WatchInv
<1>2. button[t] \in Buttons
  BY <1>1 DEF WatchTypeOK
<1>3. HoldsItsOwn(button[t], t) /\ (faults = 0 => \A u \in Users, q \in Roles : Knows(button[t], t, u, q))
  BY <1>1 DEF ButtonsHoldTheirOwn, LastWriterAtWork
<1>. QED BY <1>1, <1>2, <1>3, WatchConstants, GuestIsNobody DEF WatchTypeOK, Targets

LEMMA LookedUp ==
    ASSUME WatchInv, NEW t \in Tabs, LookUp(t)
    PROVE  WatchInv'
<1> DEFINE b == button[t]
           c == [b EXCEPT !.found = items[session][b.role], !.by = session, !.call = "write",
                          !.other = @ \/ session # b.user]
<1>0. /\ b \in Buttons /\ HoldsItsOwn(b, t)
      /\ faults = 0 => \A u \in Users, q \in Roles : Knows(b, t, u, q)
      /\ b.other \in BOOLEAN /\ b.following \in BOOLEAN
  BY AtWork DEF Buttons
<1>1. /\ b.call = "lookup" /\ session \in Users
      /\ button' = [button EXCEPT ![t] = c] /\ UNCHANGED <<session, tableVars>> /\ faults' = faults
  BY AtWork DEF LookUp, Buttons
<1>2. b.role \in Roles /\ b.role # "none" /\ b.item = 0 /\ ~b.following
  BY <1>1, AtWork DEF HoldsItsOwn, Buttons
<1>3. items[session][b.role] \in 0..MaxRows
  BY <1>1, <1>2, AtWork
<1>4. /\ c \in Buttons /\ c.call = "write" /\ c.by = session /\ c.found = items[session][b.role]
      /\ c.role = b.role /\ c.user = b.user /\ c.following = b.following /\ c.item = b.item
      /\ c.other = (b.other \/ session # b.user)
  BY <1>1, <1>3, AtWork DEF Buttons
<1>5. OfRole(items[session][b.role], b.role)
  BY <1>1, <1>2, AtWork DEF OfRole, IdsAreUnique, WatchInv
<1> HIDE DEF c
<1>6. HoldsItsOwn(c, t)
  <2>1. OfRole(c.item, c.role) /\ OfRole(c.found, c.role)
    BY <1>0, <1>4, <1>5 DEF HoldsItsOwn
  <2>2. c.by \in Users /\ (c.other \/ c.by = c.user)
    BY <1>0, <1>1, <1>4
  <2>3. ~c.following /\ c.item = 0 /\ c.role # "none" /\ c.call = "write"
    BY <1>0, <1>2, <1>4
  <2>4. \A u \in Users, x \in Targets : writer[u][x] = t => x = c.role
    BY <1>0, <1>4 DEF HoldsItsOwn
  <2>5. c.call \notin {"delete", "unfollowed", "followed", "idle"}
    BY <2>3
  <2>6. c.following <=> c.item # 0
    BY <2>3
  <2>. QED BY ONLY <2>1, <2>2, <2>3, <2>4, <2>5, <2>6 DEF HoldsItsOwn
<1>7. ASSUME faults = 0, NEW u \in Users, NEW q \in Roles PROVE Knows(c, t, u, q)
  <2> SUFFICES ASSUME writer[u][q] = t, c.role = q, c.user = u, ~c.other
               PROVE  c.item = items[u][q] /\ c.found = 0
    BY <1>4 DEF Knows
  <2>1. b.role = q /\ b.user = u /\ ~b.other /\ session = u
    BY <1>4
  <2>2. b.item = items[u][q]
    BY <1>0, <1>1, <1>7, <2>1 DEF Knows
  <2>. QED BY <1>2, <1>4, <2>1, <2>2
<1>. QED BY <1>1, <1>4, <1>6, <1>7, AtWork, OneButton

LEMMA FailedOrReplied ==
    ASSUME WatchInv, NEW t \in Tabs, FollowFails(t) \/ FollowReply(t)
    PROVE  WatchInv'
<1> DEFINE b == button[t]
<1>0. /\ b \in Buttons /\ HoldsItsOwn(b, t)
      /\ faults = 0 => \A u \in Users, q \in Roles : Knows(b, t, u, q)
      /\ b.other \in BOOLEAN /\ b.following \in BOOLEAN
  BY AtWork DEF Buttons
<1>1. CASE FollowFails(t)
  <2> DEFINE c == [b EXCEPT !.call = "refused"]
  <2>1. /\ b.call \notin {"idle", "refused"} /\ faults < MaxFaults /\ faults' = faults + 1
        /\ button' = [button EXCEPT ![t] = c] /\ UNCHANGED <<session, tableVars>>
    BY <1>1, AtWork DEF FollowFails, Buttons
  <2>2. faults' \in 0..MaxFaults /\ faults' # 0
    BY <2>1, AtWork
  <2>3. /\ c \in Buttons /\ c.call = "refused"
        /\ c.role = b.role /\ c.user = b.user /\ c.following = b.following /\ c.item = b.item
        /\ c.by = b.by /\ c.found = b.found /\ c.other = b.other
    BY AtWork DEF Buttons
  <2> HIDE DEF c
  <2>4. HoldsItsOwn(c, t)
    BY <2>1, <2>3, AtWork DEF HoldsItsOwn
  <2>. QED BY <2>1, <2>2, <2>3, <2>4, OneButton
<1>2. CASE FollowReply(t)
  <2> DEFINE was == [b EXCEPT !.call = "idle", !.found = 0, !.by = Guest]
             c == IF b.call = "refused" THEN [was EXCEPT !.error = TRUE]
                  ELSE IF b.following THEN [was EXCEPT !.following = FALSE, !.item = 0]
                  ELSE [was EXCEPT !.following = TRUE, !.item = b.found]
  <2>1. /\ b.call \in {"followed", "unfollowed", "refused"} /\ button' = [button EXCEPT ![t] = c]
        /\ UNCHANGED <<session, tableVars>> /\ faults' = faults
    BY <1>2 DEF FollowReply
  <2>2. /\ was \in Buttons /\ was.call = "idle" /\ was.found = 0 /\ was.following = b.following
        /\ was.role = b.role /\ was.user = b.user /\ was.item = b.item /\ was.other = b.other
    <3>1. 0 \in 0..MaxRows
      BY AtWork
    <3>. QED BY <3>1, AtWork DEF Buttons
  <2> HIDE DEF was
  <2>3. /\ c \in Buttons /\ c.call = "idle" /\ c.found = 0
        /\ c.role = b.role /\ c.user = b.user /\ c.other = b.other
        /\ b.call = "refused" => c.following = b.following /\ c.item = b.item
        /\ b.call = "unfollowed" => c.following = FALSE /\ c.item = 0
        /\ b.call = "followed" => c.following = TRUE /\ c.item = b.found
    <3>1. CASE b.call = "refused"
      BY <2>2, <3>1 DEF Buttons
    <3>2. CASE b.call = "unfollowed"
      <4>1. b.following /\ 0 \in 0..MaxRows
        BY <3>2, AtWork DEF HoldsItsOwn
      <4>. QED BY <2>2, <3>2, <4>1 DEF Buttons
    <3>3. CASE b.call = "followed"
      <4>1. ~b.following /\ b.found \in 0..MaxRows
        BY <3>3, AtWork DEF HoldsItsOwn, Buttons
      <4>. QED BY <2>2, <3>3, <4>1 DEF Buttons
    <3>. QED BY <2>1, <3>1, <3>2, <3>3
  <2> HIDE DEF c
  <2>4. OfRole(0, b.role)
    BY AtWork DEF OfRole
  <2>5. HoldsItsOwn(c, t)
    BY <1>0, <2>1, <2>3, <2>4 DEF HoldsItsOwn
  <2>6. faults = 0 => \A u \in Users, q \in Roles : Knows(c, t, u, q)
    BY <1>0, <2>1, <2>3 DEF Knows
  <2>. QED BY <2>1, <2>3, <2>5, <2>6, AtWork, OneButton
<1>. QED BY <1>1, <1>2

\* What is still so of a button when others write to the table.
LEMMA OtherButtons ==
    ASSUME WatchInv, IdsAreUnique', rows' \in Nat, rows <= rows', faults' = 0 => faults = 0,
           NEW s \in Tabs, button'[s] = button[s],
           \A u \in Users, x \in Targets : writer'[u][x] = s => writer[u][x] = s,
           \A u \in Users, x \in Targets :
              items'[u][x] = items[u][x]
              \/ ((items'[u][x] = 0 \/ items'[u][x] > rows) /\ writer'[u][x] # s)
    PROVE  /\ HoldsItsOwn(button[s], s)'
           /\ faults' = 0 => \A u \in Users, r \in Roles : Knows(button[s], s, u, r)'
<1>1. ASSUME NEW id \in 0..MaxRows, NEW r, OfRole(id, r) PROVE OfRole(id, r)'
  <2>1. id \in Nat /\ rows \in Nat /\ id <= rows
    BY <1>1, AtWork DEF OfRole
  <2>2. ASSUME NEW u \in Users, NEW x \in Targets, items'[u][x] = id, id # 0 PROVE x = r
    BY <1>1, <2>1, <2>2 DEF OfRole
  <2>. QED BY <2>1, <2>2 DEF OfRole
<1>2. HoldsItsOwn(button[s], s)'
  <2>1. button[s].item \in 0..MaxRows /\ button[s].found \in 0..MaxRows
    BY AtWork DEF Buttons
  <2>2. OfRole(button[s].item, button[s].role)' /\ OfRole(button[s].found, button[s].role)'
    <3>1. OfRole(button[s].item, button[s].role) /\ OfRole(button[s].found, button[s].role)
      BY AtWork DEF HoldsItsOwn
    <3>2. rows \in Nat /\ MaxRows \in Nat /\ rows <= MaxRows
      BY AtWork
    <3>. QED BY <2>1, <3>1, <3>2 DEF OfRole
  <2>. QED BY <2>2, AtWork DEF HoldsItsOwn
<1>3. ASSUME faults' = 0, NEW u \in Users, NEW r \in Roles PROVE Knows(button[s], s, u, r)'
  <2>1. Knows(button[s], s, u, r) /\ r \in Targets
    BY <1>3, AtWork
  <2>. QED BY <2>1 DEF Knows
<1>. QED BY <1>2, <1>3

\* A step of one button that writes to the table.
LEMMA ButtonAndTable ==
    ASSUME WatchInv, NEW t \in Tabs, NEW b \in Buttons, button' = [button EXCEPT ![t] = b],
           session' = session, WatchTypeOK', IdsAreUnique', rows <= rows', faults' = faults,
           HoldsItsOwn(button[t], t)', faults = 0 => \A u \in Users, r \in Roles : Knows(button[t], t, u, r)',
           \A u \in Users, x \in Targets : writer'[u][x] = writer[u][x] \/ writer'[u][x] = t,
           \A u \in Users, x \in Targets :
              items'[u][x] = items[u][x]
              \/ ((items'[u][x] = 0 \/ items'[u][x] > rows) /\ writer'[u][x] = t)
    PROVE  WatchInv'
<1>1. rows' \in Nat /\ button \in [Tabs -> Buttons]
  BY WatchConstants DEF WatchTypeOK, WatchInv
<1>2. button'[t] = b /\ \A s \in Tabs \ {t} : button'[s] = button[s]
  BY <1>1
<1>3. ASSUME NEW s \in Tabs
      PROVE  /\ HoldsItsOwn(button[s], s)'
             /\ faults' = 0 => \A u \in Users, r \in Roles : Knows(button[s], s, u, r)'
  <2>1. CASE s = t
    BY <2>1
  <2>2. CASE s # t
    <3>1. button'[s] = button[s]
      BY <1>2, <2>2
    <3>2. /\ \A u \in Users, x \in Targets : writer'[u][x] = s => writer[u][x] = s
          /\ \A u \in Users, x \in Targets :
                items'[u][x] = items[u][x]
                \/ ((items'[u][x] = 0 \/ items'[u][x] > rows) /\ writer'[u][x] # s)
      BY <2>2
    <3>. QED BY <1>1, <3>1, <3>2, OtherButtons
  <2>. QED BY <2>1, <2>2
<1>. QED BY <1>3 DEF WatchInv, ButtonsHoldTheirOwn, LastWriterAtWork

LEMMA Deleted ==
    ASSUME WatchInv, NEW t \in Tabs, DeleteRow(t)
    PROVE  WatchInv'
<1> DEFINE b == button[t]
           gone == {x \in Targets : items[session][x] = b.item}
           c == [b EXCEPT !.call = "unfollowed", !.by = session, !.other = @ \/ session # b.user]
<1>0. /\ b \in Buttons /\ HoldsItsOwn(b, t)
      /\ faults = 0 => \A u \in Users, q \in Roles : Knows(b, t, u, q)
      /\ b.other \in BOOLEAN /\ b.following \in BOOLEAN
  BY AtWork DEF Buttons
<1>1. /\ b.call = "delete" /\ session \in Users /\ button' = [button EXCEPT ![t] = c]
      /\ items' = [items EXCEPT ![session] = [x \in Targets |-> IF x \in gone THEN 0 ELSE items[session][x]]]
      /\ dropped' = [dropped EXCEPT ![session] = dropped[session] \cup gone]
      /\ writer' = [writer EXCEPT ![session] = [x \in Targets |-> IF x \in gone THEN t ELSE writer[session][x]]]
      /\ session' = session /\ rows' = rows /\ faults' = faults
  <2>1. session \in Users
    BY AtWork DEF DeleteRow
  <2>2. button[t].call = "delete" /\ UNCHANGED <<session, rows, faults>>
    BY DEF DeleteRow
  <2>3. button' = [button EXCEPT ![t] = c]
    BY DEF DeleteRow
  <2>4. items' = [items EXCEPT ![session] = [x \in Targets |-> IF x \in gone THEN 0 ELSE items[session][x]]]
    BY <2>1, AtWork DEF DeleteRow
  <2>5. dropped' = [dropped EXCEPT ![session] = dropped[session] \cup gone]
    BY <2>1, AtWork DEF DeleteRow
  <2>6. writer' = [writer EXCEPT ![session] = [x \in Targets |-> IF x \in gone THEN t ELSE writer[session][x]]]
    BY <2>1, AtWork DEF DeleteRow
  <2>. QED BY <2>1, <2>2, <2>3, <2>4, <2>5, <2>6
<1>2. b.following /\ b.item # 0 /\ b.role # "none" /\ gone \subseteq {b.role} /\ gone \subseteq Targets
  <2>1. b.following /\ b.item # 0 /\ b.role # "none" /\ OfRole(b.item, b.role)
    BY <1>0, <1>1 DEF HoldsItsOwn
  <2>. QED BY <1>1, <2>1 DEF OfRole
<1>3. /\ c \in Buttons /\ c.call = "unfollowed" /\ c.by = session /\ c.found = b.found
      /\ c.role = b.role /\ c.user = b.user /\ c.following = b.following /\ c.item = b.item
      /\ c.other = (b.other \/ session # b.user)
  BY <1>0, <1>1 DEF Buttons
<1>4. \A u \in Users, x \in Targets :
         /\ u = session /\ x \in gone => items'[u][x] = 0 /\ writer'[u][x] = t
         /\ ~(u = session /\ x \in gone) => items'[u][x] = items[u][x] /\ writer'[u][x] = writer[u][x]
  BY <1>1, AtWork
<1> HIDE DEF c, gone
<1>5. WatchTypeOK'
  <2>1. /\ [x \in Targets |-> IF x \in gone THEN 0 ELSE items[session][x]] \in [Targets -> 0..MaxRows]
        /\ [x \in Targets |-> IF x \in gone THEN t ELSE writer[session][x]] \in [Targets -> Tabs \cup {"none"}]
        /\ dropped[session] \cup gone \in SUBSET Targets
    <3>1. 0 \in 0..MaxRows
      BY AtWork
    <3>. QED BY <1>1, <1>2, <3>1, AtWork
  <2>2. items' \in [Users -> [Targets -> 0..MaxRows]]
    BY <1>1, <2>1, AtWork
  <2>3. writer' \in [Users -> [Targets -> Tabs \cup {"none"}]]
    BY <1>1, <2>1, AtWork
  <2>4. dropped' \in [Users -> SUBSET Targets]
    BY <1>1, <2>1, AtWork
  <2>5. button' \in [Tabs -> Buttons]
    BY <1>1, <1>3 DEF WatchInv, WatchTypeOK
  <2>. QED BY <1>1, <2>2, <2>3, <2>4, <2>5, AtWork DEF WatchTypeOK
<1>6. IdsAreUnique'
  <2>1. \A u \in Users, x \in Targets : items'[u][x] = items[u][x] \/ items'[u][x] = 0
    BY <1>4
  <2>2. rows \in Nat
    BY AtWork
  <2>. QED BY <1>1, <2>1, <2>2 DEF WatchInv, IdsAreUnique
<1>7. button'[t] = c
  BY <1>1, <1>3 DEF WatchInv, WatchTypeOK
<1>8. HoldsItsOwn(button[t], t)'
  <2>1. OfRole(b.item, b.role) /\ OfRole(b.found, b.role)
    BY <1>0 DEF HoldsItsOwn
  <2>2. \A u \in Users, x \in Targets : items'[u][x] = items[u][x] \/ items'[u][x] = 0
    BY <1>4
  <2>3. OfRole(button[t].item, button[t].role)' /\ OfRole(button[t].found, button[t].role)'
    BY <1>1, <1>3, <1>7, <2>1, <2>2 DEF OfRole
  <2>4. \A u \in Users, x \in Targets : writer'[u][x] = t => x = b.role
    BY <1>0, <1>2, <1>4 DEF HoldsItsOwn
  <2>5. c.by \in Users /\ (c.other \/ c.by = c.user)
    BY <1>0, <1>1, <1>3
  <2>6. c.call \notin {"lookup", "write", "followed", "idle"} /\ c.following /\ c.item # 0 /\ c.role # "none"
    BY <1>2, <1>3
  <2>7. \A u \in Users, x \in Targets : writer'[u][x] = t => x = c.role
    BY <1>3, <2>4
  <2>. QED BY ONLY <1>7, <2>3, <2>5, <2>6, <2>7 DEF HoldsItsOwn
<1>9. ASSUME NEW u \in Users, NEW r \in Roles PROVE (faults = 0 => Knows(button[t], t, u, r)')
  <2> SUFFICES ASSUME faults = 0, writer'[u][r] = t, c.role = r, c.user = u, ~c.other
               PROVE  items'[u][r] = 0
    BY <1>3, <1>7 DEF Knows
  <2>1. session = u /\ b.role = r /\ b.user = u /\ ~b.other /\ r \in Targets
    BY <1>3, AtWork
  <2>2. CASE r \in gone
    BY <1>4, <2>1, <2>2
  <2>3. CASE r \notin gone
    <3>1. writer[u][r] = t
      BY <1>4, <2>1, <2>3
    <3>2. b.item = items[u][r]
      BY <1>0, <1>1, <2>1, <3>1 DEF Knows
    <3>. QED BY <2>1, <2>3, <3>2 DEF gone
  <2>. QED BY <2>2, <2>3
<1>10. \A u \in Users, x \in Targets :
          items'[u][x] = items[u][x] \/ ((items'[u][x] = 0 \/ items'[u][x] > rows) /\ writer'[u][x] = t)
  BY <1>4
<1>11. \A u \in Users, x \in Targets : writer'[u][x] = writer[u][x] \/ writer'[u][x] = t
  BY <1>4
<1>12. rows <= rows'
  BY <1>1, AtWork
<1>13. faults = 0 => \A u \in Users, r \in Roles : Knows(button[t], t, u, r)'
  BY <1>9
<1>. QED BY <1>1, <1>3, <1>5, <1>6, <1>8, <1>10, <1>11, <1>12, <1>13, ButtonAndTable

LEMMA Wrote ==
    ASSUME WatchInv, NEW t \in Tabs, WriteRow(t)
    PROVE  WatchInv'
<1> DEFINE b == button[t]
<1>0. /\ b \in Buttons /\ HoldsItsOwn(b, t)
      /\ faults = 0 => \A u \in Users, q \in Roles : Knows(b, t, u, q)
      /\ b.other \in BOOLEAN /\ b.following \in BOOLEAN
  BY AtWork DEF Buttons
<1>1. /\ b.call = "write" /\ b.by \in Users /\ (b.other \/ b.by = b.user) /\ b.role # "none"
      /\ b.following = FALSE /\ b.role \in Roles /\ b.item = 0
      /\ UNCHANGED <<session, dropped, faults>>
  <2>1. b.call = "write" /\ UNCHANGED <<session, dropped, faults>>
    BY DEF WriteRow
  <2>2. b.role # "none" /\ b.by \in Users /\ (b.other \/ b.by = b.user) /\ b.following = FALSE /\ b.item = 0
    BY <1>0, <2>1 DEF HoldsItsOwn
  <2>3. b.role \in Roles
    BY <1>0, <2>2 DEF Buttons
  <2>. QED BY <2>1, <2>2, <2>3
<1>2. ASSUME NEW w \in {"followed", "refused"}, w = "followed" => b.found # 0,
             button' = [button EXCEPT ![t].call = w], UNCHANGED <<items, rows, writer>>
      PROVE  WatchInv'
  <2> DEFINE c == [b EXCEPT !.call = w]
  <2>1. button' = [button EXCEPT ![t] = c]
    BY <1>2
  <2>2. /\ c \in Buttons /\ c.call = w /\ c.by = b.by /\ c.found = b.found /\ c.role = b.role
        /\ c.user = b.user /\ c.following = b.following /\ c.item = b.item /\ c.other = b.other
    BY <1>0 DEF Buttons
  <2> HIDE DEF c
  <2>3. HoldsItsOwn(c, t)
    <3>1. w # "write" /\ w # "idle" /\ w # "lookup" /\ w # "delete" /\ w # "unfollowed"
      OBVIOUS
    <3>. QED BY <1>0, <1>1, <1>2, <2>2, <3>1 DEF HoldsItsOwn
  <2>4. ASSUME faults = 0, NEW u \in Users, NEW q \in Roles PROVE Knows(c, t, u, q)
    <3>1. Knows(b, t, u, q)
      BY <1>0, <2>4
    <3>2. CASE w = "refused"
      BY <1>1, <2>2, <3>1, <3>2 DEF Knows
    <3>3. CASE w = "followed"
      BY <1>1, <1>2, <2>2, <3>1, <3>3 DEF Knows
    <3>. QED BY <3>2, <3>3
  <2>5. UNCHANGED <<session, tableVars>> /\ faults' = faults
    BY <1>1, <1>2 DEF tableVars
  <2>. QED BY <2>1, <2>2, <2>3, <2>4, <2>5, AtWork, OneButton
<1>3. ASSUME b.found = 0, CanInsert(b.by, {b.role}), Insert(b.by, {b.role}),
             writer' = [writer EXCEPT ![b.by][b.role] = t],
             button' = [button EXCEPT ![t].found = items'[b.by][b.role], ![t].call = "followed"]
      PROVE  WatchInv'
  <2> DEFINE c == [b EXCEPT !.found = items'[b.by][b.role], !.call = "followed"]
  <2>1. b.role \in Targets /\ WatchTypeOK /\ IdsAreUnique
    BY <1>1, AtWork DEF WatchInv
  <2>2. /\ items' \in [Users -> [Targets -> 0..MaxRows]]
        /\ rows' \in 0..MaxRows /\ rows <= rows'
        /\ items'[b.by][b.role] > rows /\ items'[b.by][b.role] <= rows' /\ items'[b.by][b.role] \in 0..MaxRows
        /\ \A x \in Targets : x # b.role => items'[b.by][x] = items[b.by][x]
        /\ \A v \in Users : v # b.by => items'[v] = items[v]
        /\ IdsAreUnique'
    <3>1. {b.role} \in SUBSET Targets
      BY <2>1
    <3>2. /\ items' \in [Users -> [Targets -> 0..MaxRows]]
          /\ rows' \in 0..MaxRows /\ rows <= rows'
          /\ \A x \in {b.role} : items[b.by][x] = 0 /\ items'[b.by][x] > rows /\ items'[b.by][x] <= rows'
          /\ \A x \in Targets \ {b.role} : items'[b.by][x] = items[b.by][x]
          /\ \A v \in Users \ {b.by} : items'[v] = items[v]
          /\ IdsAreUnique'
      BY <1>1, <1>3, <2>1, <3>1, InsertWorks
    <3>. QED BY <1>1, <2>1, <3>2
  <2>3. /\ writer' \in [Users -> [Targets -> Tabs \cup {"none"}]] /\ writer'[b.by][b.role] = t
        /\ \A u \in Users, x \in Targets : ~(u = b.by /\ x = b.role) => writer'[u][x] = writer[u][x]
    BY <1>1, <1>3, <2>1, AtWork
  <2>4. /\ c \in Buttons /\ c.call = "followed" /\ c.by = b.by /\ c.found = items'[b.by][b.role] /\ c.role = b.role
        /\ c.user = b.user /\ c.following = b.following /\ c.item = b.item /\ c.other = b.other
    BY <1>0, <1>1, <2>1, <2>2 DEF Buttons
  <2>5. button' = [button EXCEPT ![t] = c] /\ button \in [Tabs -> Buttons]
    BY <1>3 DEF WatchInv, WatchTypeOK
  <2> HIDE DEF c
  <2>6. button'[t] = c /\ button' \in [Tabs -> Buttons]
    BY <2>4, <2>5
  <2>7. WatchTypeOK'
    BY <1>1, <2>2, <2>3, <2>6, AtWork DEF WatchTypeOK
  <2>8. \A u \in Users, x \in Targets :
           \/ items'[u][x] = items[u][x] /\ writer'[u][x] = writer[u][x]
           \/ u = b.by /\ x = b.role /\ items'[u][x] > rows /\ writer'[u][x] = t
    BY <1>1, <2>1, <2>2, <2>3
  <2>9. c.found # 0 /\ rows \in Nat
    BY <2>2, <2>4, AtWork
  <2>10. HoldsItsOwn(button[t], t)'
    <3>1. button'[t].item = 0 /\ button'[t].found = items'[b.by][b.role] /\ button'[t].role = b.role
      BY <1>1, <2>4, <2>6
    <3>2. OfRole(button[t].item, button[t].role)'
      BY <2>2, <2>9, <3>1 DEF OfRole
    <3>3. OfRole(button[t].found, button[t].role)'
      BY <1>1, <2>1, <2>2, <2>9, <3>1 DEF OfRole, IdsAreUnique
    <3>4. \A u \in Users, x \in Targets : writer'[u][x] = t => x = c.role
      BY <1>0, <2>4, <2>8 DEF HoldsItsOwn
    <3>5. c.call = "followed" /\ c.following = FALSE /\ c.item = 0 /\ c.role # "none"
          /\ c.by \in Users /\ (c.other \/ c.by = c.user)
      BY <1>1, <2>4
    <3>. QED BY ONLY <2>6, <2>9, <3>2, <3>3, <3>4, <3>5 DEF HoldsItsOwn
  <2>11. ASSUME faults = 0, NEW u \in Users, NEW r \in Roles PROVE Knows(button[t], t, u, r)'
    <3> SUFFICES ASSUME writer'[u][r] = t, c.role = r, c.user = u, ~c.other
                 PROVE  c.found = items'[u][r]
      BY <2>4, <2>6 DEF Knows
    <3>. QED BY <1>1, <2>4
  <2>12. faults = 0 => \A u \in Users, r \in Roles : Knows(button[t], t, u, r)'
    BY <2>11
  <2>13. rows <= rows' /\ IdsAreUnique'
    BY <2>2
  <2>. QED BY <1>1, <2>4, <2>5, <2>7, <2>8, <2>10, <2>12, <2>13, ButtonAndTable
<1>. QED BY <1>2, <1>3 DEF WriteRow

LEMMA FollowsStep ==
    ASSUME WatchInv, NEW t \in Tabs, WatchNext(t)
    PROVE  WatchInv'
BY RenderedAndAsked, Deleted, LookedUp, Wrote, FailedOrReplied DEF WatchNext, FollowServer

-----------------------------------------------------------------------------
(* The other steps, as the follows and the buttons see them. *)

LEMMA FollowsAside ==
    ASSUME WatchInv, UNCHANGED <<items, rows, dropped, writer, button>>, session' \in Users \cup {Guest},
           faults' \in 0..MaxFaults, faults' = 0 => faults = 0
    PROVE  WatchInv'
<1>1. WatchTypeOK' /\ IdsAreUnique'
  BY DEF WatchInv, WatchTypeOK, IdsAreUnique
<1>2. ASSUME NEW t \in Tabs
      PROVE  /\ HoldsItsOwn(button[t], t)'
             /\ faults' = 0 => \A u \in Users, r \in Roles : Knows(button[t], t, u, r)'
  <2>1. HoldsItsOwn(button[t], t) /\ (faults = 0 => \A u \in Users, r \in Roles : Knows(button[t], t, u, r))
    BY AtWork
  <2>. QED BY <2>1 DEF HoldsItsOwn, OfRole, Knows
<1>. QED BY <1>1, <1>2 DEF WatchInv, ButtonsHoldTheirOwn, LastWriterAtWork

\* The follows a save inserts.
LEMMA FollowsInserted ==
    ASSUME WatchInv, NEW u \in Users, NEW xs \in SUBSET Targets, CanInsert(u, xs), Insert(u, xs),
           writer' = [writer EXCEPT ![u] = [x \in Targets |-> IF x \in xs THEN "none" ELSE @[x]]],
           UNCHANGED <<session, dropped, button, faults>>
    PROVE  /\ WatchInv'
           /\ xs \subseteq Followed(u)'
           /\ \A v \in Users : Kept(v) \subseteq Kept(v)'
<1>1. /\ items' \in [Users -> [Targets -> 0..MaxRows]]
      /\ rows' \in 0..MaxRows /\ rows <= rows'
      /\ \A x \in xs : items[u][x] = 0 /\ items'[u][x] > rows /\ items'[u][x] <= rows'
      /\ \A x \in Targets \ xs : items'[u][x] = items[u][x]
      /\ \A v \in Users \ {u} : items'[v] = items[v]
      /\ IdsAreUnique'
  BY InsertWorks DEF WatchInv
<1>2. writer' = [writer EXCEPT ![u] = [x \in Targets |-> IF x \in xs THEN "none" ELSE writer[u][x]]]
  BY AtWork DEF WatchInv, WatchTypeOK
<1>3. writer \in [Users -> [Targets -> Tabs \cup {"none"}]] /\ rows \in 0..MaxRows /\ MaxRows \in Nat
  BY WatchConstants DEF WatchInv, WatchTypeOK
<1>4. /\ writer' \in [Users -> [Targets -> Tabs \cup {"none"}]]
      /\ \A v \in Users, x \in Targets :
            writer'[v][x] = IF v = u /\ x \in xs THEN "none" ELSE writer[v][x]
  <2>1. [x \in Targets |-> IF x \in xs THEN "none" ELSE writer[u][x]] \in [Targets -> Tabs \cup {"none"}]
    BY <1>3
  <2>. QED BY <1>2, <1>3, <2>1
<1>5. WatchTypeOK'
  BY <1>1, <1>4 DEF WatchInv, WatchTypeOK
<1>6. ASSUME NEW s \in Tabs
      PROVE  /\ HoldsItsOwn(button[s], s)'
             /\ faults' = 0 => \A v \in Users, r \in Roles : Knows(button[s], s, v, r)'
  <2>1. s # "none"
    BY NoneIsNothing
  <2>2. \A v \in Users, x \in Targets : writer'[v][x] = s => writer[v][x] = s
    BY <1>4, <2>1
  <2>3. \A v \in Users, x \in Targets :
           items'[v][x] = items[v][x] \/ ((items'[v][x] = 0 \/ items'[v][x] > rows) /\ writer'[v][x] # s)
    BY <1>1, <1>4, <2>1
  <2>4. rows' \in Nat /\ button'[s] = button[s] /\ faults' = faults
    BY <1>1, <1>3
  <2>. QED BY <1>1, <2>2, <2>3, <2>4, OtherButtons
<1>7. WatchInv'
  BY <1>1, <1>5, <1>6 DEF WatchInv, ButtonsHoldTheirOwn, LastWriterAtWork
<1>8. \A v \in Users, x \in Targets : items[v][x] # 0 => items'[v][x] # 0
  BY <1>1
<1>9. xs \subseteq Followed(u)'
  BY <1>1, <1>3 DEF Followed
<1>. QED BY <1>7, <1>8, <1>9 DEF Kept, Followed

\* What a user keeps is not lost by a button: a follow goes by being dropped.
LEMMA FollowsAreKept ==
    ASSUME WatchInv, NEW t \in Tabs, WatchNext(t), NEW u \in Users
    PROVE  Kept(u) \subseteq Kept(u)'
<1>1. CASE DeleteRow(t)
  <2> DEFINE gone == {x \in Targets : items[session][x] = button[t].item}
  <2>1. session \in Users
    BY <1>1, AtWork DEF DeleteRow
  <2>2. /\ items' = [items EXCEPT ![session] = [x \in Targets |-> IF x \in gone THEN 0 ELSE items[session][x]]]
        /\ dropped' = [dropped EXCEPT ![session] = dropped[session] \cup gone]
    BY <1>1, <2>1, AtWork DEF DeleteRow
  <2> HIDE DEF gone
  <2>3. \A x \in Targets : items'[u][x] = items[u][x] \/ x \in dropped'[u]
    BY <2>1, <2>2, AtWork
  <2>4. dropped[u] \subseteq dropped'[u]
    BY <2>1, <2>2, AtWork
  <2>. QED BY <2>3, <2>4 DEF Kept, Followed
<1>2. CASE WriteRow(t)
  <2> DEFINE b == button[t]
  <2>1. dropped' = dropped
    BY <1>2 DEF WriteRow
  <2>2. CASE items' = items
    BY <2>1, <2>2 DEF Kept, Followed
  <2>3. CASE CanInsert(b.by, {b.role}) /\ Insert(b.by, {b.role})
    <3>1. b.by \in Users /\ {b.role} \in SUBSET Targets
      <4>1. b.call = "write"
        BY <1>2 DEF WriteRow
      <4>. QED BY <4>1, AtWork DEF HoldsItsOwn, Buttons, Targets
    <3>2. /\ \A x \in {b.role} : items[b.by][x] = 0
          /\ \A x \in Targets \ {b.role} : items'[b.by][x] = items[b.by][x]
          /\ \A v \in Users \ {b.by} : items'[v] = items[v]
      BY <2>3, <3>1, InsertWorks DEF WatchInv
    <3>3. \A x \in Targets : items[u][x] # 0 => items'[u][x] # 0
      BY <3>1, <3>2
    <3>. QED BY <2>1, <3>3 DEF Kept, Followed
  <2>. QED BY <1>2, <2>2, <2>3 DEF WriteRow
<1>3. CASE items' = items /\ dropped' = dropped
  BY <1>3 DEF Kept, Followed
<1>4. DeleteRow(t) \/ WriteRow(t) \/ (items' = items /\ dropped' = dropped)
  BY DEF WatchNext, FollowServer, OpenRole, ClickFollow, SignedOutCall, LookUp, FollowFails, FollowReply, tableVars
<1>. QED BY <1>1, <1>2, <1>3, <1>4

-----------------------------------------------------------------------------
(* What the first run's operators return. *)

LEMMA FlowTypes ==
    ASSUME FlowTypeOK
    PROVE  /\ record \in Records \cup {None} /\ (record # None => record \in Records)
           /\ calls \in Seq(Calls) /\ asked \subseteq Answers
           /\ prefs \in [Users -> [disciplines : SUBSET DisciplinesFor(Fields), completed : BOOLEAN, skipped : BOOLEAN]]
           /\ \A t \in Tabs : tab[t].on => /\ tab[t] \in OpenPages
                                           /\ tab[t].call \in 0..Len(calls) /\ tab[t].saved \in 0..Len(calls)
           /\ NoPage.on = FALSE /\ NoAnswers \in Answers
           /\ ShouldCarryOver => record \in Records /\ record.answers \in Answers
<1>1. record \in Records \cup {None} /\ (record # None => record \in Records)
  BY DEF FlowTypeOK
<1>2. NoPage.on = FALSE /\ NoAnswers \in Answers
  BY DEF NoPage, NoAnswers, Answers
<1>3. \A t \in Tabs : tab[t].on => tab[t] \in OpenPages
  BY <1>2 DEF FlowTypeOK
<1>4. ShouldCarryOver => record \in Records /\ record.answers \in Answers
  BY <1>1 DEF ShouldCarryOver, Records
<1>. QED BY <1>1, <1>2, <1>3, <1>4 DEF FlowTypeOK

LEMMA ShownType ==
    ASSUME FlowTypeOK, NEW p \in OpenPages
    PROVE  AnswersShown(p) \in Answers
<1>1. p.edited \in Answers \cup {None} /\ p.initial \in Answers
  BY DEF OpenPages
<1>2. record # None => record.answers \in Answers
  BY FlowTypes DEF Records
<1>. QED BY <1>1, <1>2 DEF AnswersShown

LEMMA PayoffFits == ASSUME NEW a PROVE Payoff(a) \subseteq Matching(a) /\ Matching(a) \subseteq Roles
<1>1. \A rs : FirstOf(rs) \subseteq rs
  BY DEF FirstOf
<1> DEFINE watched == FirstOf({r \in Matching(a) : Facts[r].company \in a.companies})
           rest == FirstOf(Matching(a)) \ watched
<1>2. watched \subseteq Matching(a) /\ rest \subseteq Matching(a)
  BY <1>1
<1> HIDE DEF watched, rest
<1>3. Payoff(a) = watched \cup {r \in rest : Cardinality(watched \cup Before(rest, r)) < PayoffRoles}
  BY DEF Payoff, watched, rest
<1>. QED BY <1>2, <1>3 DEF Matching

LEMMA UrlFacts ==
    ASSUME NEW ready \in BOOLEAN, NEW save \in BOOLEAN, NEW a \in Answers
    PROVE  /\ Url(ready, save, a) \in Urls /\ Url(ready, save, a).ready = ready
           /\ Url(ready, save, a).save = save /\ Url(ready, save, a).answers = a
BY DEF Url, Urls

\* A render keeps the page's own state and shows a payoff that fits.
LEMMA RenderedFacts ==
    ASSUME FlowTypeOK, session \in Users \cup {Guest}, NEW p \in OpenPages, NEW url \in Urls
    PROVE  LET q == Rendered(p, url) IN
           /\ q \in OpenPages /\ q.on = TRUE /\ q.url = url /\ q.nav = None /\ q.user = session
           /\ q.edited = p.edited /\ q.call = p.call /\ q.saved = p.saved /\ q.auto = p.auto /\ q.local = p.local
           /\ url.ready => q.payoff \subseteq Matching(url.answers)
<1> DEFINE payoff == IF url.ready THEN Payoff(url.answers) ELSE {}
           initial == IF url.ready \/ HasAnyAnswer(url.answers) THEN url.answers
                      ELSE IF session # Guest THEN AnswersFromPreferences(prefs[session]) ELSE NoAnswers
           q == [p EXCEPT !.user = session, !.url = url, !.nav = None, !.payoff = payoff, !.initial = initial]
<1>1. payoff \in SUBSET Roles
  BY PayoffFits
<1>2. initial \in Answers
  <2>1. AnswersFromPreferences(prefs[session]) \in Answers
    BY FlowTypes DEF AnswersFromPreferences, NoAnswers, Answers
  <2>2. url.answers \in Answers
    BY DEF Urls
  <2>. QED BY <2>1, <2>2, FlowTypes
<1>3. url.ready => payoff \subseteq Matching(url.answers)
  BY PayoffFits
<1>4. Rendered(p, url) = q
  BY DEF Rendered
<1> HIDE DEF payoff, initial
<1>5. /\ q \in OpenPages /\ q.on = TRUE /\ q.url = url /\ q.nav = None /\ q.user = session /\ q.payoff = payoff
      /\ q.edited = p.edited /\ q.call = p.call /\ q.saved = p.saved /\ q.auto = p.auto /\ q.local = p.local
  BY <1>1, <1>2 DEF OpenPages
<1>. QED BY <1>3, <1>4, <1>5

LEMMA ArmedFacts ==
    ASSUME NEW p \in OpenPages
    PROVE  LET q == AutoArmed(p) IN
           /\ q \in OpenPages /\ q.on = TRUE /\ q.url = p.url /\ q.nav = p.nav /\ q.user = p.user
           /\ q.edited = p.edited /\ q.call = p.call /\ q.saved = p.saved /\ q.payoff = p.payoff
           /\ q.auto = "armed" => p.url.save
<1> DEFINE auto == IF p.auto = "started" THEN p.auto
                   ELSE IF p.url.save /\ p.user # Guest /\ p.url.ready THEN "armed" ELSE "no"
           q == [p EXCEPT !.auto = auto]
<1>1. auto \in {"no", "armed", "started"} /\ (auto = "armed" => p.url.save)
  OBVIOUS
<1>2. AutoArmed(p) = q
  BY DEF AutoArmed, OpenPages
<1> HIDE DEF auto
<1>. QED BY <1>1, <1>2 DEF OpenPages

\* What a render or an answer does to the record: a marked record stays
\* unless a guest's page comes to a question with answers of its own, and no
\* render marks one.
LEMMA RecordFacts ==
    ASSUME FlowTypeOK, NEW p \in OpenPages
    PROVE  LET r == GuestRecord(p) IN
           /\ r \in Records \cup {None} /\ (r # None => (r.pending => r.completed))
           /\ r # None /\ r.pending => r = record
           /\ ShouldCarryOver /\ r # record => p.user = Guest /\ p.edited # None /\ ~p.url.ready
<1>1. p.edited # None => p.edited \in Answers
  BY DEF OpenPages
<1>2. \A a \in Answers : /\ ReachedPayoff(a, FALSE) \in Records /\ ~ReachedPayoff(a, FALSE).pending
                        /\ Answering(a) \in Records /\ ~Answering(a).pending
  <2>1. (record # None /\ record.completed) \in BOOLEAN
    OBVIOUS
  <2>. QED BY <2>1 DEF ReachedPayoff, Answering, Records
<1>3. record \in Records \cup {None} /\ (record # None => (record.pending => record.completed))
  BY DEF FlowTypeOK
<1>4. GuestRecord(p) = record \/ (GuestRecord(p) \in Records /\ ~GuestRecord(p).pending)
  BY <1>1, <1>2, ShownType DEF GuestRecord
<1>5. ShouldCarryOver /\ GuestRecord(p) # record => p.user = Guest /\ p.edited # None /\ ~p.url.ready
  BY DEF GuestRecord
<1>. QED BY <1>3, <1>4, <1>5

LEMMA ControlFacts ==
    ASSUME NEW p, NEW c \in Controls(p)
    PROVE  /\ p.on
           /\ c = "choose" => Step(p) = 1
           /\ c = "field" => Step(p) = 2
           /\ c = "company" => Step(p) = 3
           /\ c = "back" => Step(p) > 1
           /\ c = "next" => Step(p) \in {2, 3} /\ p.nav = None
BY DEF Controls, QuestionControls, FooterControls

-----------------------------------------------------------------------------
(* The steps of a page. *)

\* What was stored stays so while follows, completions and asked answers do.
LEMMA SavesStay ==
    ASSUME SavesAreKept,
           \A u \in Users : Kept(u) \subseteq Kept(u)',
           \A u \in Users : prefs[u].completed => prefs'[u].completed,
           asked \subseteq asked',
           \A i \in DOMAIN calls' : (i \in DOMAIN calls /\ calls'[i] = calls[i]) \/ SaveIsKept(calls[i])',
           \A t \in Tabs : tab'[t].on /\ tab'[t].saved # 0 =>
              \/ tab[t].on /\ tab'[t].saved = tab[t].saved /\ calls'[tab[t].saved] = calls[tab[t].saved]
              \/ calls'[tab'[t].saved].pc = "done" /\ Settled(calls[tab[t].saved])'
    PROVE  SavesAreKept'
<1>1. ASSUME NEW i \in DOMAIN calls', i \in DOMAIN calls, calls'[i] = calls[i]
      PROVE  SaveIsKept(calls[i])'
  <2>1. SaveIsKept(calls[i])
    BY <1>1 DEF SavesAreKept
  <2>. QED BY <1>1, <2>1 DEF SaveIsKept
<1>2. ASSUME NEW t \in Tabs, tab'[t].on, tab'[t].saved # 0
      PROVE  calls'[tab'[t].saved].pc = "done" /\ Settled(calls[tab[t].saved])'
  <2>1. CASE tab[t].on /\ tab'[t].saved = tab[t].saved /\ calls'[tab[t].saved] = calls[tab[t].saved]
    <3>1. calls[tab[t].saved].pc = "done" /\ Settled(calls[tab[t].saved])
      BY <1>2, <2>1 DEF SavesAreKept
    <3>. QED BY <2>1, <3>1 DEF Settled
  <2>. QED BY <1>2, <2>1
<1>. QED BY <1>1, <1>2 DEF SavesAreKept

\* A step of one page.
LEMMA OnePage ==
    ASSUME IInv, UNCHANGED watchVars, NEW t \in Tabs, NEW p \in OpenPages \cup {NoPage},
           tab' = [tab EXCEPT ![t] = p], PageIsAsked(p),
           calls' \in Seq(Calls), Len(calls) <= Len(calls'),
           \A i \in DOMAIN calls : calls'[i] = calls[i],
           \A i \in DOMAIN calls' \ DOMAIN calls : SaveIsKept(calls[i])',
           p.on => p.call \in 0..Len(calls') /\ (p.saved = 0 \/ (tab[t].on /\ p.saved = tab[t].saved)),
           record' \in Records \cup {None}, record' # None => (record'.pending => record'.completed),
           ShouldCarryOver' => record'.answers \in asked',
           asked \subseteq asked', asked' \subseteq Answers,
           prefs' \in [Users -> [disciplines : SUBSET DisciplinesFor(Fields), completed : BOOLEAN, skipped : BOOLEAN]],
           \A u \in Users : prefs[u].completed => prefs'[u].completed
    PROVE  IInv'
<1>1. /\ tab \in [Tabs -> OpenPages \cup {NoPage}] /\ FlowTypeOK /\ calls \in Seq(Calls)
      /\ DOMAIN calls = 1..Len(calls) /\ DOMAIN calls' = 1..Len(calls') /\ Len(calls) \in Nat /\ Len(calls') \in Nat
  BY DEF IInv, TypeOK, FlowTypeOK
<1>2. /\ tab' \in [Tabs -> OpenPages \cup {NoPage}] /\ tab'[t] = p
      /\ \A s \in Tabs \ {t} : tab'[s] = tab[s]
  BY <1>1
<1>3. /\ WatchInv' /\ WatchTypeOK' /\ \A u \in Users : Kept(u) \subseteq Kept(u)'
  <2>1. UNCHANGED <<items, rows, dropped, writer, button, session, faults>>
    BY DEF watchVars
  <2>2. WatchInv
    BY DEF IInv
  <2>3. session' \in Users \cup {Guest} /\ faults' \in 0..MaxFaults /\ (faults' = 0 => faults = 0)
    BY <2>1, <2>2 DEF WatchInv, WatchTypeOK
  <2>4. WatchInv'
    BY <2>1, <2>2, <2>3, FollowsAside
  <2>. QED BY <2>1, <2>4 DEF WatchInv, Kept, Followed
<1>4. ASSUME NEW s \in Tabs, tab'[s].on
      PROVE  /\ tab'[s].call \in 0..Len(calls')
             /\ tab'[s].saved # 0 => tab[s].on /\ tab'[s].saved = tab[s].saved
  BY <1>1, <1>2, <1>4, FlowTypes
<1>5. ASSUME NEW s \in Tabs, tab'[s].on PROVE tab'[s].saved \in 0..Len(calls')
  <2>1. CASE tab'[s].saved = 0
    BY <1>1, <2>1
  <2>2. CASE tab'[s].saved # 0
    BY <1>1, <1>4, <1>5, <2>2, FlowTypes
  <2>. QED BY <2>1, <2>2
<1>6. FlowTypeOK'
  BY <1>2, <1>4, <1>5 DEF FlowTypeOK
<1>7. SavesAreKept'
  <2>1. \A s \in Tabs : tab'[s].on /\ tab'[s].saved # 0 =>
           tab[s].on /\ tab'[s].saved = tab[s].saved /\ calls'[tab[s].saved] = calls[tab[s].saved]
    BY <1>1, <1>4, FlowTypes
  <2>2. \A i \in DOMAIN calls' : (i \in DOMAIN calls /\ calls'[i] = calls[i]) \/ SaveIsKept(calls[i])'
    OBVIOUS
  <2>3. SavesAreKept
    BY DEF IInv
  <2>. QED BY <1>3, <2>1, <2>2, <2>3, SavesStay
<1>8. AskedAllAlong'
  <2>1. ASSUME NEW s \in Tabs PROVE PageIsAsked(tab[s])'
    <3>1. PageIsAsked(tab'[s])
      BY <1>2 DEF IInv, AskedAllAlong
    <3>. QED BY <3>1 DEF PageIsAsked, UrlIsAsked
  <2>. QED BY <2>1 DEF AskedAllAlong
<1>. QED BY <1>3, <1>6, <1>7, <1>8 DEF IInv, TypeOK

\* A step of one page that shows or edits answers.
LEMMA PageAndRecord ==
    ASSUME IInv, UNCHANGED <<watchVars, calls, prefs, asked>>, NEW t \in Tabs,
           NEW p \in OpenPages, NEW q \in OpenPages,
           tab' = [tab EXCEPT ![t] = q], PageIsAsked(q), record' = GuestRecord(p),
           q.call \in 0..Len(calls) /\ (q.saved = 0 \/ (tab[t].on /\ q.saved = tab[t].saved))
    PROVE  IInv'
<1>1. FlowTypeOK /\ SavesAreKept /\ AskedAllAlong
  BY DEF IInv, TypeOK
<1>2. /\ record' \in Records \cup {None} /\ (record' # None => (record'.pending => record'.completed))
      /\ record' # None /\ record'.pending => record' = record
  BY <1>1, RecordFacts
<1>3. ShouldCarryOver' => record'.answers \in asked'
  BY <1>1, <1>2 DEF ShouldCarryOver, AskedAllAlong
<1>4. calls' = calls /\ prefs' = prefs /\ asked' = asked /\ UNCHANGED watchVars
  OBVIOUS
<1>5. /\ calls' \in Seq(Calls) /\ Len(calls) <= Len(calls')
      /\ prefs' \in [Users -> [disciplines : SUBSET DisciplinesFor(Fields), completed : BOOLEAN, skipped : BOOLEAN]]
      /\ asked' \subseteq Answers
  BY <1>1, <1>4, FlowTypes
<1>6. q.on => q.call \in 0..Len(calls') /\ (q.saved = 0 \/ (tab[t].on /\ q.saved = tab[t].saved))
  BY <1>4
<1>. QED BY <1>2, <1>3, <1>4, <1>5, <1>6, OnePage

LEMMA InvFacts ==
    ASSUME IInv
    PROVE  /\ FlowTypeOK /\ WatchInv /\ SavesAreKept /\ AskedAllAlong
           /\ session \in Users \cup {Guest}
           /\ \A t \in Tabs : PageIsAsked(tab[t])
           /\ ShouldCarryOver => record.answers \in asked
BY DEF IInv, TypeOK, WatchTypeOK, AskedAllAlong

LEMMA Arrived ==
    ASSUME IInv, NEW t \in Tabs, NEW url \in Urls, UrlIsAsked(url), Arrive(t, url)
    PROVE  IInv'
<1> DEFINE p == Rendered(Fresh, url)
           n == IF p.user # Guest /\ ~url.ready /\ ShouldCarryOver THEN Url(TRUE, TRUE, record.answers) ELSE None
           q == [AutoArmed(p) EXCEPT !.nav = n]
<1>1. /\ tab' = [tab EXCEPT ![t] = q] /\ record' = GuestRecord(p)
      /\ UNCHANGED <<watchVars, calls, prefs, asked>>
  BY DEF Arrive
<1>2. /\ Fresh \in OpenPages /\ Fresh.call = 0 /\ Fresh.saved = 0
  <2>1. Plain \in Urls
    BY UrlFacts, InvFacts, FlowTypes DEF Plain
  <2>. QED BY <2>1, InvFacts, FlowTypes DEF Fresh, OpenPages
<1>3. /\ p \in OpenPages /\ p.url = url /\ p.call = 0 /\ p.saved = 0 /\ p.auto = Fresh.auto
      /\ url.ready => p.payoff \subseteq Matching(url.answers)
  BY <1>2, InvFacts, RenderedFacts
<1> HIDE DEF p
<1>4. LET r == AutoArmed(p) IN
        /\ r \in OpenPages /\ r.url = url /\ r.call = 0 /\ r.saved = 0 /\ r.payoff = p.payoff
        /\ r.auto = "armed" => url.save
  BY <1>3, ArmedFacts
<1>5. n \in Urls \cup {None} /\ (n # None => UrlIsAsked(n))
  <2>1. CASE ShouldCarryOver
    <3>1. record.answers \in Answers /\ record.answers \in asked
      BY <2>1, InvFacts, FlowTypes
    <3>. QED BY <3>1, UrlFacts DEF UrlIsAsked
  <2>2. CASE ~ShouldCarryOver
    BY <2>2
  <2>. QED BY <2>1, <2>2
<1> HIDE DEF n
<1>6. /\ q \in OpenPages /\ q.url = url /\ q.nav = n /\ q.call = 0 /\ q.saved = 0 /\ q.payoff = p.payoff
      /\ q.auto = "armed" => url.save
  BY <1>4, <1>5 DEF OpenPages
<1> HIDE DEF q
<1>7. PageIsAsked(q)
  BY <1>3, <1>5, <1>6 DEF PageIsAsked
<1>8. q.call \in 0..Len(calls)
  BY <1>6, InvFacts, FlowTypes
<1>. QED BY <1>1, <1>3, <1>6, <1>7, <1>8, PageAndRecord

LEMMA Opened ==
    ASSUME IInv, NEW t \in Tabs, Open(t)
    PROVE  IInv'
<1>1. Plain \in Urls /\ UrlIsAsked(Plain)
  BY InvFacts, FlowTypes, UrlFacts DEF Plain, UrlIsAsked
<1>2. ASSUME HasGuestAnswers PROVE /\ Url(TRUE, FALSE, record.answers) \in Urls
                                   /\ UrlIsAsked(Url(TRUE, FALSE, record.answers))
  <2>1. record.answers \in Answers
    BY <1>2, InvFacts, FlowTypes DEF HasGuestAnswers, Records
  <2>. QED BY <2>1, UrlFacts DEF UrlIsAsked
<1>3. \A a \in Links : Url(FALSE, FALSE, a) \in Urls /\ UrlIsAsked(Url(FALSE, FALSE, a))
  BY UrlFacts, LinksAreAnswers DEF UrlIsAsked
<1>. QED BY <1>1, <1>2, <1>3, Arrived DEF Open

LEMMA Landed ==
    ASSUME IInv, NEW t \in Tabs, Land(t)
    PROVE  IInv'
<1> DEFINE p == Rendered(tab[t], tab[t].nav)
           q == AutoArmed(p)
<1>1. /\ tab[t].on /\ tab[t].nav # None /\ tab' = [tab EXCEPT ![t] = q] /\ record' = GuestRecord(p)
      /\ UNCHANGED <<watchVars, calls, prefs, asked>>
  BY DEF Land
<1>2. tab[t] \in OpenPages /\ tab[t].nav \in Urls /\ UrlIsAsked(tab[t].nav)
  BY <1>1, InvFacts, FlowTypes DEF OpenPages, PageIsAsked
<1>3. /\ p \in OpenPages /\ p.url = tab[t].nav /\ p.nav = None /\ p.call = tab[t].call /\ p.saved = tab[t].saved
      /\ p.url.ready => p.payoff \subseteq Matching(p.url.answers)
  BY <1>2, InvFacts, RenderedFacts
<1> HIDE DEF p
<1>4. /\ q \in OpenPages /\ q.url = p.url /\ q.nav = None /\ q.call = tab[t].call /\ q.saved = tab[t].saved
      /\ q.payoff = p.payoff /\ (q.auto = "armed" => p.url.save)
  BY <1>3, ArmedFacts
<1> HIDE DEF q
<1>5. PageIsAsked(q)
  BY <1>2, <1>3, <1>4 DEF PageIsAsked
<1>6. q.call \in 0..Len(calls)
  BY <1>1, <1>4, InvFacts, FlowTypes
<1>. QED BY <1>1, <1>3, <1>4, <1>5, <1>6, PageAndRecord

LEMMA Edited ==
    ASSUME IInv, NEW t \in Tabs, tab[t].on, NEW a \in Answers, NEW local \in 1..3, Edit(t, a, local)
    PROVE  IInv'
<1> DEFINE p == [tab[t] EXCEPT !.edited = a, !.local = local]
<1>1. /\ tab' = [tab EXCEPT ![t] = p] /\ record' = GuestRecord(p)
      /\ UNCHANGED <<watchVars, calls, prefs, asked>>
  BY DEF Edit
<1>2. tab[t] \in OpenPages /\ PageIsAsked(tab[t]) /\ tab[t].call \in 0..Len(calls)
  BY InvFacts, FlowTypes
<1>3. /\ p \in OpenPages /\ p.url = tab[t].url /\ p.nav = tab[t].nav /\ p.call = tab[t].call
      /\ p.saved = tab[t].saved /\ p.payoff = tab[t].payoff /\ p.auto = tab[t].auto
  BY <1>2 DEF OpenPages
<1> HIDE DEF p
<1>4. PageIsAsked(p)
  BY <1>2, <1>3 DEF PageIsAsked
<1>. QED BY <1>1, <1>2, <1>3, <1>4, PageAndRecord

\* The three kinds of an edit.
LEMMA EditTypes ==
    ASSUME IInv, NEW t \in Tabs, tab[t].on
    PROVE  LET a == AnswersShown(tab[t]) IN
           /\ a \in Answers /\ tab[t].local \in 1..3
           /\ \A v \in LookingFor \cup {None} : [a EXCEPT !.lookingFor = v] \in Answers
           /\ \A f \in Fields : [a EXCEPT !.fields = Flip(@, f)] \in Answers /\ Flip(a.fields, f) # a.fields
           /\ \A c \in Companies : [a EXCEPT !.companies = Flip(@, c)] \in Answers /\ Flip(a.companies, c) # a.companies
<1> DEFINE a == AnswersShown(tab[t])
<1>1. a \in Answers /\ tab[t].local \in 1..3
  BY InvFacts, FlowTypes, ShownType DEF OpenPages
<1> HIDE DEF a
<1>2. \A v \in LookingFor \cup {None} : [a EXCEPT !.lookingFor = v] \in Answers
  BY <1>1 DEF Answers
<1>3. \A f \in Fields : Flip(a.fields, f) \in SUBSET Fields /\ Flip(a.fields, f) # a.fields
  BY <1>1 DEF Answers, Flip
<1>4. \A c \in Companies : Flip(a.companies, c) \in SUBSET Companies /\ Flip(a.companies, c) # a.companies
  BY <1>1 DEF Answers, Flip
<1>5. \A f \in Fields : [a EXCEPT !.fields = Flip(@, f)] \in Answers
  BY <1>1, <1>3 DEF Answers
<1>6. \A c \in Companies : [a EXCEPT !.companies = Flip(@, c)] \in Answers
  BY <1>1, <1>4 DEF Answers
<1>. QED BY <1>1, <1>2, <1>3, <1>4, <1>5, <1>6 DEF a

LEMMA AnswerEdited ==
    ASSUME IInv, NEW t \in Tabs,
           \/ \E v \in LookingFor \cup {None} : Choose(t, v)
           \/ \E f \in Fields : ToggleField(t, f)
           \/ \E c \in Companies : ToggleCompany(t, c)
    PROVE  IInv'
<1>1. tab[t].on
  BY ControlFacts DEF Choose, ToggleField, ToggleCompany
<1>2. CASE \E v \in LookingFor \cup {None} : Choose(t, v)
  <2>1. 2 \in 1..3
    OBVIOUS
  <2>. QED BY <1>1, <1>2, <2>1, EditTypes, Edited DEF Choose
<1>3. CASE \E f \in Fields : ToggleField(t, f)
  BY <1>1, <1>3, EditTypes, Edited DEF ToggleField
<1>4. CASE \E c \in Companies : ToggleCompany(t, c)
  BY <1>1, <1>4, EditTypes, Edited DEF ToggleCompany
<1>. QED BY <1>2, <1>3, <1>4

\* A step of one page that leaves the record and the saves alone.
LEMMA PageAlone ==
    ASSUME IInv, UNCHANGED <<watchVars, record, calls, asked>>, NEW t \in Tabs, NEW p \in OpenPages \cup {NoPage},
           tab' = [tab EXCEPT ![t] = p], PageIsAsked(p),
           p.on => p.call \in 0..Len(calls) /\ (p.saved = 0 \/ (tab[t].on /\ p.saved = tab[t].saved)),
           prefs' \in [Users -> [disciplines : SUBSET DisciplinesFor(Fields), completed : BOOLEAN, skipped : BOOLEAN]],
           \A u \in Users : prefs[u].completed => prefs'[u].completed
    PROVE  IInv'
<1>1. FlowTypeOK
  BY InvFacts
<1>2. calls' = calls /\ asked' = asked /\ record' = record /\ UNCHANGED watchVars
  OBVIOUS
<1>3. /\ calls' \in Seq(Calls) /\ Len(calls) <= Len(calls') /\ asked' \subseteq Answers
      /\ record' \in Records \cup {None} /\ (record' # None => (record'.pending => record'.completed))
  BY <1>1, <1>2 DEF FlowTypeOK
<1>4. ShouldCarryOver' => record'.answers \in asked'
  BY <1>2, InvFacts DEF ShouldCarryOver
<1>. QED BY <1>2, <1>3, <1>4, OnePage

LEMMA Stepped ==
    ASSUME IInv, NEW t \in Tabs, Next1(t) \/ Back(t)
    PROVE  IInv'
<1> DEFINE p == tab[t]
<1>1. /\ p.on /\ p \in OpenPages /\ PageIsAsked(p) /\ p.call \in 0..Len(calls)
      /\ AnswersShown(p) \in Answers
  BY InvFacts, FlowTypes, ControlFacts, ShownType DEF Next1, Back
<1>2. /\ p.local \in 1..3
      /\ Url(TRUE, FALSE, AnswersShown(p)) \in Urls /\ UrlIsAsked(Url(TRUE, FALSE, AnswersShown(p)))
      /\ Url(FALSE, FALSE, AnswersShown(p)) \in Urls /\ UrlIsAsked(Url(FALSE, FALSE, AnswersShown(p)))
  BY <1>1, UrlFacts DEF OpenPages, UrlIsAsked
<1>3. UNCHANGED <<watchVars, record, calls, asked, prefs>>
  BY DEF Next1, Back
<1>4. ASSUME NEW local \in 1..3, NEW n \in Urls \cup {None}, n = p.nav \/ UrlIsAsked(n),
             tab' = [tab EXCEPT ![t] = [p EXCEPT !.local = local, !.nav = n]]
      PROVE  IInv'
  <2> DEFINE q == [p EXCEPT !.local = local, !.nav = n]
  <2>1. /\ q \in OpenPages /\ q.url = p.url /\ q.nav = n /\ q.call = p.call /\ q.saved = p.saved
        /\ q.payoff = p.payoff /\ q.auto = p.auto
    BY <1>1 DEF OpenPages
  <2>2. tab' = [tab EXCEPT ![t] = q]
    BY <1>4
  <2> HIDE DEF q
  <2>3. PageIsAsked(q)
    BY <1>1, <1>4, <2>1 DEF PageIsAsked
  <2>4. prefs' \in [Users -> [disciplines : SUBSET DisciplinesFor(Fields), completed : BOOLEAN, skipped : BOOLEAN]]
    BY <1>3, InvFacts, FlowTypes
  <2>. QED BY <1>1, <1>3, <2>1, <2>2, <2>3, <2>4, PageAlone
<1>5. p.nav \in Urls \cup {None}
  BY <1>1 DEF OpenPages
<1>6. CASE Next1(t)
  <2>1. CASE Step(p) = 2
    <3>1. tab' = [tab EXCEPT ![t] = [p EXCEPT !.local = 3]]
      BY <1>6, <2>1 DEF Next1
    <3>2. [p EXCEPT !.local = 3] = [p EXCEPT !.local = 3, !.nav = p.nav]
      BY <1>1 DEF OpenPages
    <3>3. 3 \in 1..3
      OBVIOUS
    <3>. QED BY <1>4, <1>5, <3>1, <3>2, <3>3
  <2>2. CASE Step(p) # 2
    <3> DEFINE n == Url(TRUE, FALSE, AnswersShown(p))
    <3>1. tab' = [tab EXCEPT ![t] = [p EXCEPT !.nav = n]]
      BY <1>6, <2>2 DEF Next1
    <3>2. n \in Urls /\ UrlIsAsked(n)
      BY <1>2
    <3> HIDE DEF n
    <3>3. [p EXCEPT !.nav = n] = [p EXCEPT !.local = p.local, !.nav = n]
      BY <1>1 DEF OpenPages
    <3>. QED BY <1>2, <1>4, <3>1, <3>2, <3>3
  <2>. QED BY <2>1, <2>2
<1>7. CASE Back(t)
  <2>1. CASE Step(p) = 4
    <3> DEFINE n == Url(FALSE, FALSE, AnswersShown(p))
    <3>1. tab' = [tab EXCEPT ![t] = [p EXCEPT !.local = 3, !.nav = n]]
      <4> HIDE DEF n
      <4> DEFINE q == [p EXCEPT !.local = 3, !.nav = n]
                 r == [p EXCEPT !.local = @ - 1]
      <4>1. tab' = [tab EXCEPT ![t] = IF Step(p) = 4 THEN q ELSE r]
        BY <1>7 DEF Back, n
      <4> HIDE DEF q, r
      <4>2. tab' = [tab EXCEPT ![t] = q]
        BY <2>1, <4>1
      <4>. QED BY <4>2 DEF q
    <3>2. n \in Urls /\ UrlIsAsked(n)
      BY <1>2
    <3>3. 3 \in 1..3
      OBVIOUS
    <3> HIDE DEF n
    <3>. QED BY <1>4, <3>1, <3>2, <3>3
  <2>2. CASE Step(p) # 4
    <3> DEFINE l == p.local - 1
    <3>1. tab' = [tab EXCEPT ![t] = [p EXCEPT !.local = l]]
      <4> DEFINE q == [p EXCEPT !.local = 3, !.nav = Url(FALSE, FALSE, AnswersShown(p))]
                 r == [p EXCEPT !.local = p.local - 1]
      <4>1. tab' = [tab EXCEPT ![t] = IF Step(p) = 4 THEN q ELSE r]
        <5>1. [p EXCEPT !.local = @ - 1] = r
          BY <1>1 DEF OpenPages
        <5>. QED BY <1>7, <5>1 DEF Back
      <4> HIDE DEF q, r
      <4>2. tab' = [tab EXCEPT ![t] = r]
        BY <2>2, <4>1
      <4>. QED BY <4>2 DEF r
    <3>2. l \in 1..3
      <4>1. Step(p) > 1
        BY <1>7, ControlFacts DEF Back
      <4>. QED BY <1>2, <2>2, <4>1 DEF Step
    <3> HIDE DEF l
    <3>3. [p EXCEPT !.local = l] = [p EXCEPT !.local = l, !.nav = p.nav]
      BY <1>1 DEF OpenPages
    <3>. QED BY <1>4, <1>5, <3>1, <3>2, <3>3
  <2>. QED BY <2>1, <2>2
<1>. QED BY <1>6, <1>7

\* A page that is left.
LEMMA PageLeft ==
    ASSUME IInv, NEW t \in Tabs, Skip(t) \/ Leave(t) \/ SaveAsGuest(t)
    PROVE  IInv'
<1>1. PageIsAsked(NoPage) /\ NoPage.on = FALSE
  BY DEF PageIsAsked, NoPage
<1>2. tab' = [tab EXCEPT ![t] = NoPage]
  BY DEF Skip, Leave, SaveAsGuest
<1>3. /\ prefs \in [Users -> [disciplines : SUBSET DisciplinesFor(Fields), completed : BOOLEAN, skipped : BOOLEAN]]
      /\ calls \in Seq(Calls) /\ asked \subseteq Answers
  BY InvFacts, FlowTypes
<1>4. CASE Skip(t)
  <2>1. /\ prefs' \in [Users -> [disciplines : SUBSET DisciplinesFor(Fields), completed : BOOLEAN, skipped : BOOLEAN]]
        /\ \A u \in Users : prefs[u].completed => prefs'[u].completed
    <3>1. CASE session # Guest /\ prefs' = [prefs EXCEPT ![session].skipped = TRUE]
      BY <1>3, <3>1, InvFacts
    <3>. QED BY <1>3, <1>4, <3>1 DEF Skip
  <2>2. UNCHANGED <<watchVars, record, calls, asked>>
    BY <1>4 DEF Skip
  <2>. QED BY <1>1, <1>2, <2>1, <2>2, PageAlone
<1>5. CASE Leave(t)
  <2>1. UNCHANGED <<watchVars, record, calls, asked, prefs>>
    BY <1>5 DEF Leave
  <2>. QED BY <1>1, <1>2, <1>3, <2>1, PageAlone
<1>6. CASE SaveAsGuest(t)
  <2> DEFINE a == AnswersShown(tab[t])
  <2>1. a \in Answers
    <3>1. tab[t].on
      BY <1>6, ControlFacts DEF SaveAsGuest
    <3>. QED BY <3>1, InvFacts, FlowTypes, ShownType
  <2>2. /\ record' = ReachedPayoff(a, TRUE) /\ asked' = asked \cup {a}
        /\ UNCHANGED watchVars /\ calls' = calls /\ prefs' = prefs
    BY <1>6 DEF SaveAsGuest
  <2>3. record' \in Records /\ record'.completed /\ record'.answers = a
    BY <2>1, <2>2 DEF ReachedPayoff, Records
  <2>4. /\ calls' \in Seq(Calls) /\ Len(calls) <= Len(calls') /\ asked \subseteq asked' /\ asked' \subseteq Answers
    BY <1>3, <2>1, <2>2
  <2>. QED BY <1>1, <1>2, <1>3, <2>2, <2>3, <2>4, OnePage
<1>. QED BY <1>4, <1>5, <1>6

LEMMA CallFacts ==
    ASSUME NEW a \in Answers, NEW roles \in SUBSET Roles, NEW auto \in BOOLEAN
    PROVE  LET c == NewCall(a, roles, auto) IN
           c \in Calls /\ c.pc = "prefs" /\ c.answers = a /\ c.roles = roles /\ c.auto = auto /\ c.chosen = {}
BY DEF NewCall, Calls, Targets

LEMMA Sent ==
    ASSUME IInv, NEW t \in Tabs, NEW auto \in BOOLEAN, tab[t].on, Send(t, auto),
           auto => tab[t].auto = "armed"
    PROVE  IInv'
<1> DEFINE p == tab[t]
           a == AnswersShown(p)
           c == NewCall(a, p.payoff, auto)
           w == IF auto THEN "started" ELSE p.auto
           q == [p EXCEPT !.call = Len(calls) + 1, !.auto = w]
<1>1. /\ p \in OpenPages /\ PageIsAsked(p) /\ p.saved \in 0..Len(calls) /\ a \in Answers
      /\ calls \in Seq(Calls) /\ Len(calls) \in Nat /\ FlowTypeOK
      /\ prefs \in [Users -> [disciplines : SUBSET DisciplinesFor(Fields), completed : BOOLEAN, skipped : BOOLEAN]]
  BY InvFacts, FlowTypes, ShownType
<1>2. /\ calls' = Append(calls, c) /\ tab' = [tab EXCEPT ![t] = q]
      /\ UNCHANGED watchVars /\ record' = record /\ prefs' = prefs /\ asked' = asked
  BY <1>1 DEF Send, OpenPages
<1>3. p.payoff \in SUBSET Roles
  BY <1>1 DEF OpenPages
<1>4. c \in Calls /\ c.pc = "prefs" /\ c.answers = a /\ c.roles = p.payoff /\ c.auto = auto /\ c.chosen = {}
  <2>1. a \in Answers /\ p.payoff \in SUBSET Roles
    BY <1>1, <1>3
  <2> HIDE DEF a
  <2>2. {} \in SUBSET Roles /\ {} \in SUBSET Targets /\ Guest \in Users \cup {Guest}
    OBVIOUS
  <2>3. c \in Calls
    BY <2>1, <2>2 DEF NewCall, Calls
  <2>4. c.pc = "prefs" /\ c.answers = a /\ c.roles = p.payoff /\ c.chosen = {}
    BY DEF NewCall
  <2>5. c.auto = auto
    BY DEF NewCall
  <2>. QED BY <2>3, <2>4, <2>5
<1>5. auto => p.payoff \subseteq Matching(p.url.answers) /\ p.url.answers \in asked
  BY <1>1 DEF PageIsAsked, UrlIsAsked
<1> HIDE DEF c
<1>6. /\ calls' \in Seq(Calls) /\ Len(calls') = Len(calls) + 1
      /\ \A i \in DOMAIN calls : calls'[i] = calls[i]
      /\ \A i \in DOMAIN calls' \ DOMAIN calls : calls'[i] = c
  BY <1>1, <1>2, <1>4
<1>7. /\ q \in OpenPages /\ q.on = TRUE /\ q.url = p.url /\ q.nav = p.nav /\ q.call = Len(calls) + 1
      /\ q.saved = p.saved /\ q.payoff = p.payoff /\ (q.auto = "armed" => p.auto = "armed")
  <2>1. w \in {"no", "armed", "started"} /\ (w = "armed" => p.auto = "armed")
    BY <1>1 DEF OpenPages
  <2> HIDE DEF w
  <2>2. Len(calls) + 1 \in Nat
    BY <1>1
  <2> HIDE DEF p
  <2>3. q \in OpenPages
    BY <1>1, <2>1, <2>2 DEF OpenPages
  <2>. QED BY <1>1, <2>1, <2>2 , <2>3 DEF OpenPages
<1> HIDE DEF q
<1>8. PageIsAsked(q)
  BY <1>1, <1>7 DEF PageIsAsked
<1>9. \A i \in DOMAIN calls' \ DOMAIN calls : SaveIsKept(calls[i])'
  <2>1. auto => \E b \in asked : \A r \in p.payoff : Fits(b, r)
    BY <1>5 DEF Matching
  <2>. QED BY <1>2, <1>4, <1>6, <2>1 DEF SaveIsKept
<1>10. q.call \in 0..Len(calls') /\ Len(calls) <= Len(calls')
  BY <1>1, <1>6, <1>7
<1>11. /\ record' \in Records \cup {None} /\ (record' # None => (record'.pending => record'.completed))
       /\ ShouldCarryOver' => record'.answers \in asked'
  BY <1>1, <1>2, InvFacts DEF FlowTypeOK, ShouldCarryOver
<1>12. asked' \subseteq Answers
  BY <1>1, <1>2 DEF FlowTypeOK
<1>. QED BY <1>1, <1>2, <1>6, <1>7, <1>8, <1>9, <1>10, <1>11, <1>12, OnePage

LEMMA SavedByPage ==
    ASSUME IInv, NEW t \in Tabs, Save(t) \/ AutoSave(t)
    PROVE  IInv'
<1>1. CASE Save(t)
  <2>1. tab[t].on /\ Send(t, FALSE)
    BY <1>1, ControlFacts DEF Save
  <2>. QED BY <2>1, Sent
<1>2. CASE AutoSave(t)
  <2>1. tab[t].on /\ tab[t].auto = "armed"
    BY <1>2 DEF AutoSave
  <2>2. CASE Send(t, TRUE)
    BY <2>1, <2>2, Sent
  <2>3. CASE ~Send(t, TRUE)
    <3> DEFINE q == [tab[t] EXCEPT !.auto = "no"]
    <3>1. tab' = [tab EXCEPT ![t] = q] /\ UNCHANGED <<watchVars, record, calls, asked>> /\ prefs' = prefs
      BY <1>2, <2>3 DEF AutoSave
    <3>2. tab[t] \in OpenPages /\ PageIsAsked(tab[t]) /\ tab[t].call \in 0..Len(calls)
      BY <2>1, InvFacts, FlowTypes
    <3>3. /\ q \in OpenPages /\ q.url = tab[t].url /\ q.nav = tab[t].nav /\ q.call = tab[t].call
          /\ q.saved = tab[t].saved /\ q.payoff = tab[t].payoff /\ q.auto = "no"
      BY <3>2 DEF OpenPages
    <3> HIDE DEF q
    <3>4. PageIsAsked(q)
      BY <2>1, <3>2, <3>3 DEF PageIsAsked
    <3>5. prefs' \in [Users -> [disciplines : SUBSET DisciplinesFor(Fields), completed : BOOLEAN, skipped : BOOLEAN]]
      BY <3>1, InvFacts, FlowTypes
    <3>. QED BY <2>1, <3>1, <3>2, <3>3, <3>4, <3>5, PageAlone
  <2>. QED BY <2>2, <2>3
<1>. QED BY <1>1, <1>2

-----------------------------------------------------------------------------
(* The steps of a save. *)

LEMMA CallReplaced ==
    ASSUME NEW s \in Seq(Calls), NEW i \in DOMAIN s, NEW c \in Calls
    PROVE  LET r == [s EXCEPT ![i] = c] IN
           /\ r \in Seq(Calls) /\ Len(r) = Len(s) /\ DOMAIN r = DOMAIN s /\ r[i] = c
           /\ \A j \in DOMAIN s : j # i => r[j] = s[j]
BY ExceptSeq

\* A step of one save in the route.
LEMMA OneCall ==
    ASSUME IInv, NEW i \in DOMAIN calls, NEW c \in Calls, calls' = [calls EXCEPT ![i] = c],
           UNCHANGED <<record, tab, asked>>, WatchInv', \A u \in Users : Kept(u) \subseteq Kept(u)',
           prefs' \in [Users -> [disciplines : SUBSET DisciplinesFor(Fields), completed : BOOLEAN, skipped : BOOLEAN]],
           \A u \in Users : prefs[u].completed => prefs'[u].completed,
           calls[i].pc # "done", SaveIsKept(calls[i])'
    PROVE  IInv'
<1>1. FlowTypeOK /\ SavesAreKept /\ AskedAllAlong /\ calls \in Seq(Calls)
  BY InvFacts, FlowTypes
<1>2. /\ calls' \in Seq(Calls) /\ Len(calls') = Len(calls) /\ DOMAIN calls' = DOMAIN calls
      /\ \A j \in DOMAIN calls : j # i => calls'[j] = calls[j]
  BY <1>1, CallReplaced
<1>3. FlowTypeOK'
  BY <1>1, <1>2 DEF FlowTypeOK
<1>4. SavesAreKept'
  <2>1. \A t \in Tabs : tab'[t].on /\ tab'[t].saved # 0 =>
           tab[t].on /\ tab'[t].saved = tab[t].saved /\ calls'[tab[t].saved] = calls[tab[t].saved]
    <3>1. ASSUME NEW t \in Tabs, tab[t].on, tab[t].saved # 0
          PROVE  calls'[tab[t].saved] = calls[tab[t].saved]
      <4>1. tab[t].saved \in DOMAIN calls
        BY <1>1, <3>1, FlowTypes
      <4>2. calls[tab[t].saved].pc = "done"
        BY <1>1, <3>1 DEF SavesAreKept
      <4>. QED BY <1>2, <4>1, <4>2
    <3>. QED BY <3>1
  <2>2. \A j \in DOMAIN calls' : (j \in DOMAIN calls /\ calls'[j] = calls[j]) \/ SaveIsKept(calls[j])'
    BY <1>2
  <2>. QED BY <1>1, <2>1, <2>2, SavesStay
<1>5. AskedAllAlong'
  <2>1. \A t \in Tabs : PageIsAsked(tab[t])'
    BY <1>1 DEF AskedAllAlong, PageIsAsked, UrlIsAsked
  <2>. QED BY <1>1, <2>1 DEF AskedAllAlong, ShouldCarryOver
<1>6. WatchTypeOK'
  BY DEF WatchInv
<1>. QED BY <1>3, <1>4, <1>5, <1>6 DEF IInv, TypeOK

LEMMA WatchSame ==
    ASSUME IInv, UNCHANGED watchVars
    PROVE  WatchInv' /\ \A u \in Users : Kept(u) \subseteq Kept(u)'
<1>1. UNCHANGED <<items, rows, dropped, writer, button, session, faults>>
  BY DEF watchVars
<1>2. WatchInv /\ session' \in Users \cup {Guest} /\ faults' \in 0..MaxFaults /\ (faults' = 0 => faults = 0)
  BY <1>1, InvFacts DEF WatchInv, WatchTypeOK
<1>3. WatchInv'
  BY <1>1, <1>2, FollowsAside
<1>. QED BY <1>1, <1>3 DEF Kept, Followed

\* What a save under way is met with.
LEMMA SaveFacts ==
    ASSUME IInv, NEW i \in DOMAIN calls
    PROVE  /\ calls[i] \in Calls /\ SaveIsKept(calls[i]) /\ calls \in Seq(Calls)
           /\ prefs \in [Users -> [disciplines : SUBSET DisciplinesFor(Fields), completed : BOOLEAN, skipped : BOOLEAN]]
           /\ session \in Users \cup {Guest} /\ Guest \notin Users
           /\ \A u \in Users : Followed(u) \subseteq Kept(u) /\ Followed(u) \subseteq Targets
BY InvFacts, FlowTypes, GuestIsNobody DEF SavesAreKept, Kept, Followed

LEMMA AnswerFacts ==
    ASSUME NEW c \in Calls,
           NEW pc \in {"prefs", "companies", "insert_companies", "roles", "insert_roles", "saved", "failed", "done"}
    PROVE  LET d == [c EXCEPT !.pc = pc, !.seen = {}] IN
           /\ d \in Calls /\ d.pc = pc /\ d.user = c.user /\ d.answers = c.answers /\ d.roles = c.roles
           /\ d.chosen = c.chosen /\ d.seen = {} /\ d.auto = c.auto /\ d.heard = c.heard
BY DEF Calls

\* A save that fails, for want of a session or of a statement.
LEMMA SaveFailed ==
    ASSUME IInv, NEW i \in DOMAIN calls, Answer(i, "failed"), calls[i].pc # "done",
           UNCHANGED <<record, tab, asked, prefs>>, WatchInv', \A u \in Users : Kept(u) \subseteq Kept(u)'
    PROVE  IInv'
<1> DEFINE c == [calls[i] EXCEPT !.pc = "failed", !.seen = {}]
<1>1. calls[i] \in Calls /\ SaveIsKept(calls[i]) /\ calls \in Seq(Calls)
  BY SaveFacts
<1>2. calls' = [calls EXCEPT ![i] = c]
  BY <1>1 DEF Answer
<1>3. c \in Calls /\ c.pc = "failed" /\ c.roles = calls[i].roles /\ c.auto = calls[i].auto
  BY <1>1, AnswerFacts
<1> HIDE DEF c
<1>4. calls'[i] = c
  BY <1>1, <1>2, <1>3, CallReplaced
<1>5. SaveIsKept(calls[i])'
  BY <1>1, <1>3, <1>4 DEF SaveIsKept
<1>6. prefs' \in [Users -> [disciplines : SUBSET DisciplinesFor(Fields), completed : BOOLEAN, skipped : BOOLEAN]]
  BY SaveFacts
<1>. QED BY <1>2, <1>3, <1>5, <1>6, OneCall

LEMMA PreferencesStored ==
    ASSUME IInv, NEW i \in DOMAIN calls, StorePreferences(i)
    PROVE  IInv'
<1> DEFINE c == calls[i]
           pc == IF c.answers.companies = {} THEN "roles" ELSE "companies"
           d == [c EXCEPT !.user = session, !.pc = pc]
           row == [disciplines |-> DisciplinesFor(c.answers.fields), completed |-> TRUE, skipped |-> FALSE]
<1>1. c \in Calls /\ SaveIsKept(c) /\ calls \in Seq(Calls) /\ c.pc = "prefs" /\ session \in Users
  BY SaveFacts DEF StorePreferences
<1>2. /\ calls' = [calls EXCEPT ![i] = d] /\ prefs' = [prefs EXCEPT ![session] = row]
      /\ UNCHANGED <<record, tab, asked>> /\ UNCHANGED watchVars
  BY <1>1 DEF StorePreferences
<1>3. pc \in {"roles", "companies"} /\ (pc = "roles" => c.answers.companies = {})
  OBVIOUS
<1> HIDE DEF pc
<1>4. /\ d \in Calls /\ d.pc = pc /\ d.user = session /\ d.answers = c.answers /\ d.roles = c.roles /\ d.auto = c.auto
  BY <1>1, <1>3 DEF Calls
<1> HIDE DEF d
<1>5. row \in [disciplines : SUBSET DisciplinesFor(Fields), completed : BOOLEAN, skipped : BOOLEAN]
  BY <1>1 DEF DisciplinesFor, Calls, Answers
<1>6. row.completed = TRUE
  OBVIOUS
<1> HIDE DEF row
<1>7. /\ prefs' \in [Users -> [disciplines : SUBSET DisciplinesFor(Fields), completed : BOOLEAN, skipped : BOOLEAN]]
      /\ \A u \in Users : prefs[u].completed => prefs'[u].completed
      /\ prefs'[session].completed
  BY <1>1, <1>2, <1>5, <1>6, SaveFacts
<1>8. WatchInv' /\ \A u \in Users : Kept(u) \subseteq Kept(u)'
  BY <1>2, WatchSame
<1>9. calls'[i] = d
  BY <1>1, <1>2, <1>4, CallReplaced
<1>10. SaveIsKept(calls[i])'
  BY <1>1, <1>2, <1>3, <1>4, <1>7, <1>9 DEF SaveIsKept
<1>. QED BY <1>1, <1>2, <1>4, <1>7, <1>8, <1>10, OneCall

LEMMA FollowsRead ==
    ASSUME IInv, NEW i \in DOMAIN calls, ReadCompanies(i) \/ ReadRoles(i)
    PROVE  IInv'
<1> DEFINE c == calls[i]
<1>1. /\ c \in Calls /\ SaveIsKept(c) /\ calls \in Seq(Calls) /\ c.pc \in {"companies", "roles"}
      /\ UNCHANGED <<record, tab, asked, prefs>> /\ UNCHANGED watchVars
  BY SaveFacts DEF ReadCompanies, ReadRoles
<1>2. c.user \in Users /\ prefs[c.user].completed
  BY <1>1 DEF SaveIsKept
<1>3. /\ WatchInv' /\ \A u \in Users : Kept(u) \subseteq Kept(u)'
      /\ prefs' \in [Users -> [disciplines : SUBSET DisciplinesFor(Fields), completed : BOOLEAN, skipped : BOOLEAN]]
      /\ Followed(c.user) \subseteq Kept(c.user) /\ Followed(c.user) \subseteq Targets
  BY <1>1, <1>2, WatchSame, SaveFacts
<1>4. CASE ReadCompanies(i)
  <2> DEFINE seen == Followed(c.user) \cap c.answers.companies
             d == [c EXCEPT !.seen = seen, !.pc = "insert_companies"]
  <2>1. calls' = [calls EXCEPT ![i] = d]
    BY <1>4 DEF ReadCompanies
  <2>2. seen \in SUBSET Targets /\ seen \subseteq Kept(c.user)
    BY <1>3
  <2> HIDE DEF seen
  <2>3. /\ d \in Calls /\ d.pc = "insert_companies" /\ d.user = c.user /\ d.seen = seen /\ d.roles = c.roles
        /\ d.auto = c.auto
    BY <1>1, <2>2 DEF Calls
  <2> HIDE DEF d
  <2>4. calls'[i] = d
    BY <1>1, <2>1, <2>3, CallReplaced
  <2>5. SaveIsKept(calls[i])'
    BY <1>1, <1>2, <1>3, <2>2, <2>3, <2>4 DEF SaveIsKept
  <2>. QED BY <1>1, <1>3, <2>1, <2>3, <2>5, OneCall
<1>5. CASE ReadRoles(i)
  <2>1. PICK gone \in SUBSET Leavers :
           calls' = [calls EXCEPT ![i].chosen = c.roles \ gone, ![i].seen = Followed(c.user) \cap (c.roles \ gone),
                       ![i].pc = IF c.roles = {} THEN "saved" ELSE IF c.roles \ gone = {} THEN "failed" ELSE "insert_roles"]
    BY <1>5 DEF ReadRoles
  <2> DEFINE chosen == c.roles \ gone
             seen == Followed(c.user) \cap chosen
             pc == IF c.roles = {} THEN "saved" ELSE IF chosen = {} THEN "failed" ELSE "insert_roles"
             d == [c EXCEPT !.chosen = chosen, !.seen = seen, !.pc = pc]
  <2>2. calls' = [calls EXCEPT ![i] = d]
    BY <2>1
  <2>3. /\ chosen \in SUBSET Roles /\ seen \in SUBSET Targets /\ seen \subseteq Kept(c.user)
        /\ pc \in {"saved", "failed", "insert_roles"} /\ (pc = "saved" => chosen = {})
        /\ c.answers.companies \subseteq Kept(c.user)
    <3>1. c.roles \in SUBSET Roles
      BY <1>1 DEF Calls
    <3>2. c.pc = "roles"
      BY <1>5 DEF ReadRoles
    <3>. QED BY <1>1, <1>3, <3>1, <3>2 DEF SaveIsKept
  <2> HIDE DEF chosen, seen, pc
  <2>4. /\ d \in Calls /\ d.pc = pc /\ d.user = c.user /\ d.seen = seen /\ d.roles = c.roles /\ d.chosen = chosen
        /\ d.auto = c.auto /\ d.answers = c.answers
    BY <1>1, <2>3 DEF Calls
  <2> HIDE DEF d
  <2>5. calls'[i] = d
    BY <1>1, <2>2, <2>4, CallReplaced
  <2>6. SaveIsKept(calls[i])'
    BY <1>1, <1>2, <1>3, <2>3, <2>4, <2>5 DEF SaveIsKept
  <2>. QED BY <1>1, <1>3, <2>2, <2>4, <2>6, OneCall
<1>. QED BY <1>4, <1>5

LEMMA FollowsStored ==
    ASSUME IInv, NEW i \in DOMAIN calls, InsertFollows(i)
    PROVE  IInv'
<1> DEFINE c == calls[i]
           roles == c.pc = "insert_roles"
           fresh == (IF roles THEN c.chosen ELSE c.answers.companies) \ c.seen
           pc == IF roles THEN "saved" ELSE "roles"
           d == [c EXCEPT !.pc = pc, !.seen = {}]
<1>1. /\ c \in Calls /\ SaveIsKept(c) /\ calls \in Seq(Calls) /\ c.pc \in {"insert_companies", "insert_roles"}
      /\ UNCHANGED <<record, tab, asked, prefs>> /\ UNCHANGED <<session, dropped, button, faults>>
  BY SaveFacts DEF InsertFollows
<1>2. c.user \in Users /\ prefs[c.user].completed /\ c.seen \subseteq Kept(c.user) /\ fresh \in SUBSET Targets
  BY <1>1 DEF SaveIsKept, Calls, Answers, Targets
<1>u. PICK u \in Users : u = c.user
  BY <1>2
<1>3. CASE CanInsert(c.user, fresh)
  <2>1. /\ Insert(c.user, fresh)
        /\ writer' = [writer EXCEPT ![c.user] = [x \in Targets |-> IF x \in fresh THEN "none" ELSE @[x]]]
        /\ Answer(i, pc)
    BY <1>3 DEF InsertFollows
  <2>2. WatchInv
    BY InvFacts
  <2> HIDE DEF fresh
  <2>3. WatchInv' /\ fresh \subseteq Followed(u)' /\ \A v \in Users : Kept(v) \subseteq Kept(v)'
    BY <1>1, <1>2, <1>u, <1>3, <2>1, <2>2, FollowsInserted
  <2>4. calls' = [calls EXCEPT ![i] = d]
    BY <1>1, <2>1 DEF Answer
  <2>5. pc \in {"saved", "roles"} /\ (pc = "saved" <=> roles)
    OBVIOUS
  <2> HIDE DEF pc
  <2>6. /\ d \in Calls /\ d.pc = pc /\ d.user = c.user /\ d.seen = {} /\ d.roles = c.roles /\ d.chosen = c.chosen
        /\ d.auto = c.auto /\ d.answers = c.answers
    BY <1>1, <2>5 DEF Calls
  <2> HIDE DEF d
  <2>7. calls'[i] = d
    BY <1>1, <2>4, <2>6, CallReplaced
  <2>8. fresh \subseteq Kept(u)' /\ c.seen \subseteq Kept(u)'
    BY <1>2, <1>u, <2>3 DEF Kept
  <2>9. c.answers.companies \subseteq Kept(u)' /\ (roles => c.chosen \subseteq Kept(u)')
    <3>1. CASE roles
      <4>1. c.answers.companies \subseteq Kept(c.user)
        BY <1>1, <3>1 DEF SaveIsKept
      <4>. QED BY <1>2, <1>u, <2>3, <2>8, <3>1, <4>1 DEF fresh
    <3>2. CASE ~roles
      BY <2>8, <3>2 DEF fresh
    <3>. QED BY <3>1, <3>2
  <2>10. SaveIsKept(calls[i])'
    <3>1. d.auto => \E a \in asked : \A r \in d.roles : Fits(a, r)
      BY <1>1, <2>6 DEF SaveIsKept
    <3>2. d.user = u /\ prefs'[u].completed /\ asked' = asked
      BY <1>1, <1>2, <1>u, <2>6
    <3>. QED BY <2>5, <2>6, <2>7, <2>9, <3>1, <3>2 DEF SaveIsKept
  <2>11. prefs' \in [Users -> [disciplines : SUBSET DisciplinesFor(Fields), completed : BOOLEAN, skipped : BOOLEAN]]
    BY <1>1, SaveFacts
  <2>. QED BY <1>1, <2>3, <2>4, <2>6, <2>10, <2>11, OneCall
<1>4. CASE ~CanInsert(c.user, fresh)
  <2>1. Answer(i, "failed") /\ UNCHANGED <<items, rows, writer>>
    BY <1>4 DEF InsertFollows
  <2>2. UNCHANGED watchVars
    BY <1>1, <2>1 DEF watchVars
  <2>. QED BY <1>1, <2>1, <2>2, WatchSame, SaveFailed
<1>. QED BY <1>3, <1>4

\* A fault under a save or its page.
LEMMA WatchFault ==
    ASSUME IInv, faults < MaxFaults, faults' = faults + 1, UNCHANGED <<session, tableVars, button>>
    PROVE  WatchInv' /\ \A u \in Users : Kept(u) \subseteq Kept(u)'
<1>1. UNCHANGED <<items, rows, dropped, writer, button, session>>
  BY DEF tableVars
<1>2. WatchInv /\ session' \in Users \cup {Guest} /\ faults' \in 0..MaxFaults /\ faults' # 0
  <2>1. faults \in 0..MaxFaults /\ MaxFaults \in Nat /\ WatchInv /\ session \in Users \cup {Guest}
    BY InvFacts, WatchConstants DEF WatchInv, WatchTypeOK
  <2>. QED BY <1>1, <2>1
<1>3. WatchInv'
  BY <1>1, <1>2, FollowsAside
<1>. QED BY <1>1, <1>3 DEF Kept, Followed

LEMMA SaveStopped ==
    ASSUME IInv, NEW i \in DOMAIN calls, Unauthorized(i) \/ StatementFails(i)
    PROVE  IInv'
<1>1. CASE Unauthorized(i)
  BY <1>1, WatchSame, SaveFailed DEF Unauthorized
<1>2. CASE StatementFails(i)
  BY <1>2, WatchFault, SaveFailed DEF StatementFails
<1>. QED BY <1>1, <1>2

LEMMA Replied ==
    ASSUME IInv, NEW i \in DOMAIN calls, Reply(i)
    PROVE  IInv'
<1> DEFINE c == calls[i]
           ok == c.pc = "saved"
           waiting == {t \in Tabs : tab[t].on /\ tab[t].call = i}
           told(t) == [tab[t] EXCEPT !.call = 0, !.saved = IF ok THEN i ELSE @]
           d == IF ok /\ waiting # {} THEN [c EXCEPT !.pc = "done"] ELSE Over
<1>1. /\ c \in Calls /\ SaveIsKept(c) /\ calls \in Seq(Calls) /\ c.pc \in {"saved", "failed"}
      /\ UNCHANGED <<prefs, asked>> /\ UNCHANGED watchVars
      /\ calls' = [calls EXCEPT ![i] = d]
      /\ record' \in {None, record}
      /\ tab' = [t \in Tabs |-> IF t \notin waiting THEN tab[t] ELSE told(t)]
  BY SaveFacts DEF Reply
<1>2. /\ d \in Calls /\ d.pc = "done" /\ (d.auto => c.auto) /\ (d.auto => d.roles = c.roles)
      /\ ok /\ waiting # {} => d.user = c.user /\ d.chosen = c.chosen /\ d.answers = c.answers
  <2>1. Over \in Calls /\ Over.pc = "done" /\ Over.auto = FALSE
    <3>1. NoAnswers \in Answers
      BY InvFacts, FlowTypes
    <3>. QED BY <3>1 DEF Over, NewCall, Calls
  <2> DEFINE e == [c EXCEPT !.pc = "done"]
  <2>2. /\ e \in Calls /\ e.pc = "done" /\ e.auto = c.auto /\ e.roles = c.roles /\ e.user = c.user
        /\ e.chosen = c.chosen /\ e.answers = c.answers
    BY <1>1 DEF Calls
  <2> HIDE DEF e
  <2>3. d = IF ok /\ waiting # {} THEN e ELSE Over
    BY DEF e
  <2> HIDE DEF d
  <2>. QED BY <2>1, <2>2, <2>3
<1> HIDE DEF d
<1>3. /\ calls' \in Seq(Calls) /\ Len(calls') = Len(calls) /\ DOMAIN calls' = DOMAIN calls /\ calls'[i] = d
      /\ \A j \in DOMAIN calls : j # i => calls'[j] = calls[j]
  BY <1>1, <1>2, CallReplaced
<1>4. /\ WatchInv' /\ WatchTypeOK' /\ \A u \in Users : Kept(u) \subseteq Kept(u)'
  BY <1>1, WatchSame DEF WatchInv
<1>5. i \in 1..Len(calls) /\ i \in Nat /\ Len(calls) \in Nat /\ DOMAIN calls = 1..Len(calls)
  <2>1. calls \in Seq(Calls)
    BY SaveFacts
  <2>2. DOMAIN calls = 1..Len(calls) /\ Len(calls) \in Nat
    BY <2>1
  <2>. QED BY <2>2
<1>6. ASSUME NEW t \in waiting
      PROVE  /\ told(t) \in OpenPages /\ told(t).url = tab[t].url /\ told(t).nav = tab[t].nav
             /\ told(t).payoff = tab[t].payoff /\ told(t).auto = tab[t].auto /\ told(t).call = 0
             /\ told(t).saved = (IF ok THEN i ELSE tab[t].saved)
  <2>1. tab[t] \in OpenPages /\ t \in Tabs
    BY InvFacts, FlowTypes
  <2> DEFINE n == IF ok THEN i ELSE tab[t].saved
  <2>2. n \in Nat
    BY <1>5, <2>1 DEF OpenPages
  <2>3. told(t) = [tab[t] EXCEPT !.call = 0, !.saved = n]
    BY <2>1 DEF OpenPages
  <2> HIDE DEF n, told
  <2> DEFINE p == tab[t]
             q == told(t)
  <2>5. p \in OpenPages /\ 0 \in Nat /\ q = [p EXCEPT !.call = 0, !.saved = n]
    BY <2>1, <2>3
  <2> HIDE DEF p, q
  <2>6. q \in OpenPages
    BY <2>2, <2>5 DEF OpenPages
  <2>7. /\ q.url = p.url /\ q.nav = p.nav /\ q.payoff = p.payoff /\ q.auto = p.auto /\ q.call = 0 /\ q.saved = n
    BY <2>5 DEF OpenPages
  <2>4. /\ told(t) \in OpenPages /\ told(t).url = tab[t].url /\ told(t).nav = tab[t].nav
        /\ told(t).payoff = tab[t].payoff /\ told(t).auto = tab[t].auto /\ told(t).call = 0
        /\ told(t).saved = n
    BY <2>6, <2>7 DEF p, q
  <2>. QED BY <2>4 DEF n
<1> HIDE DEF told
<1>7. \A t \in Tabs : tab'[t] = IF t \in waiting THEN told(t) ELSE tab[t]
  BY <1>1
<1>8. FlowTypeOK'
  <2>1. tab' \in [Tabs -> OpenPages \cup {NoPage}]
    <3>1. tab \in [Tabs -> OpenPages \cup {NoPage}]
      BY InvFacts DEF FlowTypeOK
    <3>. QED BY <1>1, <1>6, <1>7, <3>1
  <2>2. ASSUME NEW t \in Tabs, tab'[t].on
        PROVE  tab'[t].call \in 0..Len(calls') /\ tab'[t].saved \in 0..Len(calls')
    <3>1. CASE t \in waiting
      <4>1. tab[t].saved \in 0..Len(calls)
        BY <3>1, InvFacts, FlowTypes
      <4>. QED BY <1>3, <1>5, <1>6, <1>7, <3>1, <4>1
    <3>2. CASE t \notin waiting
      BY <1>3, <1>7, <2>2, <3>2, InvFacts, FlowTypes
    <3>. QED BY <3>1, <3>2
  <2>. QED BY <1>1, <1>3, <2>1, <2>2, InvFacts DEF FlowTypeOK
<1>9. SavesAreKept'
  <2>1. ok => Settled(c)
    <3>1. CASE ok
      BY <1>1, <3>1 DEF SaveIsKept, Settled
    <3>. QED BY <3>1
  <2>2. ASSUME NEW t \in Tabs, tab'[t].on, tab'[t].saved # 0
        PROVE  \/ tab[t].on /\ tab'[t].saved = tab[t].saved /\ calls'[tab[t].saved] = calls[tab[t].saved]
               \/ calls'[tab'[t].saved].pc = "done" /\ Settled(calls[tab[t].saved])'
    <3>1. CASE t \in waiting /\ ok
      <4>1. tab'[t].saved = i /\ Settled(c)
        BY <1>6, <1>7, <2>1, <3>1
      <4>2. d.user = c.user /\ d.chosen = c.chosen /\ d.answers = c.answers
        BY <1>2, <3>1
      <4>3. Settled(calls[tab[t].saved])'
        BY <1>1, <1>3, <1>4, <4>1, <4>2 DEF Settled
      <4>. QED BY <1>2, <1>3, <4>1, <4>3
    <3>2. CASE ~(t \in waiting /\ ok)
      <4>1. tab[t].on /\ tab'[t].saved = tab[t].saved
        BY <1>6, <1>7, <2>2, <3>2
      <4>2. tab[t].saved \in DOMAIN calls /\ calls[tab[t].saved].pc = "done"
        BY <1>5, <2>2, <4>1, InvFacts, FlowTypes DEF SavesAreKept
      <4>3. tab[t].saved # i
        BY <1>1, <4>2
      <4>. QED BY <1>3, <4>1, <4>2, <4>3
    <3>. QED BY <3>1, <3>2
  <2>3. SaveIsKept(calls[i])'
    <3>1. c.auto => \E a \in asked : \A r \in c.roles : Fits(a, r)
      BY <1>1 DEF SaveIsKept
    <3>2. calls'[i] = d /\ asked' = asked
      BY <1>1, <1>3
    <3>. QED BY <1>2, <3>1, <3>2 DEF SaveIsKept
  <2>4. \A j \in DOMAIN calls' : (j \in DOMAIN calls /\ calls'[j] = calls[j]) \/ SaveIsKept(calls[j])'
    BY <1>3, <2>3
  <2>5. SavesAreKept /\ asked' = asked /\ prefs' = prefs
    BY <1>1, InvFacts
  <2>. QED BY <1>4, <2>2, <2>4, <2>5, SavesStay
<1>10. AskedAllAlong'
  <2>1. ASSUME NEW t \in Tabs PROVE PageIsAsked(tab[t])'
    <3>1. CASE t \in waiting
      <4>1. PageIsAsked(tab[t]) /\ tab[t].on
        BY <3>1, InvFacts
      <4>. QED BY <1>1, <1>6, <1>7, <3>1, <4>1 DEF PageIsAsked, UrlIsAsked
    <3>2. CASE t \notin waiting
      <4>1. PageIsAsked(tab[t]) /\ tab'[t] = tab[t]
        BY <1>7, <3>2, InvFacts
      <4>. QED BY <1>1, <4>1 DEF PageIsAsked, UrlIsAsked
    <3>. QED BY <3>1, <3>2
  <2>2. ShouldCarryOver' => record'.answers \in asked'
    BY <1>1, InvFacts DEF ShouldCarryOver
  <2>. QED BY <2>1, <2>2 DEF AskedAllAlong
<1>. QED BY <1>4, <1>8, <1>9, <1>10 DEF IInv, TypeOK

LEMMA ReplyLost ==
    ASSUME IInv, NEW t \in Tabs, LoseReply(t)
    PROVE  IInv'
<1> DEFINE i == tab[t].call
           c == calls[i]
           d == [c EXCEPT !.heard = FALSE]
           p == [tab[t] EXCEPT !.call = 0]
<1>1. /\ tab[t].on /\ i # 0 /\ calls \in Seq(Calls) /\ tab[t] \in OpenPages /\ i \in 0..Len(calls)
      /\ UNCHANGED <<record, prefs, asked>>
  BY InvFacts, FlowTypes DEF LoseReply
<1>2. i \in DOMAIN calls /\ Len(calls) \in Nat /\ DOMAIN calls = 1..Len(calls)
  BY <1>1
<1>3. c \in Calls /\ SaveIsKept(c)
  BY <1>2, SaveFacts
<1>4. calls' = [calls EXCEPT ![i] = d] /\ tab' = [tab EXCEPT ![t] = p]
  BY <1>1 DEF LoseReply
<1>5. /\ d \in Calls /\ d.pc = c.pc /\ d.user = c.user /\ d.answers = c.answers /\ d.roles = c.roles
      /\ d.chosen = c.chosen /\ d.seen = c.seen /\ d.auto = c.auto
  BY <1>3 DEF Calls
<1>6. /\ p \in OpenPages /\ p.url = tab[t].url /\ p.nav = tab[t].nav /\ p.payoff = tab[t].payoff
      /\ p.auto = tab[t].auto /\ p.call = 0 /\ p.saved = tab[t].saved
  BY <1>1 DEF OpenPages
<1> HIDE DEF c, d, p, i
<1>7. /\ calls' \in Seq(Calls) /\ Len(calls') = Len(calls) /\ DOMAIN calls' = DOMAIN calls /\ calls'[i] = d
      /\ \A j \in DOMAIN calls : j # i => calls'[j] = calls[j]
  BY <1>1, <1>2, <1>4, <1>5, CallReplaced
<1>8. /\ tab \in [Tabs -> OpenPages \cup {NoPage}] /\ tab' \in [Tabs -> OpenPages \cup {NoPage}]
      /\ tab'[t] = p /\ \A s \in Tabs \ {t} : tab'[s] = tab[s]
  <2>1. tab \in [Tabs -> OpenPages \cup {NoPage}]
    BY InvFacts DEF FlowTypeOK
  <2>. QED BY <1>4, <1>6, <2>1
<1>9. WatchInv' /\ WatchTypeOK' /\ \A u \in Users : Kept(u) \subseteq Kept(u)'
  BY WatchFault DEF LoseReply, WatchInv
<1>10. ASSUME NEW s \in Tabs, tab'[s].on
       PROVE  /\ tab[s].on /\ tab'[s].saved = tab[s].saved /\ tab[s].saved \in 0..Len(calls)
              /\ tab'[s].call \in 0..Len(calls)
  BY <1>1, <1>2, <1>6, <1>8, <1>10, InvFacts, FlowTypes
<1>11. FlowTypeOK'
  BY <1>1, <1>7, <1>8, <1>10, InvFacts DEF FlowTypeOK
<1>12. SavesAreKept'
  <2> DEFINE Carries(j) == /\ calls'[j].pc = calls[j].pc /\ calls'[j].user = calls[j].user
                           /\ calls'[j].answers = calls[j].answers /\ calls'[j].roles = calls[j].roles
                           /\ calls'[j].chosen = calls[j].chosen /\ calls'[j].seen = calls[j].seen
                           /\ calls'[j].auto = calls[j].auto
  <2>1. \A j \in DOMAIN calls : Carries(j)
    BY <1>2, <1>5, <1>7 DEF c
  <2>2. ASSUME NEW j \in DOMAIN calls' PROVE SaveIsKept(calls[j])'
    <3>1. SaveIsKept(calls[j]) /\ Carries(j) /\ prefs' = prefs /\ asked' = asked
      BY <1>1, <1>7, <2>1, SaveFacts
    <3>2. calls[j].user \in Users => Kept(calls[j].user) \subseteq Kept(calls[j].user)'
      <4>1. PICK u : u = calls[j].user
        OBVIOUS
      <4>2. u = calls'[j].user
        BY <3>1, <4>1
      <4>. QED BY <1>9, <4>1, <4>2
    <3>. QED BY <3>1, <3>2 DEF SaveIsKept
  <2>3. ASSUME NEW s \in Tabs, tab'[s].on, tab'[s].saved # 0
        PROVE  calls'[tab'[s].saved].pc = "done" /\ Settled(calls[tab[s].saved])'
    <3>1. PICK j : j = tab[s].saved
      OBVIOUS
    <3>2. j = tab'[s].saved /\ j \in DOMAIN calls
      BY <1>2, <1>10, <2>3, <3>1
    <3>3. calls[j].pc = "done" /\ Settled(calls[j]) /\ prefs' = prefs
      BY <1>1, <1>10, <2>3, <3>1, InvFacts DEF SavesAreKept
    <3>4. calls'[j].pc = "done" /\ Settled(calls[j])'
      BY <1>9, <2>1, <3>2, <3>3 DEF Settled
    <3>. QED BY <3>2, <3>4
  <2>. QED BY <2>2, <2>3 DEF SavesAreKept
<1>13. AskedAllAlong'
  <2>1. ASSUME NEW s \in Tabs PROVE PageIsAsked(tab[s])'
    <3>1. PageIsAsked(tab[s]) /\ PageIsAsked(tab[t]) /\ asked' = asked
      BY <1>1, InvFacts
    <3>2. CASE s = t
      BY <1>1, <1>6, <1>8, <3>1, <3>2 DEF PageIsAsked, UrlIsAsked
    <3>3. CASE s # t
      BY <1>8, <3>1, <3>3 DEF PageIsAsked, UrlIsAsked
    <3>. QED BY <3>2, <3>3
  <2>2. ShouldCarryOver' => record'.answers \in asked'
    BY <1>1, InvFacts DEF ShouldCarryOver
  <2>. QED BY <2>1, <2>2 DEF AskedAllAlong
<1>. QED BY <1>9, <1>11, <1>12, <1>13 DEF IInv, TypeOK

-----------------------------------------------------------------------------
(* The other steps, and the theorems. *)

\* Follow buttons, beside the first run.
LEMMA ButtonStep ==
    ASSUME IInv, NEW t \in Tabs, WatchNext(t), UNCHANGED flowVars
    PROVE  IInv'
<1>1. WatchInv' /\ WatchTypeOK' /\ \A u \in Users : Kept(u) \subseteq Kept(u)'
  BY InvFacts, FollowsStep, FollowsAreKept DEF WatchInv
<1>2. UNCHANGED <<record, tab, calls, prefs, asked>>
  BY DEF flowVars
<1>3. FlowTypeOK'
  BY <1>2, InvFacts DEF FlowTypeOK
<1>4. SavesAreKept'
  <2>1. SavesAreKept
    BY InvFacts
  <2>. QED BY <1>1, <1>2, <2>1, SavesStay
<1>5. AskedAllAlong'
  BY <1>2, InvFacts DEF AskedAllAlong, PageIsAsked, UrlIsAsked, ShouldCarryOver
<1>. QED BY <1>1, <1>3, <1>4, <1>5 DEF IInv, TypeOK

LEMMA CookieStep ==
    ASSUME IInv, NEW u \in Users \cup {Guest}, Cookie(u)
    PROVE  IInv'
<1>1. /\ UNCHANGED <<items, rows, dropped, writer, button>> /\ faults' = faults /\ session' = u
      /\ UNCHANGED <<record, tab, calls, prefs, asked>>
  BY DEF Cookie, tableVars
<1>2. WatchInv' /\ WatchTypeOK'
  <2>1. WatchInv /\ faults \in 0..MaxFaults
    BY InvFacts DEF WatchInv, WatchTypeOK
  <2>. QED BY <1>1, <2>1, FollowsAside DEF WatchInv
<1>3. \A v \in Users : Kept(v) \subseteq Kept(v)'
  BY <1>1 DEF Kept, Followed
<1>4. FlowTypeOK'
  BY <1>1, InvFacts DEF FlowTypeOK
<1>5. SavesAreKept'
  <2>1. SavesAreKept
    BY InvFacts
  <2>. QED BY <1>1, <1>3, <2>1, SavesStay
<1>6. AskedAllAlong'
  BY <1>1, InvFacts DEF AskedAllAlong, PageIsAsked, UrlIsAsked, ShouldCarryOver
<1>. QED BY <1>2, <1>4, <1>5, <1>6 DEF IInv, TypeOK

LEMMA Stuttered == ASSUME IInv, UNCHANGED vars PROVE IInv'
<1>1. UNCHANGED <<record, tab, calls, prefs, asked>> /\ UNCHANGED watchVars
  BY DEF vars, flowVars
<1>2. WatchInv' /\ WatchTypeOK' /\ \A v \in Users : Kept(v) \subseteq Kept(v)'
  BY <1>1, WatchSame DEF WatchInv
<1>3. FlowTypeOK'
  BY <1>1, InvFacts DEF FlowTypeOK
<1>4. SavesAreKept'
  <2>1. SavesAreKept
    BY InvFacts
  <2>. QED BY <1>1, <1>2, <2>1, SavesStay
<1>5. AskedAllAlong'
  BY <1>1, InvFacts DEF AskedAllAlong, PageIsAsked, UrlIsAsked, ShouldCarryOver
<1>. QED BY <1>2, <1>3, <1>4, <1>5 DEF IInv, TypeOK

LEMMA Starts == Init => IInv
<1> SUFFICES ASSUME Init PROVE IInv
  OBVIOUS
<1>1. /\ MaxRows \in Nat /\ MaxFaults \in Nat /\ 0 \in 0..MaxRows /\ 0 \in 0..MaxFaults
  BY WatchConstants
<1>2. WatchTypeOK
  <2>1. NoButton \in Buttons
    BY <1>1 DEF NoButton, Buttons
  <2>. QED BY <1>1, <2>1 DEF Init, WatchInit, WatchTypeOK
<1>3. IdsAreUnique
  BY DEF Init, WatchInit, IdsAreUnique
<1>4. \A t \in Tabs : HoldsItsOwn(button[t], t) /\ \A u \in Users, r \in Roles : Knows(button[t], t, u, r)
  <2>1. \A t \in Tabs, u \in Users, x \in Targets : writer[u][x] # t
    BY NoneIsNothing DEF Init, WatchInit
  <2>2. \A t \in Tabs : button[t] = NoButton
    BY DEF Init, WatchInit
  <2>3. OfRole(0, "none")
    BY DEF Init, WatchInit, OfRole
  <2>4. /\ NoButton.role = "none" /\ NoButton.item = 0 /\ NoButton.found = 0 /\ NoButton.following = FALSE
        /\ NoButton.call = "idle"
    BY DEF NoButton
  <2>5. \A t \in Tabs : HoldsItsOwn(button[t], t)
    BY <2>1, <2>2, <2>3, <2>4 DEF HoldsItsOwn
  <2>6. \A t \in Tabs, u \in Users, r \in Roles : Knows(button[t], t, u, r)
    BY <2>1 DEF Knows, Targets
  <2>. QED BY <2>5, <2>6
<1>5. WatchInv
  BY <1>2, <1>3, <1>4 DEF WatchInv, ButtonsHoldTheirOwn, LastWriterAtWork
<1>6. NoPage.on = FALSE /\ \A t \in Tabs : tab[t] = NoPage
  BY DEF NoPage, Init
<1>7. FlowTypeOK
  <2>1. calls \in Seq(Calls)
    BY DEF Init
  <2>2. prefs \in [Users -> [disciplines : SUBSET DisciplinesFor(Fields), completed : BOOLEAN, skipped : BOOLEAN]]
    BY DEF Init
  <2>. QED BY <1>6, <2>1, <2>2 DEF Init, FlowTypeOK
<1>8. SavesAreKept
  BY <1>6 DEF Init, SavesAreKept
<1>9. AskedAllAlong
  BY <1>6 DEF Init, AskedAllAlong, ShouldCarryOver, PageIsAsked
<1>. QED BY <1>2, <1>5, <1>7, <1>8, <1>9 DEF IInv, TypeOK

LEMMA Steps == IInv /\ [Next]_vars => IInv'
<1> SUFFICES ASSUME IInv, [Next]_vars PROVE IInv'
  OBVIOUS
<1>1. ASSUME NEW t \in Tabs,
             \/ Open(t) \/ Land(t) \/ Next1(t) \/ Back(t) \/ SaveAsGuest(t) \/ Save(t) \/ AutoSave(t)
             \/ Skip(t) \/ Leave(t) \/ LoseReply(t)
             \/ \E v \in LookingFor \cup {None} : Choose(t, v)
             \/ \E f \in Fields : ToggleField(t, f)
             \/ \E c \in Companies : ToggleCompany(t, c)
      PROVE  IInv'
  BY <1>1, Opened, Landed, Stepped, PageLeft, SavedByPage, ReplyLost, AnswerEdited
<1>2. ASSUME NEW t \in Tabs, WatchNext(t), UNCHANGED flowVars PROVE IInv'
  BY <1>2, ButtonStep
<1>3. ASSUME NEW i \in DOMAIN calls, Route(i) \/ Reply(i) \/ StatementFails(i) PROVE IInv'
  BY <1>3, SaveStopped, PreferencesStored, FollowsRead, FollowsStored, Replied DEF Route
<1>4. ASSUME NEW u \in Users \cup {Guest}, Cookie(u) PROVE IInv'
  BY <1>4, CookieStep
<1>5. CASE UNCHANGED vars
  BY <1>5, Stuttered
<1>. QED BY <1>1, <1>2, <1>3, <1>4, <1>5 DEF Next

LEMMA Holds == Spec => []IInv
BY Starts, Steps, PTL DEF Spec

\* Values of every variable of the follows, the pages and the saves, and what
\* they point to.
THEOREM TypeCorrect == Spec => []TypeOK
BY Holds, PTL DEF IInv

\* Whatever other saves, follow buttons and tabs do, and however often
\* statements fail: a page that says "saved" speaks of follows that are there
\* or were dropped by the user, and the tab that wrote a row last shows it as
\* it is while no reply was lost (app/api/onboarding, app/api/personalization,
\* the follow button).
THEOREM FollowsStayTrue == Spec => []FollowsAreTrue
<1>1. IInv => FollowsAreTrue
  <2> SUFFICES ASSUME IInv PROVE SavedIsWatched /\ LastWriterKnows
    BY DEF FollowsAreTrue
  <2>1. SavedIsWatched
    BY InvFacts DEF SavesAreKept, Settled, Kept, SavedIsWatched
  <2>2. ASSUME NEW t \in Tabs, NEW u \in Users, NEW r \in Roles, faults = 0, writer[u][r] = t, ~button[t].other,
               button[t].role = r, button[t].user = u, button[t].call = "idle"
        PROVE  (button[t].following <=> items[u][r] # 0) /\ button[t].item = items[u][r]
    <3>1. HoldsItsOwn(button[t], t) /\ Knows(button[t], t, u, r)
      BY <2>2, InvFacts, AtWork
    <3>. QED BY <2>2, <3>1 DEF HoldsItsOwn, Knows
  <2>. QED BY <2>1, <2>2 DEF LastWriterKnows
<1>. QED BY <1>1, Holds, PTL

\* Every program an automatic save follows fits answers a guest of this
\* browser chose to save, however pages, tabs and accounts change between the
\* choice and the save (the save=1 URL and the timer of onboarding-page.tsx).
THEOREM AutoSavesAreAsked == Spec => []AutoSavesAskedPrograms
<1>1. IInv => AutoSavesAskedPrograms
  BY InvFacts DEF SavesAreKept, SaveIsKept, AutoSavesAskedPrograms
<1>. QED BY <1>1, Holds, PTL

\* The step behind AskIsKept.
AskKeptBy ==
    ShouldCarryOver /\ ~ShouldCarryOver'
       => \/ \E i \in DOMAIN calls : calls[i].pc = "saved" /\ calls'[i].pc = "done"
          \/ \E t \in Tabs : /\ tab'[t] # tab[t] /\ tab'[t].on
                            /\ tab'[t].user = Guest /\ tab'[t].edited # None /\ ~tab'[t].url.ready

\* A page's render or answer that unmarks the record.
LEMMA PageUnmarks ==
    ASSUME IInv, ShouldCarryOver, ~ShouldCarryOver', NEW t \in Tabs, NEW p \in OpenPages, NEW q,
           record' = GuestRecord(p), tab' = [tab EXCEPT ![t] = q], q # tab[t],
           q.on = TRUE, q.user = p.user, q.edited = p.edited, q.url = p.url
    PROVE  AskKeptBy
<1>1. record' # record
  BY DEF ShouldCarryOver
<1>2. p.user = Guest /\ p.edited # None /\ ~p.url.ready
  BY <1>1, InvFacts, RecordFacts
<1>3. tab'[t] = q
  BY InvFacts DEF FlowTypeOK
<1>. QED BY <1>2, <1>3 DEF AskKeptBy

LEMMA EditUnmarks ==
    ASSUME IInv, ShouldCarryOver, ~ShouldCarryOver', NEW t \in Tabs, NEW a \in Answers, NEW local \in 1..3,
           tab[t].on, Edit(t, a, local), tab[t].edited # a \/ tab[t].local # local
    PROVE  AskKeptBy
<1> DEFINE p == [tab[t] EXCEPT !.edited = a, !.local = local]
<1>1. tab[t] \in OpenPages
  BY InvFacts, FlowTypes
<1>2. tab' = [tab EXCEPT ![t] = p] /\ record' = GuestRecord(p)
  BY DEF Edit
<1>3. p \in OpenPages /\ p.on = TRUE /\ p.edited = a /\ p.local = local
  BY <1>1 DEF OpenPages
<1>4. p # tab[t]
  BY <1>3
<1> HIDE DEF p
<1>. QED BY <1>2, <1>3, <1>4, PageUnmarks

LEMMA AskStep == IInv /\ [Next]_vars => AskKeptBy
<1> SUFFICES ASSUME IInv, [Next]_vars, ShouldCarryOver, ~ShouldCarryOver' PROVE AskKeptBy
  BY DEF AskKeptBy
<1>1. record' # record
  BY DEF ShouldCarryOver
<1>2. ASSUME NEW t \in Tabs, Open(t) PROVE AskKeptBy
  <2>1. PICK url \in Urls : Arrive(t, url)
    <3>1. Plain \in Urls
      BY InvFacts, FlowTypes, UrlFacts DEF Plain
    <3>2. HasGuestAnswers => Url(TRUE, FALSE, record.answers) \in Urls
      BY InvFacts, FlowTypes, UrlFacts
    <3>3. \A a \in Links : Url(FALSE, FALSE, a) \in Urls
      BY UrlFacts, LinksAreAnswers
    <3>. QED BY <1>2, <3>1, <3>2, <3>3 DEF Open
  <2>2. Rendered(Fresh, url) \in OpenPages /\ Rendered(Fresh, url).edited = None
    <3>1. Fresh \in OpenPages /\ Fresh.edited = None
      <4>1. Plain \in Urls
        BY UrlFacts, InvFacts, FlowTypes DEF Plain
      <4>. QED BY <4>1, InvFacts, FlowTypes DEF Fresh, OpenPages
    <3>. QED BY <3>1, InvFacts, RenderedFacts
  <2>3. record' = GuestRecord(Rendered(Fresh, url))
    BY <2>1 DEF Arrive
  <2>. QED BY <1>1, <2>2, <2>3, InvFacts, RecordFacts
<1>3. ASSUME NEW t \in Tabs, Land(t) PROVE AskKeptBy
  <2> DEFINE p == Rendered(tab[t], tab[t].nav)
             q == AutoArmed(p)
  <2>1. /\ tab[t].on /\ tab[t].nav # None /\ tab' = [tab EXCEPT ![t] = q] /\ record' = GuestRecord(p)
    BY <1>3 DEF Land
  <2>2. tab[t] \in OpenPages /\ tab[t].nav \in Urls
    BY <2>1, InvFacts, FlowTypes DEF OpenPages
  <2>3. p \in OpenPages /\ p.nav = None
    BY <2>2, InvFacts, RenderedFacts
  <2> HIDE DEF p
  <2>4. q.on = TRUE /\ q.url = p.url /\ q.nav = None /\ q.user = p.user /\ q.edited = p.edited
    BY <2>3, ArmedFacts
  <2> HIDE DEF q
  <2>5. q # tab[t]
    BY <2>1, <2>4
  <2>. QED BY <2>1, <2>3, <2>4, <2>5, PageUnmarks
<1>4. ASSUME NEW t \in Tabs, NEW v \in LookingFor \cup {None}, Choose(t, v) PROVE AskKeptBy
  <2>1. tab[t].on /\ Step(tab[t]) = 1
    BY <1>4, ControlFacts DEF Choose
  <2>2. tab[t].local # 2 /\ 2 \in 1..3
    BY <2>1 DEF Step
  <2>. QED BY <1>4, <2>1, <2>2, EditTypes, EditUnmarks DEF Choose
<1>5. ASSUME NEW t \in Tabs, NEW f \in Fields, ToggleField(t, f) PROVE AskKeptBy
  <2> DEFINE a == AnswersShown(tab[t])
             b == [a EXCEPT !.fields = Flip(@, f)]
  <2>1. tab[t].on /\ Edit(t, b, tab[t].local)
    BY <1>5, ControlFacts DEF ToggleField
  <2>2. a \in Answers /\ b \in Answers /\ Flip(a.fields, f) # a.fields /\ tab[t].local \in 1..3
    BY <2>1, EditTypes
  <2>3. b.fields # a.fields
    BY <2>2 DEF Answers
  <2>4. tab[t].edited # b
    BY <2>2, <2>3, NoneIsNoValue DEF AnswersShown
  <2> HIDE DEF b
  <2>. QED BY <2>1, <2>2, <2>4, EditUnmarks
<1>6. ASSUME NEW t \in Tabs, NEW c \in Companies, ToggleCompany(t, c) PROVE AskKeptBy
  <2> DEFINE a == AnswersShown(tab[t])
             b == [a EXCEPT !.companies = Flip(@, c)]
  <2>1. tab[t].on /\ Edit(t, b, tab[t].local)
    BY <1>6, ControlFacts DEF ToggleCompany
  <2>2. a \in Answers /\ b \in Answers /\ Flip(a.companies, c) # a.companies /\ tab[t].local \in 1..3
    BY <2>1, EditTypes
  <2>3. b.companies # a.companies
    BY <2>2 DEF Answers
  <2>4. tab[t].edited # b
    BY <2>2, <2>3, NoneIsNoValue DEF AnswersShown
  <2> HIDE DEF b
  <2>. QED BY <2>1, <2>2, <2>4, EditUnmarks
<1>7. ASSUME NEW t \in Tabs, SaveAsGuest(t) PROVE FALSE
  <2> DEFINE a == AnswersShown(tab[t])
  <2>1. a \in Answers /\ record' = ReachedPayoff(a, TRUE)
    <3>1. tab[t].on
      BY <1>7, ControlFacts DEF SaveAsGuest
    <3>. QED BY <1>7, <3>1, InvFacts, FlowTypes, ShownType DEF SaveAsGuest
  <2>2. record' \in Records /\ record'.pending
    BY <2>1 DEF ReachedPayoff, Records
  <2>. QED BY <2>2, NoneIsNoValue DEF ShouldCarryOver
<1>8. ASSUME NEW i \in DOMAIN calls, Reply(i) PROVE AskKeptBy
  <2> DEFINE ok == calls[i].pc = "saved"
             waiting == {t \in Tabs : tab[t].on /\ tab[t].call = i}
             d == IF ok /\ waiting # {} THEN [calls[i] EXCEPT !.pc = "done"] ELSE Over
  <2>1. /\ calls \in Seq(Calls) /\ calls[i] \in Calls /\ calls' = [calls EXCEPT ![i] = d] /\ ok
    BY <1>1, <1>8, SaveFacts DEF Reply
  <2>2. d.pc = "done"
    BY <2>1 DEF Over, NewCall, Calls
  <2> HIDE DEF d
  <2>3. calls'[i] = d
    BY <2>1
  <2>. QED BY <2>1, <2>2, <2>3 DEF AskKeptBy
<1>9. ASSUME NEW t \in Tabs, \/ Next1(t) \/ Back(t) \/ Save(t) \/ AutoSave(t) \/ Skip(t) \/ Leave(t) \/ LoseReply(t)
      PROVE  FALSE
  BY <1>1, <1>9 DEF Next1, Back, Save, AutoSave, Send, Skip, Leave, LoseReply
<1>10. ASSUME NEW i \in DOMAIN calls, Route(i) \/ StatementFails(i) PROVE FALSE
  BY <1>1, <1>10 DEF Route, StatementFails, Unauthorized, StorePreferences, ReadCompanies, ReadRoles, InsertFollows
<1>11. ASSUME UNCHANGED flowVars \/ UNCHANGED vars \/ (\E u \in Users \cup {Guest} : Cookie(u)) PROVE FALSE
  BY <1>1, <1>11 DEF flowVars, vars, Cookie
<1>. QED BY <1>2, <1>3, <1>4, <1>5, <1>6, <1>7, <1>8, <1>9, <1>10, <1>11 DEF Next

\* A guest's "save" is not forgotten: only a save answered as stored, or a
\* guest's page that comes to a question with answers of its own, unmarks the
\* record, in every tab and whatever fails (guest-onboarding.ts and the
\* effects of onboarding-page.tsx).
THEOREM AskStays == Spec => AskIsKept
<1>1. IInv /\ [Next]_vars => [AskKeptBy]_vars
  BY AskStep
<1>2. Spec => [][AskKeptBy]_vars
  BY <1>1, Holds, PTL DEF Spec
<1>. QED BY <1>2 DEF AskIsKept, AskKeptBy

=============================================================================
