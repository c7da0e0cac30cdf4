---------------------------- MODULE Watchlist ----------------------------
(***************************************************************************)
(* A user's follows (watchlist_items) as the personalization route writes  *)
(* them, and the follow button of a role page that asks it to.  The        *)
(* unique index per target makes the table a function from targets to row  *)
(* ids; a statement that would insert a second row fails as a whole.       *)
(* Several tabs of one browser show buttons for the same role.             *)
(***************************************************************************)
EXTENDS Naturals, FiniteSets, Functions

CONSTANTS
    Tabs,       \* tabs of one browser
    Users,      \* accounts somebody signs in to
    Guest,      \* the session of nobody
    Companies,
    Roles,
    Shown,      \* bound: the roles whose pages are opened, one a tab
    MaxRows,    \* bound: rows ever inserted
    MaxFaults   \* bound: statements that fail and replies that are lost

Targets == Companies \cup Roles

ASSUME GuestIsNobody == Guest \notin Users
ASSUME NoneIsNothing == "none" \notin Tabs \cup Targets
ASSUME WatchConstants == /\ IsFiniteSet(Companies) /\ IsFiniteSet(Roles) /\ Shown \subseteq Roles
                         /\ MaxRows \in Nat /\ MaxFaults \in Nat

VARIABLES
    session,    \* the user the browser's cookies name, or Guest
    items,      \* items[u][x]: the id of u's row for target x, 0 for none
    rows,       \* ids handed out so far
    dropped,    \* history: dropped[u], targets a row of which was deleted
    writer,     \* history: writer[u][x], the tab whose button last wrote x's row
    button,     \* the follow button each tab shows; other is history: it acted for
                \* another account than the one its page was rendered for
    faults

tableVars == <<items, rows, dropped, writer>>
watchVars == <<session, items, rows, dropped, writer, button, faults>>

NoButton == [role |-> "none", user |-> Guest, following |-> FALSE, item |-> 0,
             error |-> FALSE, call |-> "idle", by |-> Guest, found |-> 0, other |-> FALSE]

Followed(u) == {x \in Targets : items[u][x] # 0}

\* Guest or user whose rows a page reads: the session at the render.
Watching(u, r) == u # Guest /\ items[u][r] # 0
RowOf(u, r) == IF u = Guest THEN 0 ELSE items[u][r]

\* One INSERT statement: every row or, when a unique index already holds one,
\* none.  Rows take fresh ids.
CanInsert(u, xs) == xs \cap Followed(u) = {}
Insert(u, xs) ==
    /\ rows + Cardinality(xs) <= MaxRows
    /\ rows' = rows + Cardinality(xs)
    /\ LET id == CHOOSE f \in [xs -> (rows + 1)..(rows + Cardinality(xs))] : IsInjective(f)
       IN  items' = [items EXCEPT ![u] = [x \in Targets |-> IF x \in xs THEN id[x] ELSE @[x]]]

Buttons == [role : Roles \cup {"none"}, user : Users \cup {Guest}, following : BOOLEAN, item : 0..MaxRows,
            error : BOOLEAN, by : Users \cup {Guest}, found : 0..MaxRows, other : BOOLEAN,
            call : {"idle", "lookup", "write", "delete", "followed", "unfollowed", "refused"}]

WatchTypeOK ==
    /\ session \in Users \cup {Guest}
    /\ items \in [Users -> [Targets -> 0..MaxRows]]
    /\ rows \in 0..MaxRows
    /\ dropped \in [Users -> SUBSET Targets]
    /\ writer \in [Users -> [Targets -> Tabs \cup {"none"}]]
    /\ faults \in 0..MaxFaults
    /\ button \in [Tabs -> Buttons]

WatchInit ==
    /\ session \in Users \cup {Guest}
    /\ items = [u \in Users |-> [x \in Targets |-> 0]]
    /\ rows = 0
    /\ dropped = [u \in Users |-> {}]
    /\ writer = [u \in Users |-> [x \in Targets |-> "none"]]
    /\ button = [t \in Tabs |-> NoButton]
    /\ faults = 0

----------------------------------------------------------------------------

\* A role page is rendered: whether its viewer follows it, and by which row.
OpenRole(t, r) ==
    /\ button[t].role = "none"
    /\ button' = [button EXCEPT ![t] = [NoButton EXCEPT
            !.role = r, !.user = session, !.following = Watching(session, r), !.item = RowOf(session, r)]]
    /\ UNCHANGED <<session, tableVars, faults>>

\* A guest's button is a link to sign up; a user's asks the route for the
\* opposite of what it shows, by row id when it holds one.
ClickFollow(t) ==
    LET b == button[t] IN
    /\ b.role # "none" /\ b.user # Guest /\ b.call = "idle"
    /\ button' = [button EXCEPT ![t].error = FALSE,
                                ![t].call = IF b.following /\ b.item # 0 THEN "delete" ELSE "lookup"]
    /\ UNCHANGED <<session, tableVars, faults>>

\* The route acts for the session's user at the time of the request; a
\* request without one is a 401.
SignedOutCall(t) ==
    /\ button[t].call \in {"lookup", "delete"}
    /\ session = Guest
    /\ button' = [button EXCEPT ![t].call = "refused"]
    /\ UNCHANGED <<session, tableVars, faults>>

\* unfollow: the row of that id, if it is still there and the user's.
DeleteRow(t) ==
    LET gone == {x \in Targets : items[session][x] = button[t].item} IN
    /\ button[t].call = "delete" /\ session # Guest
    /\ items' = [items EXCEPT ![session] = [x \in Targets |-> IF x \in gone THEN 0 ELSE @[x]]]
    /\ dropped' = [dropped EXCEPT ![session] = @ \cup gone]
    /\ writer' = [writer EXCEPT ![session] = [x \in Targets |-> IF x \in gone THEN t ELSE @[x]]]
    /\ button' = [button EXCEPT ![t].call = "unfollowed", ![t].by = session, ![t].other = @ \/ session # button[t].user]
    /\ UNCHANGED <<session, rows, faults>>

\* follow: is there a row for this target already?
LookUp(t) ==
    /\ button[t].call = "lookup" /\ session # Guest
    /\ button' = [button EXCEPT ![t].found = items[session][button[t].role],
                                ![t].by = session, ![t].call = "write", ![t].other = @ \/ session # button[t].user]
    /\ UNCHANGED <<session, tableVars, faults>>

\* Then turn that row's alerts on (refused when it went meanwhile), or insert
\* one (refused when another request inserted it meanwhile).
WriteRow(t) ==
    LET b == button[t]
        present == items[b.by][b.role] IN
    /\ b.call = "write"
    /\ \/ /\ b.found # 0
          /\ button' = [button EXCEPT ![t].call = IF present = b.found THEN "followed" ELSE "refused"]
          /\ UNCHANGED <<items, rows, writer>>
       \/ /\ b.found = 0 /\ CanInsert(b.by, {b.role})
          /\ Insert(b.by, {b.role})
          /\ writer' = [writer EXCEPT ![b.by][b.role] = t]
          /\ button' = [button EXCEPT ![t].found = items'[b.by][b.role], ![t].call = "followed"]
       \/ /\ b.found = 0 /\ ~CanInsert(b.by, {b.role})
          /\ button' = [button EXCEPT ![t].call = "refused"]
          /\ UNCHANGED <<items, rows, writer>>
    /\ UNCHANGED <<session, dropped, faults>>

\* A statement fails, or the reply is lost: the page is told "failed" either way.
FollowFails(t) ==
    /\ button[t].call \notin {"idle", "refused"}
    /\ faults < MaxFaults
    /\ faults' = faults + 1
    /\ button' = [button EXCEPT ![t].call = "refused"]
    /\ UNCHANGED <<session, tableVars>>

\* The reply.  A button that said "following" says the opposite after any
\* success; one that did not keeps the row id it was given.
FollowReply(t) ==
    LET b == button[t]
        was == [b EXCEPT !.call = "idle", !.found = 0, !.by = Guest] IN
    /\ b.call \in {"followed", "unfollowed", "refused"}
    /\ button' = [button EXCEPT ![t] =
            IF b.call = "refused" THEN [was EXCEPT !.error = TRUE]
            ELSE IF b.following THEN [was EXCEPT !.following = FALSE, !.item = 0]
            ELSE [was EXCEPT !.following = TRUE, !.item = b.found]]
    /\ UNCHANGED <<session, tableVars, faults>>

FollowServer(t) == SignedOutCall(t) \/ DeleteRow(t) \/ LookUp(t) \/ WriteRow(t) \/ FollowFails(t)
WatchNext(t) ==
    \/ \E r \in Shown : OpenRole(t, r)
    \/ ClickFollow(t) \/ FollowServer(t) \/ FollowReply(t)

----------------------------------------------------------------------------

\* The tab whose button wrote the row last shows the row as it is, whatever
\* other tabs looked up meanwhile: following with that row's id, or not
\* following.  Only a lost reply can part them (FollowFails), or a click while
\* the browser's cookie is another account's: the route acts for that one.
LastWriterKnows ==
    \A t \in Tabs, u \in Users, r \in Roles :
        /\ faults = 0 /\ writer[u][r] = t /\ ~button[t].other
        /\ button[t].role = r /\ button[t].user = u /\ button[t].call = "idle"
        => /\ button[t].following <=> items[u][r] # 0
           /\ button[t].item = items[u][r]

=============================================================================
