---------------------------- MODULE FirstRun ----------------------------
(***************************************************************************)
(* The first run: three questions and a payoff, answered in the browser,   *)
(* kept in one local-storage record all tabs share, carried in the page's  *)
(* URL, and saved into an account by /api/onboarding.  A page keeps the    *)
(* state it has across navigations within /welcome and goes on working     *)
(* while a navigation or a save is under way, so a save can meet answers,  *)
(* a payoff and a record that are not of one moment.                       *)
(* Answers are records [lookingFor, fields, companies]; None is "all".     *)
(***************************************************************************)
EXTENDS Watchlist, Sequences

CONSTANTS
    None,
    LookingFor, Fields,
    DisciplinesOf,  \* FIELDS: [Fields -> sets of disciplines]
    TypesOf,        \* LOOKING_FOR: [LookingFor -> sets of program types]
    Facts,          \* [Roles -> [company, discipline, type, rank, current]]
    Editors,        \* bound: the tabs whose visitor goes through the questions
    Links,          \* bound: the answers in links kept from before
    Leavers,        \* the roles that may leave product scope between payoff and save
    MaxCompanies, PayoffRoles,
    MaxCalls,       \* bound: saves sent
    MaxEdits,       \* bound: answers changed
    MaxCookies,     \* bound: sign-ins and sign-outs
    MaxEffort,      \* bound: all of these together
    MaxOpens        \* bound: pages of the first run opened

VARIABLES
    record,     \* the guest record of local storage, or None
    tab,        \* the first-run page of each tab, or NoPage
    calls,      \* the saves the route was sent, in order
    prefs,      \* recruiting_preferences: [Users -> row]
    asked,      \* history: answers a guest chose to save
    edits, opens, cookies,
    pages       \* bound: the kind of page each tab shows, chosen at the start

flowVars == <<record, tab, calls, prefs, asked, edits, opens, cookies, pages>>
vars == <<watchVars, flowVars>>

Answers == [lookingFor : LookingFor \cup {None}, fields : SUBSET Fields, companies : SUBSET Companies]
NoAnswers == [lookingFor |-> None, fields |-> {}, companies |-> {}]
HasAnyAnswer(a) == a # NoAnswers
Records == [answers : Answers, completed : BOOLEAN, pending : BOOLEAN]

ASSUME NoneIsNoValue == None \notin Answers \cup Records
ASSUME LinksAreAnswers == Links \subseteq Answers

DisciplinesFor(fields) == UNION {DisciplinesOf[f] : f \in fields}
\* What a stored account says: a field all of whose disciplines are stored.
AnswersFromPreferences(p) ==
    [NoAnswers EXCEPT !.fields = {f \in Fields : DisciplinesOf[f] \subseteq p.disciplines}]

\* Roles that fit the answers: companies are no filter.
Fits(a, r) ==
    /\ a.lookingFor # None => Facts[r].type \in TypesOf[a.lookingFor]
    /\ a.fields # {} => Facts[r].discipline \in DisciplinesFor(a.fields)
\* (Mutant) the payoff is not filtered.
MutantMatching(a) == Roles

Matching(a) == {r \in Roles : Fits(a, r)}
Before(rs, r) == {q \in rs : Facts[q].rank < Facts[r].rank}
\* dashboard_role_page: the first roles in its order, of each company two.
FirstOf(rs) ==
    LET shown == {r \in rs : Cardinality({q \in Before(rs, r) : Facts[q].company = Facts[r].company}) < 2}
    IN  {r \in shown : Cardinality(Before(shown, r)) < PayoffRoles}
\* The payoff: matching roles of the watched companies, then of all, once each.
Payoff(a) ==
    LET watched == FirstOf({r \in Matching(a) : Facts[r].company \in a.companies})
        rest == FirstOf(Matching(a)) \ watched
    IN  watched \cup {r \in rest : Cardinality(watched \cup Before(rest, r)) < PayoffRoles}

\* The URL of the page: step=ready, save=1 and the answers.
Url(ready, save, a) == [ready |-> ready, save |-> save, answers |-> a]
Plain == Url(FALSE, FALSE, NoAnswers)

ShouldCarryOver == record # None /\ record.pending
HasGuestAnswers == record # None /\ record.completed /\ HasAnyAnswer(record.answers)
Answering(a) == [answers |-> a, completed |-> record # None /\ record.completed, pending |-> FALSE]
ReachedPayoff(a, pending) == [answers |-> a, completed |-> TRUE, pending |-> pending]

\* No page, and the state of a page: the render's props (user, url, payoff,
\* initial), and the component's own state.
NoPage == [on |-> FALSE]
Fresh == [on |-> TRUE, user |-> Guest, url |-> Plain, payoff |-> {}, initial |-> NoAnswers,
          edited |-> None, local |-> 1, nav |-> None, call |-> 0, saved |-> 0, auto |-> "no"]

Page(t) == tab[t]
AnswersShown(p) ==
    IF p.edited # None THEN p.edited
    ELSE IF ~p.url.ready /\ ~HasAnyAnswer(p.url.answers) /\ p.user = Guest
            /\ record # None /\ HasAnyAnswer(record.answers)
    THEN record.answers ELSE p.initial
Step(p) == IF p.url.ready THEN 4 ELSE p.local

\* The controls of the questions and, from step 2, of the footer.
QuestionControls(p) ==
    (IF Step(p) = 1 THEN {"choose"} ELSE {}) \cup (IF Step(p) = 2 THEN {"field"} ELSE {})
      \cup (IF Step(p) = 3 THEN {"company"} ELSE {})
FooterControls(p) ==
    LET open == p.saved = 0 IN
       (IF Step(p) > 1 /\ open THEN {"back"} ELSE {})
       \cup (IF Step(p) \in {2, 3} /\ p.nav = None THEN {"next"} ELSE {})
       \cup (IF Step(p) = 4 /\ open THEN {"browse"} ELSE {})
       \cup (IF Step(p) = 4 /\ open /\ p.payoff # {} /\ p.call = 0 THEN {"save"} ELSE {})
       \cup (IF open THEN {"skip"} ELSE {"watchlist"})
Controls(p) == IF p.on THEN QuestionControls(p) \cup FooterControls(p) ELSE {}

\* What the payoff's heading says.
Heading(p) == IF p.saved # 0 THEN "saved" ELSE IF p.payoff # {} THEN "top" ELSE "nothing"

----------------------------------------------------------------------------

\* The server render of a URL for the session of now.
Rendered(p, url) ==
    [p EXCEPT !.user = session, !.url = url, !.nav = None,
              !.payoff = IF url.ready THEN Payoff(url.answers) ELSE {},
              !.initial = IF url.ready \/ HasAnyAnswer(url.answers) THEN url.answers
                          ELSE IF session # Guest THEN AnswersFromPreferences(prefs[session]) ELSE NoAnswers]

\* (Mutant) a guest's payoff is recorded over a save that was asked for.
MutantGuestRecord(p) ==
    IF p.user # Guest THEN record
    ELSE IF p.url.ready THEN ReachedPayoff(AnswersShown(p), FALSE)
    ELSE IF p.edited # None THEN Answering(p.edited) ELSE record

\* The effects of a render: the guest's record of a payoff reached or of an
\* answer changed, and the automatic save armed by save=1.
GuestRecord(p) ==
    IF p.user # Guest THEN record
    ELSE IF p.url.ready THEN (IF ShouldCarryOver THEN record ELSE ReachedPayoff(AnswersShown(p), FALSE))
    ELSE IF p.edited # None THEN Answering(p.edited) ELSE record
AutoArmed(p) ==
    [p EXCEPT !.auto = IF @ = "started" THEN @
                       ELSE IF p.url.save /\ p.user # Guest /\ p.url.ready THEN "armed" ELSE "no"]

\* A page is opened by its plain URL, by the link of the returning guest's
\* note, or by a link kept from before.  On arrival a signed-in page with a pending record starts
\* to its payoff.
Arrive(t, url) ==
    LET p == Rendered(Fresh, url) IN
    /\ opens < MaxOpens
    /\ opens' = opens + 1
    /\ tab' = [tab EXCEPT ![t] = [AutoArmed(p) EXCEPT !.nav =
                   IF p.user # Guest /\ ~url.ready /\ ShouldCarryOver
                   THEN Url(TRUE, TRUE, record.answers) ELSE None]]
    /\ record' = GuestRecord(p)
    /\ UNCHANGED <<watchVars, calls, prefs, asked, edits, cookies, pages>>

Open(t) ==
    /\ ~tab[t].on
    /\ \/ Arrive(t, Plain)
       \/ HasGuestAnswers /\ Arrive(t, Url(TRUE, FALSE, record.answers))
       \/ t \in Editors /\ \E a \in Links : Arrive(t, Url(FALSE, FALSE, a))

\* A navigation within /welcome lands; the page keeps its own state.
Land(t) ==
    /\ tab[t].on /\ tab[t].nav # None
    /\ LET p == Rendered(tab[t], tab[t].nav) IN
         /\ tab' = [tab EXCEPT ![t] = AutoArmed(p)]
         /\ record' = GuestRecord(p)
    /\ UNCHANGED <<watchVars, calls, prefs, asked, edits, opens, cookies, pages>>

\* An answer changes, and a guest's record with it.
Edit(t, a, local) ==
    LET p == [tab[t] EXCEPT !.edited = a, !.local = local] IN
    /\ t \in Editors /\ edits < MaxEdits
    /\ edits' = edits + 1
    /\ tab' = [tab EXCEPT ![t] = p]
    /\ record' = GuestRecord(p)
    /\ UNCHANGED <<watchVars, calls, prefs, asked, opens, cookies, pages>>

Choose(t, v) ==
    /\ "choose" \in Controls(tab[t])
    /\ Edit(t, [AnswersShown(tab[t]) EXCEPT !.lookingFor = v], 2)

Flip(s, x) == IF x \in s THEN s \ {x} ELSE s \cup {x}
ToggleField(t, f) ==
    /\ "field" \in Controls(tab[t])
    /\ Edit(t, [AnswersShown(tab[t]) EXCEPT !.fields = Flip(@, f)], tab[t].local)

ToggleCompany(t, c) ==
    LET a == AnswersShown(tab[t]) IN
    /\ "company" \in Controls(tab[t])
    /\ c \in a.companies \/ Cardinality(a.companies) < MaxCompanies
    /\ Edit(t, [a EXCEPT !.companies = Flip(@, c)], tab[t].local)

Next1(t) ==
    LET p == tab[t] IN
    /\ t \in Editors /\ "next" \in Controls(p)
    /\ tab' = [tab EXCEPT ![t] = IF Step(p) = 2 THEN [p EXCEPT !.local = 3]
                                 ELSE [p EXCEPT !.nav = Url(TRUE, FALSE, AnswersShown(p))]]
    /\ UNCHANGED <<watchVars, record, calls, prefs, asked, edits, opens, cookies, pages>>

Back(t) ==
    LET p == tab[t] IN
    /\ t \in Editors /\ "back" \in Controls(p)
    /\ tab' = [tab EXCEPT ![t] = IF Step(p) = 4
                 THEN [p EXCEPT !.local = 3, !.nav = Url(FALSE, FALSE, AnswersShown(p))]
                 ELSE [p EXCEPT !.local = @ - 1]]
    /\ UNCHANGED <<watchVars, record, calls, prefs, asked, edits, opens, cookies, pages>>

\* A guest's save marks the record and leaves for the sign-in page.
SaveAsGuest(t) ==
    LET a == AnswersShown(tab[t]) IN
    /\ "save" \in Controls(tab[t]) /\ tab[t].user = Guest
    /\ record' = ReachedPayoff(a, TRUE)
    /\ asked' = asked \cup {a}
    /\ tab' = [tab EXCEPT ![t] = NoPage]
    /\ UNCHANGED <<watchVars, calls, prefs, edits, opens, cookies, pages>>

\* save(): the answers of now with the roles of the payoff.
NewCall(a, roles, auto) == [pc |-> "prefs", user |-> Guest, answers |-> a, roles |-> roles, chosen |-> {},
                            seen |-> {}, auto |-> auto, heard |-> TRUE]
Over == [NewCall(NoAnswers, {}, FALSE) EXCEPT !.pc = "done"]  \* a call nobody refers to

Send(t, auto) ==
    LET p == tab[t] IN
    /\ Len(calls) < MaxCalls
    /\ calls' = Append(calls, NewCall(AnswersShown(p), p.payoff, auto))
    /\ tab' = [tab EXCEPT ![t] = [p EXCEPT !.call = Len(calls) + 1,
                                          !.auto = IF auto THEN "started" ELSE @]]
    /\ UNCHANGED <<watchVars, record, prefs, asked, edits, opens, cookies, pages>>

Save(t) == "save" \in Controls(tab[t]) /\ tab[t].user # Guest /\ Send(t, FALSE)

\* The timer of the automatic save: once per page, if a save is still asked for.
AutoSave(t) ==
    /\ tab[t].on /\ tab[t].auto = "armed"
    /\ \/ ShouldCarryOver /\ Send(t, TRUE)
       \/ /\ ~ShouldCarryOver
          /\ tab' = [tab EXCEPT ![t].auto = "no"]
          /\ UNCHANGED <<watchVars, record, calls, prefs, asked, edits, opens, cookies, pages>>

\* Skip: a signed-in skip is remembered; the page goes on to /roles either way.
Skip(t) ==
    /\ "skip" \in Controls(tab[t])
    /\ tab' = [tab EXCEPT ![t] = NoPage]
    /\ \/ /\ session # Guest /\ tab[t].user # Guest
          /\ prefs' = [prefs EXCEPT ![session].skipped = TRUE]
       \/ UNCHANGED prefs
    /\ UNCHANGED <<watchVars, record, calls, asked, edits, opens, cookies, pages>>

\* The watchlist or the roles page: the page is left, its save is not.
Leave(t) ==
    /\ {"browse", "watchlist"} \cap Controls(tab[t]) # {}
    /\ tab' = [tab EXCEPT ![t] = NoPage]
    /\ UNCHANGED <<watchVars, record, calls, prefs, asked, edits, opens, cookies, pages>>

----------------------------------------------------------------------------

\* /api/onboarding, one statement a step.  Every save is the session's user's.
Answer(i, pc) == calls' = [calls EXCEPT ![i].pc = pc, ![i].seen = {}]

Unauthorized(i) ==
    /\ calls[i].pc = "prefs" /\ session = Guest
    /\ Answer(i, "failed")
    /\ UNCHANGED <<watchVars, record, tab, prefs, asked, edits, opens, cookies, pages>>

StorePreferences(i) ==
    /\ calls[i].pc = "prefs" /\ session # Guest
    /\ prefs' = [prefs EXCEPT ![session] =
                   [disciplines |-> DisciplinesFor(calls[i].answers.fields), completed |-> TRUE, skipped |-> FALSE]]
    /\ calls' = [calls EXCEPT ![i].user = session,
                              ![i].pc = IF calls[i].answers.companies = {} THEN "roles" ELSE "companies"]
    /\ UNCHANGED <<watchVars, record, tab, asked, edits, opens, cookies, pages>>

\* The reads before an insert: which of the companies are followed already;
\* then which roles are in scope still, and which of those are followed.  None
\* in scope is an error, after the preferences and the companies were stored.
ReadCompanies(i) ==
    LET c == calls[i] IN
    /\ c.pc = "companies"
    /\ calls' = [calls EXCEPT ![i].seen = Followed(c.user) \cap c.answers.companies, ![i].pc = "insert_companies"]
    /\ UNCHANGED <<watchVars, record, tab, prefs, asked, edits, opens, cookies, pages>>

ReadRoles(i) ==
    LET c == calls[i] IN
    /\ c.pc = "roles"
    /\ \E gone \in SUBSET Leavers : LET chosen == c.roles \ gone IN
         calls' = [calls EXCEPT ![i].chosen = chosen, ![i].seen = Followed(c.user) \cap chosen,
                       ![i].pc = IF c.roles = {} THEN "saved" ELSE IF chosen = {} THEN "failed" ELSE "insert_roles"]
    /\ UNCHANGED <<watchVars, record, tab, prefs, asked, edits, opens, cookies, pages>>

InsertFollows(i) ==
    LET c == calls[i]
        roles == c.pc = "insert_roles"
        fresh == (IF roles THEN c.chosen ELSE c.answers.companies) \ c.seen IN
    /\ c.pc \in {"insert_companies", "insert_roles"}
    /\ \/ /\ CanInsert(c.user, fresh)
          /\ Insert(c.user, fresh)
          /\ writer' = [writer EXCEPT ![c.user] = [x \in Targets |-> IF x \in fresh THEN "none" ELSE @[x]]]
          /\ Answer(i, IF roles THEN "saved" ELSE "roles")
       \/ /\ ~CanInsert(c.user, fresh)
          /\ Answer(i, "failed")
          /\ UNCHANGED <<items, rows, writer>>
    /\ UNCHANGED <<session, dropped, button, faults, record, tab, prefs, asked, edits, opens, cookies, pages>>

\* (Mutant) the error of the insertion of the companies is not looked at.
MutantStatementFails(i) ==
    /\ calls[i].pc \notin {"saved", "failed", "done"}
    /\ faults < MaxFaults
    /\ faults' = faults + 1
    /\ Answer(i, IF calls[i].pc = "insert_companies" THEN "roles" ELSE "failed")
    /\ UNCHANGED <<session, tableVars, button, record, tab, prefs, asked, edits, opens, cookies, pages>>

\* A statement fails and the route answers 500.
StatementFails(i) ==
    /\ calls[i].pc \notin {"saved", "failed", "done"}
    /\ faults < MaxFaults
    /\ faults' = faults + 1
    /\ Answer(i, "failed")
    /\ UNCHANGED <<session, tableVars, button, record, tab, prefs, asked, edits, opens, cookies, pages>>

\* The reply: a saved one clears the record, even of a page that was left by
\* a link meanwhile (closed instead, it does nothing), and is shown.
Reply(i) ==
    LET ok == calls[i].pc = "saved"
        waiting == {t \in Tabs : tab[t].on /\ tab[t].call = i} IN
    /\ calls[i].pc \in {"saved", "failed"}
    /\ calls' = [calls EXCEPT ![i] = IF ok /\ waiting # {} THEN [@ EXCEPT !.pc = "done"] ELSE Over]
    /\ record' \in (IF ok /\ calls[i].heard THEN {None} ELSE {record})
                     \cup (IF waiting = {} THEN {record} ELSE {})
    /\ tab' = [t \in Tabs |-> IF t \notin waiting THEN tab[t]
                 ELSE [tab[t] EXCEPT !.call = 0, !.saved = IF ok THEN i ELSE @]]
    /\ UNCHANGED <<watchVars, prefs, asked, edits, opens, cookies, pages>>

\* The connection drops: the page is told "not saved", the route goes on.
LoseReply(t) ==
    LET i == tab[t].call IN
    /\ tab[t].on /\ tab[t].call # 0 /\ faults < MaxFaults
    /\ faults' = faults + 1
    /\ calls' = [calls EXCEPT ![i].heard = FALSE]
    /\ tab' = [tab EXCEPT ![t].call = 0]
    /\ UNCHANGED <<session, tableVars, button, record, prefs, asked, edits, opens, cookies, pages>>

\* The cookies change under every open page.
Cookie(u) ==
    /\ session # u /\ Guest \in {session, u} /\ cookies < MaxCookies
    /\ session' = u /\ cookies' = cookies + 1
    /\ UNCHANGED <<tableVars, button, faults, record, tab, calls, prefs, asked, edits, opens, pages>>

Route(i) == Unauthorized(i) \/ StorePreferences(i) \/ ReadCompanies(i) \/ ReadRoles(i) \/ InsertFollows(i)

Init ==
    /\ WatchInit
    /\ record = None
    /\ tab = [t \in Tabs |-> NoPage]
    /\ calls = <<>>
    /\ prefs = [u \in Users |-> [disciplines |-> {}, completed |-> FALSE, skipped |-> FALSE]]
    /\ asked = {} /\ edits = 0 /\ opens = 0 /\ cookies = 0
    /\ pages \in [Tabs -> {"welcome", "role"}]
    /\ \A t \in Editors : pages[t] = "role" => \A x \in Tabs : pages[x] = "role"

\* Bound: what a visitor does and what goes wrong, together.
Effort == edits + opens + cookies + faults + Cardinality({t \in Tabs : button[t].role # "none"})

Next ==
    /\ \/ \E t \in Tabs : pages[t] = "welcome" /\
             \/ Open(t) \/ Land(t) \/ Next1(t) \/ Back(t) \/ SaveAsGuest(t) \/ Save(t) \/ AutoSave(t)
             \/ Skip(t) \/ Leave(t) \/ LoseReply(t)
             \/ \E v \in LookingFor \cup {None} : Choose(t, v)
             \/ \E f \in Fields : ToggleField(t, f)
             \/ \E c \in Companies : ToggleCompany(t, c)
       \/ \E t \in Tabs : pages[t] = "role" /\ WatchNext(t) /\ UNCHANGED flowVars
       \/ \E i \in DOMAIN calls : Route(i) \/ Reply(i) \/ StatementFails(i)
       \/ \E u \in Users \cup {Guest} : Cookie(u)
    /\ Effort' <= MaxEffort

Spec == Init /\ [][Next]_vars

----------------------------------------------------------------------------

Urls == [ready : BOOLEAN, save : BOOLEAN, answers : Answers]
OpenPages == [on : {TRUE}, user : Users \cup {Guest}, url : Urls, payoff : SUBSET Roles, initial : Answers,
              edited : Answers \cup {None}, local : 1..3, nav : Urls \cup {None}, call : Nat, saved : Nat,
              auto : {"no", "armed", "started"}]
Calls == [pc : {"prefs", "companies", "insert_companies", "roles", "insert_roles", "saved", "failed", "done"},
          user : Users \cup {Guest}, answers : Answers, roles : SUBSET Roles, chosen : SUBSET Roles,
          seen : SUBSET Targets, auto : BOOLEAN, heard : BOOLEAN]

FlowTypeOK ==
    /\ record \in Records \cup {None}
    /\ record # None => (record.pending => record.completed)
    /\ tab \in [Tabs -> OpenPages \cup {NoPage}]
    /\ \A t \in Tabs : tab[t].on => tab[t].call \in 0..Len(calls) /\ tab[t].saved \in 0..Len(calls)
    /\ calls \in Seq(Calls)
    /\ prefs \in [Users -> [disciplines : SUBSET DisciplinesFor(Fields), completed : BOOLEAN, skipped : BOOLEAN]]
    /\ asked \subseteq Answers
TypeOK == WatchTypeOK /\ FlowTypeOK

\* A page that says "saved" speaks of a save after which every company picked
\* and every program still in scope was followed, and each of them is followed
\* yet unless the user dropped it, whatever other saves and follow buttons
\* crossed it.
SavedIsWatched ==
    \A t \in Tabs : tab[t].on /\ tab[t].saved # 0 =>
        LET c == calls[tab[t].saved] IN
        /\ c.chosen \cup c.answers.companies \subseteq Followed(c.user) \cup dropped[c.user]
        /\ prefs[c.user].completed

\* What any page says of the account's follows is so.
FollowsAreTrue == SavedIsWatched /\ LastWriterKnows

\* A guest's "save" is not forgotten: the record stays marked until a save was
\* answered as stored, or a guest page comes to a question with answers of its
\* own (another tab of the same browser, too).  A failed save, a lost reply, a
\* sign-out or a page left keeps it for the next visit.
AskIsKept ==
    [][ShouldCarryOver /\ ~ShouldCarryOver'
       => \/ \E i \in DOMAIN calls : calls[i].pc = "saved" /\ calls'[i].pc = "done"
          \/ \E t \in Tabs : /\ tab'[t] # tab[t] /\ tab'[t].on
                            /\ tab'[t].user = Guest /\ tab'[t].edited # None /\ ~tab'[t].url.ready]_vars

\* A program followed by an automatic save fits answers that a guest of this
\* browser chose to save.
AutoSavesAskedPrograms ==
    \A i \in DOMAIN calls : calls[i].auto => \E a \in asked : \A r \in calls[i].roles : Fits(a, r)

=============================================================================
