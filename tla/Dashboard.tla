---------------------------- MODULE Dashboard ----------------------------
(***************************************************************************)
(* The roles list.  A view is its URL: filters, sort and page.  The server *)
(* reads the page of rows, the counts and the choices of the filter panel  *)
(* side by side, so a corpus that collection changes meanwhile can answer  *)
(* them differently; the visitor then follows the links the view drew:     *)
(* chips, pages, a company's fold, the filter whose removal helps most.    *)
(* A filter value a role can meet is a member of the role's set for the    *)
(* facet (a window of 30 days is met by what 60 and 90 are met by, too).   *)
(***************************************************************************)
EXTENDS Integers, FiniteSets, SequencesExt

CONSTANTS
    Roles,          \* every role, in id order: a sequence
    Facets,         \* FILTER_KEYS
    Withheld,       \* FACETS_WITHHELD
    Counted,        \* facets whose panel offers what the corpus has, by count
    Values,         \* [Facets -> sets of values]
    Facts,          \* [role -> [company, forecastable, days, score, history, events, meets : Facets -> SUBSET values]]
    PageSize, PerCompany,
    Links,          \* the URLs a visitor arrives by
    MaxClicks,      \* bound: views asked for
    MaxChanges      \* bound: changes of the corpus

VARIABLES
    corpus,     \* the roles in scope and active
    url,        \* the view asked for
    got,        \* what its reads returned so far: rows, summary, choices, or Unread
    promised,   \* what the link that was followed said: [roles, all] or Nothing
    walk,       \* history: the rows shown while going from page 1 on
    clicks, changes

rolesVars == <<corpus, url, got, promised, walk, clicks, changes>>

Sorts == {"window", "confidence", "evidence", "company"}
Urls == [want : [Facets -> SUBSET UNION {Values[f] : f \in Facets}], sort : Sorts, page : Int]

\* Every role is there once, what it is sorted by are numbers, and of the companies in the
\* panel, which is not withheld, its own is the one it meets.
ASSUME RolesAssumption ==
    /\ PageSize \in Nat \ {0} /\ PerCompany \in Nat /\ MaxClicks \in Nat /\ MaxChanges \in Nat
    /\ Roles \in Seq(ToSet(Roles)) /\ \A i, j \in DOMAIN Roles : Roles[i] = Roles[j] => i = j
    /\ "company" \in Facets \ Withheld /\ "watched" \in Facets
    /\ Links \subseteq Urls
    /\ \A r \in ToSet(Roles) :
          /\ Facts[r].company \in Values["company"] \cap Int /\ Facts[r].meets["company"] = {Facts[r].company}
          /\ Facts[r].forecastable \in BOOLEAN /\ Facts[r].days \in Int /\ Facts[r].score \in Int
          /\ Facts[r].history \in Int /\ Facts[r].events \in Int

NoFilter == [f \in Facets |-> {}]
DefaultFilters == [want |-> NoFilter, sort |-> "window", page |-> 1]
Unread == [read |-> FALSE]
Nothing == [any |-> FALSE]

\* Unknown values are dropped, and a withheld facet parses to its default.
ParseDashboardFilters(u) ==
    [u EXCEPT !.want = [f \in Facets |-> IF f \in Withheld THEN {} ELSE u.want[f] \cap Values[f]],
              !.page = IF @ < 1 THEN 1 ELSE @]

\* A link: the filters with changes; any change but the page returns to page 1.
Href(u, f, vs) == [u EXCEPT !.want[f] = vs, !.page = 1]
HrefPage(u, n) == [u EXCEPT !.page = n]

AppliedFilterKeys(u) == {f \in Facets : u.want[f] # {}}
PerCompanyLimit(u) == IF u.want["company"] # {} THEN 0 ELSE PerCompany

Matches(r, u, f) == u.want[f] = {} \/ u.want[f] \cap Facts[r].meets[f] # {}
MatchesAllBut(r, u, fs) == \A f \in Facets \ fs : Matches(r, u, f)

\* compareRoles, as the keys it compares one after the other.  The id is last,
\* so no two roles tie.
SortKey(sort, r) ==
    LET x == Facts[r] IN
    <<IF sort = "company" THEN x.company ELSE 0,
      IF x.forecastable THEN 0 ELSE 1,
      IF sort = "confidence" /\ x.forecastable THEN 100 - x.score ELSE 0,
      IF sort = "evidence" /\ x.forecastable THEN 0 - x.history ELSE 0,
      IF sort = "evidence" THEN 0 - x.events ELSE 0,
      IF x.forecastable THEN x.days ELSE 0,
      x.company,
      CHOOSE i \in DOMAIN Roles : Roles[i] = r>>
Before(sort, p, q) ==
    LET a == SortKey(sort, p)
        b == SortKey(sort, q) IN
    \E i \in 1..8 : a[i] < b[i] /\ \A j \in 1..8 : j < i => a[j] = b[j]
\* row_number() over these roles.
RankIn(sort, rs, r) == 1 + Cardinality({q \in rs : Before(sort, q, r)})

\* One row of the list: a role, its place among its company's matching ones,
\* and how many those are.
Matching(c, u) == {r \in c : MatchesAllBut(r, u, {})}
Peers(c, u, k) == {r \in Matching(c, u) : Facts[r].company = k}
Row(c, u, r) ==
    LET peers == Peers(c, u, Facts[r].company)
    IN  [role |-> r, rank |-> RankIn(u.sort, peers, r), total |-> Cardinality(peers)]
\* The places of a company that are listed; the others are folded under "Show all".
Unfolded(u, n) == PerCompanyLimit(u) = 0 \/ n <= PerCompanyLimit(u)
ListedRoles(c, u) == {r \in Matching(c, u) : Unfolded(u, Row(c, u, r).rank)}
Shown(c, u) ==
    [n \in 1..Cardinality(ListedRoles(c, u)) |->
        Row(c, u, CHOOSE r \in ListedRoles(c, u) : RankIn(u.sort, ListedRoles(c, u), r) = n)]

\* (Mutant) the page starts one row late.
MutantPageOf(c, u) ==
    SubSeq(Shown(c, u), (u.page - 1) * PageSize + 2,
           IF u.page * PageSize < Len(Shown(c, u)) THEN u.page * PageSize ELSE Len(Shown(c, u)))

PageOf(c, u) ==
    SubSeq(Shown(c, u), (u.page - 1) * PageSize + 1,
           IF u.page * PageSize < Len(Shown(c, u)) THEN u.page * PageSize ELSE Len(Shown(c, u)))

Without(c, u, f) == Cardinality({r \in c : MatchesAllBut(r, u, {f})})

\* The summary counts by company and never ranks: as many places as each has
\* matching roles, up to the cap and over it.
Places(c, u) ==
    UNION {{<<k, n>> : n \in 1..Cardinality(Peers(c, u, k))} : k \in {Facts[r].company : r \in Matching(c, u)}}

\* dashboard_role_summary and dashboard_filter_options.
Summary(c, u) ==
    [inScope |-> Cardinality(c), matching |-> Cardinality(Matching(c, u)),
     shown |-> Cardinality({p \in Places(c, u) : Unfolded(u, p[2])}),
     collapsed |-> Cardinality({p \in Places(c, u) : ~Unfolded(u, p[2])}),
     followed |-> Cardinality({r \in c : Facts[r].meets["watched"] # {}}),
     without |-> [f \in Facets |-> Without(c, u, f)]]
Options(c) == [f \in Counted |-> UNION {Facts[r].meets[f] : r \in c}]

----------------------------------------------------------------------------

\* The links of a view that has landed.
Landed == got.rows.read /\ got.summary.read /\ got.choices.read
Rows == got.rows.is
Counts == got.summary.is

EmptyWatchlist == Rows = <<>> /\ url.want["watched"] # {} /\ Counts.followed = 0

Gains(f) == Counts.without[f] > Counts.matching
RelaxSuggestion ==
    LET best == {f \in AppliedFilterKeys(url) : Gains(f) /\ \A g \in AppliedFilterKeys(url) :
                    Counts.without[g] <= Counts.without[f]}
    IN  IF Rows = <<>> /\ Counts.shown = 0 /\ ~EmptyWatchlist THEN best ELSE {}
FoldLinks == {w \in ToSet(Rows) : PerCompanyLimit(url) > 0 /\ w.rank = PerCompanyLimit(url) /\ w.total > w.rank}
PageCount == IF Counts.shown <= PageSize THEN 1 ELSE (Counts.shown + PageSize - 1) \div PageSize
\* A pager is drawn under rows, when there are two pages.
PageLinks ==
    IF Rows = <<>> THEN (IF Counts.shown > 0 /\ ~EmptyWatchlist THEN {1} ELSE {})
    ELSE IF PageCount < 2 THEN {} ELSE ((1..PageCount) \cup ({url.page - 1} \ {0})) \ {url.page}

\* The panel: a facet the corpus counts offers what it has and, of the other
\* facets, every value.
Panel(f) == IF f \in Counted THEN got.choices.is[f] ELSE Values[f]

Ask(u, promise, path) ==
    /\ clicks < MaxClicks
    /\ clicks' = clicks + 1
    /\ url' = ParseDashboardFilters(u)
    /\ got' = [rows |-> Unread, summary |-> Unread, choices |-> Unread]
    /\ promised' = promise
    /\ walk' = path
    /\ UNCHANGED <<corpus, changes>>

\* One chip per value in force.
Chips == UNION {{f} \X url.want[f] : f \in Facets}
RemoveChip(f, v) ==
    /\ Landed /\ <<f, v>> \in Chips
    /\ Ask(Href(url, f, url.want[f] \ {v}), Nothing, <<>>)

ClearAll == Landed /\ AppliedFilterKeys(url) # {} /\ Ask([DefaultFilters EXCEPT !.sort = url.sort], Nothing, <<>>)

Relax(f) ==
    /\ Landed /\ f \in RelaxSuggestion
    /\ Ask(Href(url, f, {}), [any |-> TRUE, roles |-> Counts.without[f], all |-> FALSE], <<>>)

BrowseAll == Landed /\ EmptyWatchlist /\ Ask(Href(url, "watched", {}), Nothing, <<>>)

ShowAll(w) ==
    /\ Landed /\ w \in FoldLinks
    /\ Ask(Href(url, "company", {Facts[w.role].company}), [any |-> TRUE, roles |-> w.total, all |-> TRUE], <<>>)

GoToPage(n) ==
    /\ Landed /\ n \in PageLinks
    /\ Ask(HrefPage(url, n), Nothing,
           IF n = 1 THEN <<>> ELSE IF n = url.page + 1 /\ walk # <<>> THEN walk ELSE <<>>)

\* The form submits what its panel holds, with the visitor's change.
Submit(f, vs) ==
    /\ Landed /\ f \notin Withheld
    /\ vs \subseteq Panel(f) /\ Cardinality(vs) <= 1
    /\ Ask([want |-> [g \in Facets |-> IF g = f THEN vs ELSE url.want[g] \cap Panel(g)], sort |-> url.sort, page |-> 1],
           Nothing, <<>>)
Sort(s) == Landed /\ s # url.sort /\ Ask([want |-> [g \in Facets |-> url.want[g] \cap Panel(g)], sort |-> s, page |-> 1], Nothing, <<>>)

\* The three reads of a render, side by side.
ReadRows ==
    /\ ~got.rows.read
    /\ got' = [got EXCEPT !.rows = [read |-> TRUE, is |-> PageOf(corpus, url)]]
    /\ walk' = IF url.page = 1 \/ walk # <<>> THEN walk \o PageOf(corpus, url) ELSE walk
    /\ UNCHANGED <<corpus, url, promised, clicks, changes>>
ReadSummary ==
    /\ ~got.summary.read
    /\ got' = [got EXCEPT !.summary = [read |-> TRUE, is |-> Summary(corpus, url)]]
    /\ UNCHANGED <<corpus, url, promised, walk, clicks, changes>>
ReadChoices ==
    /\ ~got.choices.read
    /\ got' = [got EXCEPT !.choices = [read |-> TRUE, is |-> Options(corpus)]]
    /\ UNCHANGED <<corpus, url, promised, walk, clicks, changes>>

\* Collection brings a role into scope, or takes one out.
Collect(r) ==
    /\ changes < MaxChanges
    /\ changes' = changes + 1
    /\ corpus' = IF r \in corpus THEN corpus \ {r} ELSE corpus \cup {r}
    /\ UNCHANGED <<url, got, promised, walk, clicks>>

RolesInit ==
    /\ corpus \in {ToSet(Roles)} \cup {ToSet(Roles) \ {r} : r \in ToSet(Roles)}
    /\ \E u \in Links : url = ParseDashboardFilters(u)
    /\ got = [rows |-> Unread, summary |-> Unread, choices |-> Unread]
    /\ promised = Nothing /\ walk = <<>> /\ clicks = 0 /\ changes = 0

RolesNext ==
    \/ ReadRows \/ ReadSummary \/ ReadChoices
    \/ \E f \in Facets : Relax(f) \/ (\E v \in Values[f] : RemoveChip(f, v))
    \/ \E f \in Facets, vs \in {{}} \cup {{v} : v \in UNION {Values[g] : g \in Facets}} : Submit(f, vs)
    \/ Landed /\ \E w \in FoldLinks : ShowAll(w)
    \/ Landed /\ \E n \in PageLinks : GoToPage(n)
    \/ \E s \in Sorts : Sort(s)
    \/ ClearAll \/ BrowseAll
    \/ \E r \in ToSet(Roles) : Collect(r)

RolesSpec == RolesInit /\ [][RolesNext]_rolesVars

----------------------------------------------------------------------------

\* What a link said is what its view shows when nothing was collected
\* meanwhile: as many programs match without the filter as the suggestion
\* said, and "Show all N roles at a company" lists those N with nothing folded.
PromiseKept ==
    changes = 0 /\ promised.any /\ Landed
    => /\ Counts.matching = promised.roles
       /\ promised.all => Counts.shown = promised.roles /\ Counts.collapsed = 0

\* Page after page from the first on shows every row of the list once, in the
\* order of the sort, if nothing was collected meanwhile: the sort leaves no
\* ties for the pages to break differently.
EveryRowOnce ==
    changes = 0 /\ Landed /\ walk # <<>> /\ url.page = PageCount
    => walk = Shown(corpus, url)

\* The counts a view states add up, whatever was collected between its reads:
\* what matches is what its pages list and what is folded under "Show all".
CountsAddUp == got.summary.read => Counts.matching = Counts.shown + Counts.collapsed

\* The roles list keeps its word, over a view's three reads and over the views its
\* links lead to: a link's promise, each row once page after page, and counts that
\* add up.
ListKeepsItsWord == PromiseKept /\ EveryRowOnce /\ CountsAddUp

=============================================================================
