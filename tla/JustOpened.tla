---------------------------- MODULE JustOpened ----------------------------
(***************************************************************************)
(* The feed of programs that opened in the last 45 days.  A view of it is  *)
(* its URL: a company, a facet, a page.  A render reads the whole window,  *)
(* newest first, keeps what matches, and places it one opening at a time   *)
(* so that no company fills the page; what cannot be placed is counted per *)
(* company and linked to that company's own list.                          *)
(***************************************************************************)
EXTENDS Integers, FiniteSets, Sequences

CONSTANTS
    Openings,       \* the sequences of openings the window may hold, newest first: [company, type]
    Types,          \* the values of the one facet modelled
    OpenedPageSize,
    Window, PerWindow,
    MaxVisits       \* bound: views asked for

EveryCompany == "every company"

\* A window of one place at least, and no company has the name of the mixed feed.
ASSUME WindowAssumption == Window \in Nat /\ PerWindow \in 1..Window
ASSUME OpeningsAssumption ==
    \A o \in Openings : /\ IsFiniteSet(DOMAIN o) /\ DOMAIN o \subseteq Int
                        /\ \A i \in DOMAIN o : o[i].company # EveryCompany

VARIABLES
    opened,     \* the openings of the window; an opening is its index
    view,       \* [company, types, page]
    stage,      \* "asked", "placing" or "drawn"
    left,       \* the openings not placed
    feed,       \* openings placed, in order
    said,       \* what the link followed said of its list, or NotSaid
    visits

openedVars == <<opened, view, stage, left, feed, said, visits>>

NotSaid == [any |-> FALSE]
CompanyOf(i) == opened[i].company
Listed == view.company # EveryCompany

\* rowMatchesFilters: the facets that describe a program, and the company read.
RowMatches(i) ==
    /\ view.types # {} => opened[i].type \in view.types
    /\ Listed => CompanyOf(i) = view.company

JustOpenedOptions == {opened[i].type : i \in {j \in DOMAIN opened : Listed => CompanyOf(j) = view.company}}

\* Openings, newest first.
Listing(is) == [n \in 1..Cardinality(is) |-> CHOOSE i \in is : Cardinality({j \in is : j <= i}) = n]

\* A company's own list is plain newest first; the mixed feed is still to be placed.
LoadJustOpened ==
    LET matching == {i \in DOMAIN opened : RowMatches(i)} IN
    /\ stage = "asked"
    /\ stage' = IF Listed THEN "drawn" ELSE "placing"
    /\ feed' = IF Listed THEN Listing(matching) ELSE <<>>
    /\ left' = IF Listed THEN {} ELSE matching
    /\ UNCHANGED <<opened, view, said, visits>>

Recent == {n \in DOMAIN feed : n + Window - 1 > Len(feed)}
Placed(c, ns) == Cardinality({n \in ns : CompanyOf(feed[n]) = c})

\* (Mutant) the rule looks one place less far back.
MutantPlaceable(i) == Placed(CompanyOf(i), Recent \ {Len(feed) + 2 - Window}) < PerWindow

\* An opening can be placed when fewer than PerWindow of the Window - 1 places
\* before it are its company's.
Placeable(i) == Placed(CompanyOf(i), Recent) < PerWindow

\* The newest that can be.
Place ==
    \E i \in left :
        /\ stage = "placing" /\ Placeable(i) /\ \A j \in left : j < i => ~Placeable(j)
        /\ feed' = Append(feed, i) /\ left' = left \ {i}
        /\ UNCHANGED <<opened, view, stage, said, visits>>

EndPlacing ==
    /\ stage = "placing" /\ \A i \in left : ~Placeable(i)
    /\ stage' = "drawn"
    /\ UNCHANGED <<opened, view, left, feed, said, visits>>

OpenedPage ==
    SubSeq(feed, (view.page - 1) * OpenedPageSize + 1,
           IF view.page * OpenedPageSize < Len(feed) THEN view.page * OpenedPageSize ELSE Len(feed))
Overflow == [c \in {CompanyOf(i) : i \in left} |-> Cardinality({i \in left : CompanyOf(i) = c})]
LastPage == (view.page - 1) * OpenedPageSize + Len(OpenedPage) >= Len(feed)

Visit(v, promise) ==
    /\ stage = "drawn" /\ visits < MaxVisits
    /\ view' = v /\ said' = promise /\ visits' = visits + 1
    /\ stage' = "asked" /\ left' = {} /\ feed' = <<>>
    /\ UNCHANGED opened

MoreFrom(c) == [view EXCEPT !.company = c, !.page = 1]

\* "N more from this company", under the last page of the mixed feed.
FollowMore(c) ==
    /\ LastPage /\ c \in DOMAIN Overflow
    /\ Visit(MoreFrom(c), [any |-> TRUE, rows |-> Overflow[c] + Placed(c, DOMAIN feed)])
FollowEvery == Listed /\ Visit([company |-> EveryCompany, types |-> {}, page |-> 1], NotSaid)
FollowPage(p) ==
    /\ p # view.page /\ (OpenedPage = <<>> => p = 1)
    /\ p \in 1..((Len(feed) + OpenedPageSize - 1) \div OpenedPageSize)
    /\ Visit([view EXCEPT !.page = p], NotSaid)
SubmitFacet(ts) == ts \subseteq JustOpenedOptions /\ ts # view.types /\ Visit([view EXCEPT !.types = ts, !.page = 1], NotSaid)

OpenedInit ==
    /\ opened \in Openings
    /\ view \in [company : {EveryCompany} \cup {opened[i].company : i \in DOMAIN opened}, types : {{}}, page : {1, 2}]
    /\ stage = "asked" /\ left = {} /\ feed = <<>> /\ said = NotSaid /\ visits = 0

OpenedNext ==
    \/ LoadJustOpened \/ Place \/ EndPlacing \/ FollowEvery
    \/ \E c \in DOMAIN Overflow : FollowMore(c)
    \/ \E p \in 1..(Len(feed) + 1) : FollowPage(p)
    \/ \E ts \in SUBSET Types : SubmitFacet(ts)

OpenedSpec == OpenedInit /\ [][OpenedNext]_openedVars

----------------------------------------------------------------------------

\* No company takes more than PerWindow of any Window consecutive places of the
\* mixed feed (keepsCompanyRule, on every feed the pages can draw).
CompanyRule ==
    ~Listed => \A n \in DOMAIN feed :
        Placed(CompanyOf(feed[n]), {m \in DOMAIN feed : n <= m /\ m < n + Window}) <= PerWindow

\* A company's openings keep their order: newest first in the feed, and those
\* left out of it are the older ones.
NewestFirst ==
    \A n \in DOMAIN feed :
        /\ \A m \in DOMAIN feed : n < m /\ CompanyOf(feed[n]) = CompanyOf(feed[m]) => feed[n] < feed[m]
        /\ \A i \in left : CompanyOf(feed[n]) = CompanyOf(i) => feed[n] < i

\* Openings are left out only of as many companies as can fill the places before
\* them, and never of a company with fewer than PerWindow of those places.
FewLeftOut == stage = "drawn" => Cardinality(DOMAIN Overflow) * PerWindow < Window

\* The link to a company's list leads to the openings of it the feed placed and
\* the N more the link named, the facet in force still in force.
MoreIsThere == stage = "drawn" /\ said.any => Len(feed) = said.rows /\ left = {}

\* The mixed feed's placing and its links: the rule, the order, how little is left
\* out, and that the link to the rest leads to all of it.
FeedKeepsTheRule == CompanyRule /\ NewestFirst /\ FewLeftOut /\ MoreIsThere

=============================================================================
