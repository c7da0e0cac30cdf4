---------------------------- MODULE PagesProofs ----------------------------
(***************************************************************************)
(* What the pages tell is so, for every value of the constants: the        *)
(* account page, the feed of what just opened, signing in, the agent's     *)
(* answers, Forecast Replay, a program's pages and the roles list.  Each   *)
(* section has the inductive invariant of its page, one lemma per kind of  *)
(* step, and the theorem.                                                  *)
(***************************************************************************)
EXTENDS Dashboard, AccountPage, JustOpened, SignIn, AgentQuestion, ForecastReplay, ProgramPages,
        FiniteSetTheorems, FunctionTheorems, SequenceTheorems, TLAPS

----------------------------------------------------------------------------
(***************************************************************************)
(* The account page.                                                       *)
(***************************************************************************)

Requested == {"unsent", "under way", "unauthorized", "rows deleted", "deletion_failed", "deleted", "sign_in_not_deleted", "answered"}
Items == "email_digest_items"
Deliveries == "email_digest_deliveries"

Accounts == [rows : [Exported -> SUBSET Keys], signIn : BOOLEAN]
Readings == [stage : {"idle", "reading", "saved"}, read : [Exported -> SUBSET Keys], came : [Exported -> Nat], ended : SUBSET Exported]
Dialogs == [open : BOOLEAN, typed : BOOLEAN, busy : BOOLEAN, problem : Codes \cup {"none", "unknown", "no code"}, left : BOOLEAN]

AccountTypeOK ==
    /\ account \in Accounts /\ reading \in Readings /\ dialog \in Dialogs
    /\ asked \in [1..MaxRequests -> Requested]
    /\ kept \subseteq AllRows /\ ripped \in BOOLEAN /\ rowWrites \in Nat

\* An item is of a delivery that is there.
ItemsHaveDeliveries == account.rows[Items] \subseteq account.rows[Deliveries]

\* A row kept since the export began was read, or is still ahead of the cursor.
Ahead(t, k) ==
    /\ t \notin reading.ended /\ k \in account.rows[t]
    /\ t \in OwnedTables => reading.came[t] < PlaceIn(account.rows[t], k)
    /\ t = Items => /\ <<Deliveries, k>> \in kept
                    /\ Deliveries \in reading.ended => reading.came[t] < PlaceIn(Selected(t), k)
                    /\ Deliveries \notin reading.ended => reading.came[t] = 0
KeptIsReadOrAhead ==
    reading.stage \in {"reading", "saved"} /\ ~ripped => \A t \in Exported, k \in Keys : <<t, k>> \in kept => k \in reading.read[t] \/ Ahead(t, k)
SavedIsEnded == reading.stage = "saved" => reading.ended = Exported

Gone == ~account.signIn /\ account.rows = [t \in Exported |-> {}]
DeletedIsGone == (\A n \in 1..MaxRequests : asked[n] = "deleted" => Gone) /\ (dialog.left => Gone)

\* How far the only request came.
OnlyOne == \A n \in DOMAIN asked : n > 1 => asked[n] = "unsent"
RowsWentOrCame == rowWrites > 0 \/ \A t \in Exported : account.rows[t] = {}
OneIsAsFar ==
    /\ (\A n \in DOMAIN asked : asked[n] = "unsent") => account.signIn
    /\ OnlyOne =>
        /\ asked[1] # "unauthorized" /\ dialog.problem # "unauthorized"
        /\ asked[1] \in {"under way", "rows deleted", "deletion_failed"} => account.signIn
        /\ asked[1] \in {"rows deleted", "sign_in_not_deleted", "deleted"} => RowsWentOrCame
        /\ dialog.problem = "deletion_failed" => account.signIn /\ asked[1] = "answered"
        /\ dialog.problem = "sign_in_not_deleted" => RowsWentOrCame

AccountInv == AccountTypeOK /\ ItemsHaveDeliveries /\ KeptIsReadOrAhead /\ SavedIsEnded /\ DeletedIsGone /\ OneIsAsFar

----------------------------------------------------------------------------

\* The rows of a table are finitely many.
LEMMA RowsAreFinite == \A S \in SUBSET Keys : S \in SUBSET Int /\ IsFiniteSet(S)
BY PageAssumption, FS_Subset

LEMMA PlaceBounds ==
  ASSUME NEW S \in SUBSET Int, IsFiniteSet(S), NEW k \in S
  PROVE  IsFiniteSet(S) /\ Cardinality(S) \in Nat /\ PlaceIn(S, k) \in 1..Cardinality(S)
<1> DEFINE P == {j \in S : j <= k}
<1>1. IsFiniteSet(S) /\ Cardinality(S) \in Nat
  BY FS_Subset, FS_CardinalityType
<1>2. IsFiniteSet(P) /\ Cardinality(P) \in Nat /\ Cardinality(P) <= Cardinality(S)
  BY <1>1, FS_Subset, FS_CardinalityType
<1>3. k \in P
  OBVIOUS
<1>4. Cardinality(P) # 0
  BY <1>2, <1>3, FS_EmptySet
<1> QED BY <1>1, <1>2, <1>4 DEF PlaceIn

\* More rows put none nearer.
LEMMA PlaceGrows ==
  ASSUME NEW S \in SUBSET Int, IsFiniteSet(S), NEW T \in SUBSET S, NEW k \in T
  PROVE  PlaceIn(T, k) <= PlaceIn(S, k)
<1>1. IsFiniteSet({j \in S : j <= k})
  BY FS_Subset
<1>2. {j \in T : j <= k} \subseteq {j \in S : j <= k}
  OBVIOUS
<1> QED BY <1>1, <1>2, FS_Subset DEF PlaceIn

\* No two rows have one place.
LEMMA PlacesDiffer ==
  ASSUME NEW S \in SUBSET Int, IsFiniteSet(S), NEW k \in S, NEW l \in S, k < l
  PROVE  PlaceIn(S, k) < PlaceIn(S, l)
<1> DEFINE A == {j \in S : j <= k}
           B == {j \in S : j <= l}
<1>1. k \in Int /\ l \in Int /\ S \subseteq Int
  OBVIOUS
<1>2. l \in B /\ A \subseteq B \ {l}
  <2>1. ASSUME NEW j \in S, j <= k PROVE j <= l /\ j # l
    <3>1. j \in Int
      BY <1>1
    <3> QED BY <1>1, <2>1, <3>1
  <2>2. l <= l
    BY <1>1
  <2> QED BY <2>1, <2>2
<1>3. IsFiniteSet(B) /\ Cardinality(B) \in Nat
  BY FS_Subset, FS_CardinalityType
<1>4. IsFiniteSet(B \ {l}) /\ Cardinality(B \ {l}) = Cardinality(B) - 1
  BY <1>2, <1>3, FS_RemoveElement
<1>5. Cardinality(A) <= Cardinality(B \ {l}) /\ Cardinality(A) \in Nat
  BY <1>2, <1>4, FS_Subset, FS_CardinalityType
<1> QED BY <1>3, <1>4, <1>5 DEF PlaceIn

\* Every place up to the number of rows is a row's.
LEMMA PlacesAreTaken ==
  ASSUME NEW S \in SUBSET Int, IsFiniteSet(S), NEW n \in 1..Cardinality(S)
  PROVE  \E k \in S : PlaceIn(S, k) = n
<1> DEFINE f == [k \in S |-> PlaceIn(S, k)]
           T == 1..Cardinality(S)
<1>1. IsFiniteSet(S) /\ Cardinality(S) \in Nat
  BY FS_Subset, FS_CardinalityType
<1>2. f \in [S -> T]
  BY PlaceBounds
<1>3. \A k, l \in S : f[k] = f[l] => k = l
  <2> SUFFICES ASSUME NEW k \in S, NEW l \in S, k # l PROVE f[k] # f[l]
    OBVIOUS
  <2>1. k < l \/ l < k
    OBVIOUS
  <2>2. PlaceIn(S, k) \in Nat /\ PlaceIn(S, l) \in Nat
    BY PlaceBounds
  <2> QED BY <2>1, <2>2, PlacesDiffer
<1> HIDE DEF f
<1>4. f \in Injection(S, T)
  BY <1>2, <1>3 DEF Injection, IsInjective
<1>5. IsFiniteSet(T) /\ Cardinality(T) = Cardinality(S)
  BY <1>1, FS_Interval
<1>6. f \in Surjection(S, T)
  BY <1>4, <1>5, FS_Injection
<1>7. \E k \in S : f[k] = n
  BY <1>6 DEF Surjection
<1> QED BY <1>7 DEF f

\* A page holds no more rows than it may, and when it holds fewer there is none past it.
LEMMA PageHolds ==
  ASSUME NEW S \in SUBSET Keys, NEW from \in Nat
  PROVE  /\ PageFrom(S, from) \subseteq S /\ Cardinality(PageFrom(S, from)) \in Nat /\ Cardinality(PageFrom(S, from)) <= ReadPage
         /\ \A k \in S : from < PlaceIn(S, k) /\ k \notin PageFrom(S, from)
                         => from + Cardinality(PageFrom(S, from)) < PlaceIn(S, k) /\ Cardinality(PageFrom(S, from)) = ReadPage
<1> DEFINE P == PageFrom(S, from)
           T == (from + 1)..(from + ReadPage)
           f == [k \in P |-> PlaceIn(S, k)]
<1>0. ReadPage \in Nat \ {0}
  BY PageAssumption
<1>1. P \subseteq S /\ IsFiniteSet(P) /\ Cardinality(P) \in Nat
  <2>1. P \subseteq S /\ IsFiniteSet(S)
    BY PageAssumption, FS_Subset DEF PageFrom
  <2> QED BY <2>1, FS_Subset, FS_CardinalityType
<1>2. IsFiniteSet(T) /\ Cardinality(T) = ReadPage
  BY <1>0, FS_Interval
<1>3. f \in [P -> T]
  <2> SUFFICES ASSUME NEW k \in P PROVE PlaceIn(S, k) \in T
    OBVIOUS
  <2>1. PlaceIn(S, k) \in Nat
    BY <1>1, RowsAreFinite, PlaceBounds
  <2> QED BY <1>0, <2>1 DEF PageFrom
<1>4. \A k, l \in P : f[k] = f[l] => k = l
  <2> SUFFICES ASSUME NEW k \in P, NEW l \in P, k # l PROVE f[k] # f[l]
    OBVIOUS
  <2>0. k \in S /\ l \in S /\ S \subseteq Int
    BY <1>1, PageAssumption
  <2>1. k < l \/ l < k
    <3> HIDE DEF P, f
    <3>1. k \in Int /\ l \in Int
      BY <2>0
    <3> QED BY <3>1
  <2>2. PlaceIn(S, k) \in Nat /\ PlaceIn(S, l) \in Nat
    BY <1>1, RowsAreFinite, PlaceBounds
  <2> QED BY <1>1, <2>1, <2>2, RowsAreFinite, PlacesDiffer
<1> DEFINE Full == \E k \in S : from < PlaceIn(S, k) /\ k \notin P
<1>5. ASSUME Full PROVE f \in Surjection(P, T)
  <2>1. PICK k \in S : from < PlaceIn(S, k) /\ k \notin P
    BY <1>5
  <2>2. PlaceIn(S, k) \in 1..Cardinality(S) /\ Cardinality(S) \in Nat
    BY RowsAreFinite, PlaceBounds
  <2>3. from + ReadPage < PlaceIn(S, k)
    BY <1>0, <2>1, <2>2 DEF PageFrom
  <2>4. ASSUME NEW n \in T PROVE \E j \in P : f[j] = n
    <3>1. n \in 1..Cardinality(S) /\ from < n /\ n <= from + ReadPage
      BY <1>0, <2>2, <2>3, <2>4
    <3>2. PICK j \in S : PlaceIn(S, j) = n
      BY <3>1, RowsAreFinite, PlacesAreTaken
    <3> QED BY <3>1, <3>2 DEF PageFrom
  <2> QED BY <1>3, <2>4 DEF Surjection
<1> HIDE DEF f
<1>6. f \in Injection(P, T)
  BY <1>3, <1>4 DEF Injection, IsInjective
<1>7. Cardinality(P) <= ReadPage
  BY <1>2, <1>6, FS_Injection
<1>8. Full => Cardinality(P) = ReadPage
  BY <1>2, <1>5, <1>6, FS_Injection
<1>9. ASSUME NEW k \in S, from < PlaceIn(S, k), k \notin P PROVE from + Cardinality(P) < PlaceIn(S, k)
  <2>1. PlaceIn(S, k) \in Nat
    BY RowsAreFinite, PlaceBounds
  <2>2. from + ReadPage < PlaceIn(S, k)
    BY <1>0, <1>9, <2>1 DEF PageFrom
  <2> HIDE DEF P
  <2> QED BY <1>0, <1>1, <1>7, <2>1, <2>2
<1> QED BY <1>1, <1>7, <1>8, <1>9

----------------------------------------------------------------------------
(* The export.                                                             *)


\* The export reads and writes nothing else.
ExportOnly == UNCHANGED <<account, dialog, asked, rowWrites>>

LEMMA ExportLeavesTheRest ==
  ASSUME ItemsHaveDeliveries, DeletedIsGone, OneIsAsFar, ExportOnly
  PROVE  ItemsHaveDeliveries' /\ DeletedIsGone' /\ OneIsAsFar'
BY DEF ItemsHaveDeliveries, DeletedIsGone, OneIsAsFar, ExportOnly, Gone, OnlyOne, RowsWentOrCame

LEMMA NotReadingIsAReading ==
  NotReading \in Readings /\ NotReading.stage = "idle" /\ NotReading.came = [t \in Exported |-> 0] /\ NotReading.ended = {}
BY DEF NotReading, NoRows, Readings

LEMMA DownloadSteps ==
  ASSUME AccountInv, Download
  PROVE  AccountInv'
<1>0. ExportOnly
  BY DEF Download, ExportOnly
<1>1. ItemsHaveDeliveries' /\ DeletedIsGone' /\ OneIsAsFar'
  BY <1>0, ExportLeavesTheRest DEF AccountInv
<1>2. CASE Refuses
  BY <1>0, <1>1, <1>2 DEF Download, ExportOnly, AccountInv, AccountTypeOK, KeptIsReadOrAhead, SavedIsEnded, Ahead, Selected
<1>3. CASE ~Refuses
  <2>1. /\ reading' = [NotReading EXCEPT !.stage = "reading"]
        /\ kept' = {r \in AllRows : r[2] \in account.rows[r[1]]} /\ ripped' = FALSE
    BY <1>3 DEF Download
  <2>2. reading' \in Readings /\ reading'.stage = "reading" /\ reading'.came = [t \in Exported |-> 0] /\ reading'.ended = {}
    BY <2>1, NotReadingIsAReading DEF Readings
  <2>3. AccountTypeOK'
    BY <1>0, <2>1, <2>2 DEF AccountInv, AccountTypeOK, ExportOnly, Readings
  <2>4. SavedIsEnded'
    BY <2>2 DEF SavedIsEnded
  <2>5. ASSUME NEW t \in Exported, NEW k \in Keys, <<t, k>> \in kept' PROVE Ahead(t, k)'
    <3>1. k \in account.rows[t] /\ account' = account /\ account.rows[t] \in SUBSET Keys
      BY <1>0, <2>1, <2>5 DEF ExportOnly, AccountInv, AccountTypeOK, Accounts
    <3>2. PlaceIn(account.rows[t], k) > 0
      BY <3>1, RowsAreFinite, PlaceBounds
    <3>3. t = Items => <<Deliveries, k>> \in kept'
      BY <2>1, <3>1 DEF AccountInv, ItemsHaveDeliveries, AllRows, Exported, OwnedTables, Items, Deliveries
    <3> QED BY <2>2, <3>1, <3>2, <3>3 DEF Ahead
  <2>6. KeptIsReadOrAhead'
    BY <2>5 DEF KeptIsReadOrAhead
  <2> QED BY <1>1, <2>3, <2>4, <2>6 DEF AccountInv
<1> QED BY <1>2, <1>3

LEMMA FetchFailsSteps ==
  ASSUME AccountInv, FetchFails
  PROVE  AccountInv'
<1>0. ExportOnly /\ reading' = NotReading /\ UNCHANGED <<kept, ripped>>
  BY DEF FetchFails, ExportOnly
<1>1. ItemsHaveDeliveries' /\ DeletedIsGone' /\ OneIsAsFar'
  BY <1>0, ExportLeavesTheRest DEF AccountInv
<1>2. AccountTypeOK'
  BY <1>0, NotReadingIsAReading DEF AccountInv, AccountTypeOK, ExportOnly, Readings
<1>3. KeptIsReadOrAhead' /\ SavedIsEnded'
  BY <1>0, NotReadingIsAReading DEF KeptIsReadOrAhead, SavedIsEnded
<1> QED BY <1>1, <1>2, <1>3 DEF AccountInv

LEMMA SaveFileSteps ==
  ASSUME AccountInv, SaveFile
  PROVE  AccountInv'
<1>0. ExportOnly /\ UNCHANGED <<kept, ripped>> /\ reading.stage = "reading" /\ reading.ended = Exported
  BY DEF SaveFile, ExportOnly
<1>1. ItemsHaveDeliveries' /\ DeletedIsGone' /\ OneIsAsFar'
  BY <1>0, ExportLeavesTheRest DEF AccountInv
<1>2. reading \in Readings
  BY DEF AccountInv, AccountTypeOK, Readings
<1>3. reading' \in Readings /\ reading'.read = reading.read /\ reading'.came = reading.came /\ reading'.ended = reading.ended
  BY <1>2 DEF SaveFile, Readings
<1>4. AccountTypeOK'
  BY <1>0, <1>3 DEF AccountInv, AccountTypeOK, ExportOnly, Readings
<1>5. SavedIsEnded'
  BY <1>0, <1>3 DEF SavedIsEnded
<1>6. KeptIsReadOrAhead'
  BY <1>0, <1>3 DEF AccountInv, KeptIsReadOrAhead, Ahead, ExportOnly
<1> QED BY <1>1, <1>4, <1>5, <1>6 DEF AccountInv

LEMMA FetchPageSteps ==
  ASSUME AccountInv, NEW t \in Exported, FetchPage(t)
  PROVE  AccountInv'
<1> DEFINE from == reading.came[t]
           fetched == PageFrom(Selected(t), from)
           size == Cardinality(fetched)
           late == size = ReadPage /\ from + ReadPage >= MaxRows
<1>0. ExportOnly /\ UNCHANGED <<kept, ripped>> /\ CanRead(t)
  BY DEF FetchPage, ExportOnly
<1>1. ItemsHaveDeliveries' /\ DeletedIsGone' /\ OneIsAsFar'
  BY <1>0, ExportLeavesTheRest DEF AccountInv
<1>2. reading \in Readings /\ account \in Accounts
  BY DEF AccountInv, AccountTypeOK, Readings, Accounts
<1>3. CASE late
  <2>1. reading' = NotReading
    BY <1>3 DEF FetchPage
  <2>2. AccountTypeOK'
    BY <1>0, <2>1, NotReadingIsAReading DEF AccountInv, AccountTypeOK, ExportOnly, Readings
  <2>3. KeptIsReadOrAhead' /\ SavedIsEnded'
    BY <2>1, NotReadingIsAReading DEF KeptIsReadOrAhead, SavedIsEnded
  <2> QED BY <1>1, <2>2, <2>3 DEF AccountInv
<1>4. CASE ~late
  <2>1. Selected(t) \in SUBSET Keys /\ from \in Nat /\ \A k \in Selected(t) : k \in account.rows[t]
    BY <1>2 DEF Selected, Readings, Accounts
  <2>2. /\ fetched \subseteq Selected(t) /\ size \in Nat /\ size <= ReadPage
        /\ \A k \in Selected(t) : from < PlaceIn(Selected(t), k) /\ k \notin fetched
                                  => from + size < PlaceIn(Selected(t), k) /\ size = ReadPage
    BY <2>1, PageHolds
  <2>3. reading' = [reading EXCEPT !.read[t] = @ \cup fetched, !.came[t] = @ + size,
                                   !.ended = IF size < ReadPage THEN @ \cup {t} ELSE @]
    BY <1>4 DEF FetchPage
  <2> HIDE DEF fetched, size, late
  <2>4. /\ reading'.stage = reading.stage
        /\ reading'.read = [reading.read EXCEPT ![t] = @ \cup fetched]
        /\ reading'.came = [reading.came EXCEPT ![t] = @ + size]
        /\ reading'.ended = IF size < ReadPage THEN reading.ended \cup {t} ELSE reading.ended
        /\ reading' = [stage |-> reading'.stage, read |-> reading'.read, came |-> reading'.came, ended |-> reading'.ended]
    BY <1>2, <2>3 DEF Readings
  <2>5. reading' \in Readings
    <3>1. reading'.read \in [Exported -> SUBSET Keys]
      BY <1>2, <2>1, <2>2, <2>4 DEF Readings
    <3>2. reading'.came \in [Exported -> Nat]
      BY <1>2, <2>1, <2>2, <2>4 DEF Readings
    <3>3. reading'.ended \in SUBSET Exported /\ reading'.stage \in {"idle", "reading", "saved"}
      BY <1>2, <2>4 DEF Readings
    <3> QED BY <2>4, <3>1, <3>2, <3>3 DEF Readings
  <2>6. AccountTypeOK'
    BY <1>0, <2>5 DEF AccountInv, AccountTypeOK, ExportOnly, Readings
  <2>7. SavedIsEnded'
    BY <1>0, <2>4 DEF SavedIsEnded, CanRead
  <2>8. KeptIsReadOrAhead'
    <3> SUFFICES ASSUME ~ripped PROVE \A u \in Exported, k \in Keys : <<u, k>> \in kept => k \in reading'.read[u] \/ Ahead(u, k)'
      BY <1>0 DEF KeptIsReadOrAhead
    <3>1. reading.stage = "reading" /\ t \notin reading.ended /\ (t \in OwnedTables \/ OwnedTables \subseteq reading.ended)
      BY <1>0 DEF CanRead
    <3>2. \A u \in Exported, k \in Keys : <<u, k>> \in kept => k \in reading.read[u] \/ Ahead(u, k)
      BY <3>1 DEF AccountInv, KeptIsReadOrAhead
    <3>3. \A u \in Exported : reading.read[u] \subseteq reading'.read[u] /\ (u # t => reading'.read[u] = reading.read[u] /\ reading'.came[u] = reading.came[u] /\ (u \in reading'.ended <=> u \in reading.ended))
      BY <1>2, <2>4 DEF Readings
    <3>4. account' = account /\ kept' = kept
      BY <1>0 DEF ExportOnly
    <3>5. Exported = {"watchlist_items", Deliveries, Items} /\ OwnedTables = {"watchlist_items", Deliveries} /\ Items \notin OwnedTables /\ Items # Deliveries
      BY DEF Exported, OwnedTables, Items, Deliveries
    \* The table read.
    <3>6. ASSUME NEW k \in Keys, <<t, k>> \in kept, k \notin reading'.read[t] PROVE Ahead(t, k)'
      <4>1. k \notin reading.read[t] /\ Ahead(t, k) /\ k \notin fetched
        <5>1. reading'.read[t] = reading.read[t] \cup fetched
          BY <1>2, <2>4 DEF Readings
        <5> QED BY <3>2, <3>6, <5>1
      <4>2. k \in Selected(t) /\ from < PlaceIn(Selected(t), k)
        <5>1. CASE t \in OwnedTables
          BY <3>5, <4>1, <5>1 DEF Ahead, Selected, Items
        <5>2. CASE t = Items
          <6>1. Deliveries \in reading.ended
            BY <3>1, <3>5, <5>2
          <6>2. <<Deliveries, k>> \in kept /\ k \in account.rows[Items] /\ reading.came[Items] < PlaceIn(Selected(Items), k)
            BY <4>1, <5>2, <6>1 DEF Ahead
          <6>3. k \in reading.read[Deliveries]
            BY <3>2, <3>5, <6>1, <6>2 DEF Ahead
          <6> QED BY <5>2, <6>2, <6>3 DEF Selected, Items, Deliveries
        <5> QED BY <3>5, <5>1, <5>2
      <4>3. from + size < PlaceIn(Selected(t), k) /\ size = ReadPage
        BY <2>2, <4>1, <4>2
      <4>4. reading'.came[t] = from + size /\ t \notin reading'.ended
        <5>1. ~(size < ReadPage)
          BY <2>2, <4>3, PageAssumption
        <5> QED BY <1>2, <2>4, <3>1, <5>1 DEF Readings
      <4>5. CASE t \in OwnedTables
        BY <3>4, <3>5, <4>1, <4>3, <4>4, <4>5 DEF Ahead, Selected, Items
      <4>6. CASE t = Items
        <5>1. reading'.read[Deliveries] = reading.read[Deliveries] /\ Deliveries \in reading'.ended
          BY <3>1, <3>3, <3>5, <4>6
        <5>2. Selected(t)' = Selected(t)
          BY <3>4, <4>6, <5>1 DEF Selected, Items, Deliveries
        <5> QED BY <3>4, <3>5, <4>1, <4>3, <4>4, <4>6, <5>1, <5>2 DEF Ahead
      <4> QED BY <3>5, <4>5, <4>6
    \* The others.
    <3>7. ASSUME NEW u \in Exported, u # t, NEW k \in Keys, <<u, k>> \in kept, k \notin reading'.read[u] PROVE Ahead(u, k)'
      <4>1. Ahead(u, k) /\ u \notin reading'.ended /\ reading'.came[u] = reading.came[u]
        BY <3>2, <3>3, <3>7 DEF Ahead
      <4>2. CASE u \in OwnedTables
        BY <3>4, <3>5, <4>1, <4>2 DEF Ahead
      <4>3. CASE u = Items /\ t # Deliveries
        <5>1. Selected(Items)' = Selected(Items)
          BY <3>3, <3>4, <3>5, <4>3 DEF Selected, Items, Deliveries
        <5> QED BY <3>3, <3>4, <3>5, <4>1, <4>3, <5>1 DEF Ahead
      <4>4. CASE u = Items /\ t = Deliveries
        <5>1. <<Deliveries, k>> \in kept /\ k \in account.rows[Items] /\ reading.came[Items] = 0
          BY <3>1, <4>1, <4>4 DEF Ahead
        <5>2. Deliveries \in reading'.ended => reading'.came[Items] < PlaceIn(Selected(Items), k)'
          <6> SUFFICES ASSUME Deliveries \in reading'.ended PROVE reading'.came[Items] < PlaceIn(Selected(Items), k)'
            OBVIOUS
          <6>1. k \in reading'.read[Deliveries]
            BY <3>6, <4>4, <5>1 DEF Ahead
          <6>2. k \in Selected(Items)' /\ Selected(Items)' \in SUBSET Keys
            BY <1>2, <3>4, <3>5, <5>1, <6>1 DEF Selected, Items, Deliveries, Accounts
          <6>3. PlaceIn(Selected(Items)', k) > 0
            BY <6>2, RowsAreFinite, PlaceBounds
          <6> QED BY <4>1, <4>4, <5>1, <6>3
        <5> QED BY <3>4, <3>5, <4>1, <4>4, <5>1, <5>2 DEF Ahead
      <4> QED BY <3>5, <4>2, <4>3, <4>4
    <3> QED BY <3>6, <3>7
  <2> QED BY <1>1, <2>6, <2>7, <2>8 DEF AccountInv
<1> QED BY <1>3, <1>4

----------------------------------------------------------------------------
(* The rows another tab writes.                                            *)


LEMMA FirstRequest == 1 \in 1..MaxRequests
<1>1. \A n \in Nat : n # 0 => 1 \in 1..n
  OBVIOUS
<1>2. MaxRequests \in Nat /\ MaxRequests # 0
  BY PageAssumption
<1> QED BY <1>1, <1>2

\* The request that moved is the only one.
LEMMA TheOnlyOne ==
  ASSUME asked \in [1..MaxRequests -> Requested], asked' \in [1..MaxRequests -> Requested], NEW n \in 1..MaxRequests,
         asked'[n] # "unsent", \A m \in 1..MaxRequests : m # n => asked'[m] = asked[m], OnlyOne'
  PROVE  n = 1 /\ OnlyOne /\ (asked[1] = "unsent" => \A m \in DOMAIN asked : asked[m] = "unsent")
<1>1. \A m \in 1..MaxRequests : m > 1 => asked'[m] = "unsent"
  BY DEF OnlyOne
<1>2. n = 1
  <2>1. n \in Int /\ n >= 1 /\ ~(n > 1)
    BY <1>1
  <2> QED BY <2>1
<1>3. \A m \in 1..MaxRequests : m > 1 => asked[m] = "unsent"
  BY <1>1, <1>2
<1>4. \A m \in 1..MaxRequests : m = 1 \/ m > 1
  OBVIOUS
<1> QED BY <1>2, <1>3, <1>4 DEF OnlyOne

LEMMA TableNames ==
  Exported = {"watchlist_items", Deliveries, Items} /\ OwnedTables = {"watchlist_items", Deliveries} /\ Items \notin OwnedTables
BY DEF Exported, OwnedTables, Items, Deliveries

\* An item that is ahead when the deliveries are read is of a delivery that was read.
LEMMA AheadIsSelected ==
  ASSUME KeptIsReadOrAhead, reading.stage \in {"reading", "saved"}, ~ripped, NEW k \in Keys,
         <<Items, k>> \in kept, Ahead(Items, k), Deliveries \in reading.ended
  PROVE  k \in Selected(Items)
<1>1. <<Deliveries, k>> \in kept /\ k \in account.rows[Items]
  BY DEF Ahead
<1>2. k \in reading.read[Deliveries]
  BY <1>1, TableNames DEF KeptIsReadOrAhead, Ahead
<1> QED BY <1>1, <1>2 DEF Selected, Items, Deliveries

LEMMA WriteRow1Steps ==
  ASSUME AccountInv, NEW t \in Exported, NEW key \in Keys, WriteRow1(t, key)
  PROVE  AccountInv'
<1>1. /\ rowWrites \in Nat /\ rowWrites' = rowWrites + 1 /\ account.signIn /\ t \in OwnedTables
      /\ UNCHANGED <<reading, kept, ripped, dialog, asked>>
  BY DEF WriteRow1, AccountInv, AccountTypeOK
<1>2. account \in Accounts
  BY DEF AccountInv, AccountTypeOK, Accounts
<1>3. account'.signIn = account.signIn /\ account' = [rows |-> account'.rows, signIn |-> account.signIn]
      /\ account'.rows = [account.rows EXCEPT ![t] = @ \cup {key},
                              ![Items] = IF t = Deliveries THEN @ \cup {key} ELSE @]
  BY <1>2 DEF WriteRow1, Accounts, Items, Deliveries
<1>4. account'.rows \in [Exported -> SUBSET Keys] /\ \A u \in Exported : account.rows[u] \subseteq account'.rows[u]
  BY <1>1, <1>2, <1>3, TableNames DEF Accounts
<1>5. AccountTypeOK'
  <2>1. account' \in Accounts
    BY <1>2, <1>3, <1>4 DEF Accounts
  <2> QED BY <1>1, <2>1 DEF AccountInv, AccountTypeOK, Accounts
<1>6. ItemsHaveDeliveries'
  <2>1. account.rows[Items] \subseteq account.rows[Deliveries]
    BY DEF AccountInv, ItemsHaveDeliveries
  <2>2. CASE t = Deliveries
    <3>1. account'.rows[Items] = account.rows[Items] \cup {key} /\ account'.rows[Deliveries] = account.rows[Deliveries] \cup {key}
      BY <1>1, <1>2, <1>3, <2>2, TableNames DEF Accounts
    <3> QED BY <2>1, <3>1 DEF ItemsHaveDeliveries
  <2>3. CASE t # Deliveries
    <3>1. account'.rows[Items] = account.rows[Items] /\ account'.rows[Deliveries] = account.rows[Deliveries]
      BY <1>1, <1>2, <1>3, <2>3, TableNames DEF Accounts
    <3> QED BY <2>1, <3>1 DEF ItemsHaveDeliveries
  <2> QED BY <2>2, <2>3
<1>7. SavedIsEnded'
  BY <1>1 DEF AccountInv, SavedIsEnded
<1>8. KeptIsReadOrAhead'
  <2> SUFFICES ASSUME reading.stage \in {"reading", "saved"}, ~ripped, NEW u \in Exported, NEW k \in Keys, <<u, k>> \in kept, k \notin reading.read[u]
               PROVE  Ahead(u, k)'
    BY <1>1 DEF KeptIsReadOrAhead
  <2>1. Ahead(u, k)
    BY DEF AccountInv, KeptIsReadOrAhead
  <2>2. u \in OwnedTables => reading.came[u] < PlaceIn(account'.rows[u], k)
    <3> SUFFICES ASSUME u \in OwnedTables PROVE reading.came[u] < PlaceIn(account'.rows[u], k)
      OBVIOUS
    <3>1. reading.came[u] \in Nat /\ reading.came[u] < PlaceIn(account.rows[u], k) /\ k \in account.rows[u]
      BY <2>1 DEF Ahead, AccountInv, AccountTypeOK, Readings
    <3>2. /\ account.rows[u] \in SUBSET account'.rows[u] /\ account'.rows[u] \in SUBSET Keys /\ account.rows[u] \in SUBSET Keys
          /\ k \in account'.rows[u]
      BY <1>4, <3>1
    <3>3. PlaceIn(account.rows[u], k) <= PlaceIn(account'.rows[u], k)
      BY <3>1, <3>2, RowsAreFinite, PlaceGrows
    <3>4. PlaceIn(account.rows[u], k) \in Nat /\ PlaceIn(account'.rows[u], k) \in Nat
      <4>1. \A S \in SUBSET Keys, j \in Keys : j \in S => PlaceIn(S, j) \in Nat
        BY RowsAreFinite, PlaceBounds
      <4> QED BY <3>1, <3>2, <4>1
    <3> QED BY <3>1, <3>3, <3>4
  <2>3. u = Items /\ Deliveries \in reading.ended => reading.came[u] < PlaceIn(Selected(u)', k)
    <3> SUFFICES ASSUME u = Items, Deliveries \in reading.ended PROVE reading.came[Items] < PlaceIn(Selected(Items)', k)
      OBVIOUS
    <3>1. k \in Selected(Items) /\ reading.came[Items] < PlaceIn(Selected(Items), k) /\ reading.came[Items] \in Nat
      BY <2>1, AheadIsSelected DEF Ahead, AccountInv, AccountTypeOK, Readings
    <3>2. Selected(Items) \in SUBSET Selected(Items)' /\ Selected(Items)' \in SUBSET Keys
      BY <1>1, <1>4, TableNames DEF Selected, Items, Deliveries
    <3>3. PlaceIn(Selected(Items), k) <= PlaceIn(Selected(Items)', k)
      BY <3>1, <3>2, RowsAreFinite, PlaceGrows
    <3>4. PlaceIn(Selected(Items), k) \in Nat /\ PlaceIn(Selected(Items)', k) \in Nat
      BY <3>1, <3>2, RowsAreFinite, PlaceBounds
    <3> QED BY <3>1, <3>3, <3>4
  <2> QED BY <1>1, <1>4, <2>1, <2>2, <2>3 DEF Ahead
<1>9. DeletedIsGone'
  BY <1>1 DEF AccountInv, DeletedIsGone, Gone
<1>10. OneIsAsFar'
  <2>1. RowsWentOrCame'
    BY <1>1 DEF RowsWentOrCame
  <2> QED BY <1>1, <1>3, <2>1 DEF AccountInv, OneIsAsFar, OnlyOne
<1> QED BY <1>5, <1>6, <1>7, <1>8, <1>9, <1>10 DEF AccountInv

LEMMA RemoveRowSteps ==
  ASSUME AccountInv, NEW key \in Keys, RemoveRow(key)
  PROVE  AccountInv'
<1> DEFINE W == "watchlist_items"
<1>1. /\ rowWrites \in Nat /\ rowWrites' = rowWrites + 1 /\ key \in account.rows[W]
      /\ ripped \in BOOLEAN /\ ripped' = (reading.stage = "reading" \/ ripped)
      /\ UNCHANGED <<reading, kept, dialog, asked>>
  BY DEF RemoveRow, AccountInv, AccountTypeOK
<1>2. account \in Accounts
  BY DEF AccountInv, AccountTypeOK, Accounts
<1>3. account'.signIn = account.signIn /\ account' = [rows |-> account'.rows, signIn |-> account.signIn]
      /\ account'.rows = [account.rows EXCEPT ![W] = @ \ {key}]
  BY <1>2 DEF RemoveRow, Accounts
<1>4. AccountTypeOK'
  <2>1. account' \in Accounts
    BY <1>2, <1>3 DEF Accounts
  <2> QED BY <1>1, <2>1 DEF AccountInv, AccountTypeOK, Accounts
<1>5. ItemsHaveDeliveries'
  <2>1. account'.rows[Items] = account.rows[Items] /\ account'.rows[Deliveries] = account.rows[Deliveries]
    BY <1>2, <1>3, TableNames DEF Accounts, Items, Deliveries
  <2> QED BY <2>1 DEF AccountInv, ItemsHaveDeliveries
<1>6. SavedIsEnded'
  BY <1>1 DEF AccountInv, SavedIsEnded
<1>7. KeptIsReadOrAhead'
  BY <1>1 DEF AccountInv, KeptIsReadOrAhead, SavedIsEnded, Ahead
<1>8. DeletedIsGone'
  <2>1. ~Gone
    BY <1>1, TableNames DEF Gone
  <2> QED BY <1>1, <2>1 DEF AccountInv, DeletedIsGone
<1>9. OneIsAsFar'
  <2>1. RowsWentOrCame'
    BY <1>1 DEF RowsWentOrCame
  <2> QED BY <1>1, <1>3, <2>1 DEF AccountInv, OneIsAsFar, OnlyOne
<1> QED BY <1>4, <1>5, <1>6, <1>7, <1>8, <1>9 DEF AccountInv

----------------------------------------------------------------------------
(* The dialog.                                                             *)

\* The page alone changes.
DialogOnly == dialog' \in Dialogs /\ dialog'.left = dialog.left /\ UNCHANGED <<account, reading, kept, ripped, rowWrites>>

LEMMA DialogLeavesTheRest ==
  ASSUME AccountInv, DialogOnly, asked' \in [1..MaxRequests -> Requested]
  PROVE  AccountTypeOK' /\ ItemsHaveDeliveries' /\ KeptIsReadOrAhead' /\ SavedIsEnded'
BY DEF AccountInv, DialogOnly, AccountTypeOK, ItemsHaveDeliveries, KeptIsReadOrAhead, SavedIsEnded, Ahead, Selected, Dialogs

LEMMA OpeningSteps ==
  ASSUME AccountInv, OpenDialog \/ TypePhrase \/ CloseDialog
  PROVE  AccountInv'
<1>1. dialog \in Dialogs /\ asked \in [1..MaxRequests -> Requested]
  BY DEF AccountInv, AccountTypeOK, Dialogs
<1>2. /\ UNCHANGED <<account, reading, kept, ripped, asked, rowWrites>>
      /\ dialog' \in Dialogs /\ dialog'.left = dialog.left /\ dialog'.problem \in {dialog.problem, "none"}
  <2>1. CASE OpenDialog
    BY <1>1, <2>1 DEF OpenDialog, Dialogs
  <2>2. CASE TypePhrase
    BY <1>1, <2>2 DEF TypePhrase, Dialogs
  <2>3. CASE CloseDialog
    BY <1>1, <2>3 DEF CloseDialog, Dialogs
  <2> QED BY <2>1, <2>2, <2>3
<1>3. AccountTypeOK' /\ ItemsHaveDeliveries' /\ KeptIsReadOrAhead' /\ SavedIsEnded'
  BY <1>1, <1>2, DialogLeavesTheRest DEF DialogOnly
<1>4. DeletedIsGone'
  BY <1>2 DEF AccountInv, DeletedIsGone, Gone
<1>5. OneIsAsFar'
  BY <1>2 DEF AccountInv, OneIsAsFar, OnlyOne, RowsWentOrCame
<1> QED BY <1>3, <1>4, <1>5 DEF AccountInv

LEMMA SubmitDeletionSteps ==
  ASSUME AccountInv, NEW n \in DOMAIN asked, SubmitDeletion(n)
  PROVE  AccountInv'
<1>1. dialog \in Dialogs /\ asked \in [1..MaxRequests -> Requested] /\ n \in 1..MaxRequests /\ 1 \in 1..MaxRequests
  BY FirstRequest DEF AccountInv, AccountTypeOK
<1>2. /\ UNCHANGED <<account, reading, kept, ripped, rowWrites>> /\ asked[n] = "unsent"
      /\ dialog' \in Dialogs /\ dialog'.left = dialog.left /\ dialog'.problem = "none"
  BY <1>1 DEF SubmitDeletion, Dialogs
<1>3. PICK where \in {"unauthorized", "under way"} :
        asked' = [asked EXCEPT ![n] = where] /\ (where = "unauthorized" <=> ~account.signIn)
  BY DEF SubmitDeletion, Refuses
<1>4. asked' \in [1..MaxRequests -> Requested] /\ asked'[n] = where /\ \A m \in 1..MaxRequests : m # n => asked'[m] = asked[m]
  BY <1>1, <1>3 DEF Requested
<1>5. AccountTypeOK' /\ ItemsHaveDeliveries' /\ KeptIsReadOrAhead' /\ SavedIsEnded'
  BY <1>2, <1>4, DialogLeavesTheRest DEF DialogOnly
<1>6. DeletedIsGone'
  BY <1>2, <1>4 DEF AccountInv, DeletedIsGone, Gone
<1>7. OneIsAsFar'
  <2>1. OnlyOne' => n = 1 /\ \A m \in DOMAIN asked : asked[m] = "unsent"
    BY <1>1, <1>2, <1>3, <1>4, TheOnlyOne
  <2>2. OnlyOne' => account.signIn
    BY <2>1 DEF AccountInv, OneIsAsFar
  <2> QED BY <1>1, <1>2, <1>3, <1>4, <2>1, <2>2 DEF OneIsAsFar
<1> QED BY <1>5, <1>6, <1>7 DEF AccountInv

----------------------------------------------------------------------------
(* The two commits and the answers.                                        *)

\* A commit takes rows away, and does not bring the sign-in back.
Commit(n) ==
    /\ UNCHANGED <<reading, kept, dialog, rowWrites>>
    /\ account' = account \/ ripped'
    /\ ripped' = ripped \/ ripped'
    /\ ripped' \in BOOLEAN
    /\ account' \in Accounts
    /\ account' = account \/ account' = [account EXCEPT !.rows = [t \in Exported |-> {}]] \/ account' = NoAccount

LEMMA CommitSteps ==
  ASSUME AccountInv, NEW n \in 1..MaxRequests, Commit(n), asked' \in [1..MaxRequests -> Requested]
  PROVE  /\ AccountTypeOK' /\ ItemsHaveDeliveries' /\ KeptIsReadOrAhead' /\ SavedIsEnded'
         /\ (Gone => Gone') /\ (RowsWentOrCame => RowsWentOrCame')
<1>1. account \in Accounts
  BY DEF AccountInv, AccountTypeOK, Accounts
<1>2. AccountTypeOK'
  BY DEF Commit, AccountInv, AccountTypeOK, Accounts
<1>3. account' = account \/ account'.rows = [t \in Exported |-> {}]
  BY <1>1 DEF Commit, Accounts, NoAccount
<1>4. ItemsHaveDeliveries'
  BY <1>3, TableNames DEF AccountInv, ItemsHaveDeliveries
<1>5. SavedIsEnded'
  BY DEF Commit, AccountInv, SavedIsEnded
<1>6. KeptIsReadOrAhead'
  <2>1. CASE ripped'
    BY <2>1 DEF KeptIsReadOrAhead
  <2>2. CASE ~ripped'
    <3>1. account' = account /\ ~ripped
      BY <2>2 DEF Commit, AccountInv, AccountTypeOK
    <3> QED BY <3>1 DEF Commit, AccountInv, KeptIsReadOrAhead, Ahead, Selected
  <2> QED BY <2>1, <2>2
<1>7. Gone => Gone'
  BY <1>1 DEF Commit, Gone, NoAccount, Accounts
<1>8. RowsWentOrCame => RowsWentOrCame'
  BY <1>3 DEF Commit, RowsWentOrCame
<1> QED BY <1>2, <1>4, <1>5, <1>6, <1>7, <1>8

LEMMA NoRowsIsAnAccount ==
  ASSUME account \in Accounts
  PROVE  [account EXCEPT !.rows = [t \in Exported |-> {}]] \in Accounts /\ NoAccount \in Accounts
BY DEF Accounts, NoAccount

LEMMA DeleteRowsSteps ==
  ASSUME AccountInv, NEW n \in DOMAIN asked, DeleteRows(n)
  PROVE  AccountInv'
<1>1. asked \in [1..MaxRequests -> Requested] /\ n \in 1..MaxRequests /\ account \in Accounts /\ ripped \in BOOLEAN
      /\ 1 \in 1..MaxRequests
  BY FirstRequest DEF AccountInv, AccountTypeOK
<1>2. PICK gone \in BOOLEAN, told \in BOOLEAN :
        /\ told => gone
        /\ account' = IF gone THEN [account EXCEPT !.rows = [t \in Exported |-> {}]] ELSE account
        /\ ripped' = (ripped \/ gone)
        /\ asked' = [asked EXCEPT ![n] = IF told THEN "rows deleted" ELSE "deletion_failed"]
  BY DEF DeleteRows
<1>3. asked[n] = "under way" /\ UNCHANGED <<reading, kept, dialog, rowWrites>>
  BY DEF DeleteRows
<1>4. /\ asked' \in [1..MaxRequests -> Requested]
      /\ asked'[n] = IF told THEN "rows deleted" ELSE "deletion_failed"
      /\ \A m \in 1..MaxRequests : m # n => asked'[m] = asked[m]
  BY <1>1, <1>2 DEF Requested
<1>5. Commit(n)
  BY <1>1, <1>2, <1>3, NoRowsIsAnAccount DEF Commit
<1>6. AccountTypeOK' /\ ItemsHaveDeliveries' /\ KeptIsReadOrAhead' /\ SavedIsEnded' /\ (Gone => Gone') /\ (RowsWentOrCame => RowsWentOrCame')
  BY <1>1, <1>4, <1>5, CommitSteps
<1>7. DeletedIsGone'
  BY <1>1, <1>3, <1>4, <1>6 DEF AccountInv, DeletedIsGone
<1>8. OneIsAsFar'
  <2>1. OnlyOne' => n = 1 /\ OnlyOne
    BY <1>1, <1>4, TheOnlyOne
  <2>2. told => RowsWentOrCame'
    BY <1>1, <1>2 DEF RowsWentOrCame, Accounts
  <2>3. account'.signIn = account.signIn
    BY <1>1, <1>2 DEF Accounts
  <2> QED BY <1>1, <1>3, <1>4, <1>6, <2>1, <2>2, <2>3 DEF AccountInv, OneIsAsFar
<1> QED BY <1>6, <1>7, <1>8 DEF AccountInv

LEMMA DeleteUserSteps ==
  ASSUME AccountInv, NEW n \in DOMAIN asked, DeleteUser(n)
  PROVE  AccountInv'
<1>1. asked \in [1..MaxRequests -> Requested] /\ n \in 1..MaxRequests /\ account \in Accounts /\ ripped \in BOOLEAN
      /\ 1 \in 1..MaxRequests
  BY FirstRequest DEF AccountInv, AccountTypeOK
<1>2. PICK gone \in BOOLEAN, seen \in BOOLEAN :
        /\ seen => gone
        /\ account' = IF gone THEN NoAccount ELSE account
        /\ ripped' = (ripped \/ gone)
        /\ asked' = [asked EXCEPT ![n] = IF seen THEN "deleted" ELSE "sign_in_not_deleted"]
  BY DEF DeleteUser
<1>3. asked[n] = "rows deleted" /\ UNCHANGED <<reading, kept, dialog, rowWrites>>
  BY DEF DeleteUser
<1>4. /\ asked' \in [1..MaxRequests -> Requested]
      /\ asked'[n] = IF seen THEN "deleted" ELSE "sign_in_not_deleted"
      /\ \A m \in 1..MaxRequests : m # n => asked'[m] = asked[m]
  BY <1>1, <1>2 DEF Requested
<1>5. Commit(n)
  BY <1>1, <1>2, <1>3, NoRowsIsAnAccount DEF Commit
<1>6. /\ AccountTypeOK' /\ ItemsHaveDeliveries' /\ KeptIsReadOrAhead' /\ SavedIsEnded'
      /\ (Gone => Gone') /\ (RowsWentOrCame => RowsWentOrCame')
  BY <1>1, <1>4, <1>5, CommitSteps
<1>7. DeletedIsGone'
  <2>1. seen => Gone'
    BY <1>2 DEF Gone, NoAccount
  <2> QED BY <1>1, <1>3, <1>4, <1>6, <2>1 DEF AccountInv, DeletedIsGone
<1>8. OneIsAsFar'
  <2>1. OnlyOne' => n = 1 /\ OnlyOne
    BY <1>1, <1>4, TheOnlyOne
  <2> QED BY <1>1, <1>3, <1>4, <1>6, <2>1 DEF AccountInv, OneIsAsFar
<1> QED BY <1>6, <1>7, <1>8 DEF AccountInv

LEMMA ArrivesSteps ==
  ASSUME AccountInv, NEW n \in DOMAIN asked, Arrives(n)
  PROVE  AccountInv'
<1>1. asked \in [1..MaxRequests -> Requested] /\ n \in 1..MaxRequests /\ dialog \in Dialogs /\ 1 \in 1..MaxRequests
  BY FirstRequest DEF AccountInv, AccountTypeOK
<1>2. asked[n] \in Codes \cup {"deleted"} /\ UNCHANGED <<account, kept, ripped, rowWrites>>
      /\ asked' = [asked EXCEPT ![n] = "answered"]
  BY DEF Arrives
<1>3. asked' \in [1..MaxRequests -> Requested] /\ asked'[n] = "answered" /\ \A m \in 1..MaxRequests : m # n => asked'[m] = asked[m]
  BY <1>1, <1>2 DEF Requested
<1>4. OnlyOne' => n = 1 /\ OnlyOne
  BY <1>1, <1>2, <1>3, TheOnlyOne
<1>5. CASE asked[n] = "deleted"
  <2>1. dialog' = [dialog EXCEPT !.left = TRUE, !.open = FALSE] /\ reading' = NotReading
    BY <1>5 DEF Arrives
  <2>2. Gone
    BY <1>1, <1>5 DEF AccountInv, DeletedIsGone
  <2>3. dialog' \in Dialogs /\ dialog'.problem = dialog.problem
    BY <1>1, <2>1 DEF Dialogs
  <2>4. AccountTypeOK'
    BY <1>2, <1>3, <2>1, <2>3, NotReadingIsAReading DEF AccountInv, AccountTypeOK, Dialogs, Readings
  <2>5. ItemsHaveDeliveries' /\ KeptIsReadOrAhead' /\ SavedIsEnded'
    BY <1>2, <2>1, NotReadingIsAReading DEF AccountInv, ItemsHaveDeliveries, KeptIsReadOrAhead, SavedIsEnded
  <2>6. DeletedIsGone'
    BY <1>2, <2>2 DEF DeletedIsGone, Gone
  <2>7. OneIsAsFar'
    BY <1>1, <1>2, <1>3, <1>4, <1>5, <2>3 DEF AccountInv, OneIsAsFar, RowsWentOrCame
  <2> QED BY <2>4, <2>5, <2>6, <2>7 DEF AccountInv
<1>6. CASE asked[n] # "deleted"
  <2>1. dialog' = [dialog EXCEPT !.problem = asked[n], !.busy = FALSE] /\ UNCHANGED reading /\ asked[n] \in Codes
    BY <1>2, <1>6 DEF Arrives
  <2>2. dialog' \in Dialogs /\ dialog'.problem = asked[n] /\ dialog'.left = dialog.left
    BY <1>1, <2>1 DEF Dialogs
  <2>3. AccountTypeOK' /\ ItemsHaveDeliveries' /\ KeptIsReadOrAhead' /\ SavedIsEnded'
    BY <1>2, <1>3, <2>1, <2>2, DialogLeavesTheRest DEF DialogOnly
  <2>4. DeletedIsGone'
    BY <1>1, <1>2, <1>3, <2>2 DEF AccountInv, DeletedIsGone, Gone
  <2>5. OneIsAsFar'
    <3>1. (\A m \in DOMAIN asked' : asked'[m] = "unsent") => account'.signIn
      BY <1>1, <1>3
    <3>2. OnlyOne' => asked'[1] = "answered" /\ dialog'.problem = asked[1]
      BY <1>1, <1>3, <1>4, <2>2
    <3> QED BY <1>1, <1>2, <1>4, <3>1, <3>2 DEF AccountInv, OneIsAsFar, RowsWentOrCame
  <2> QED BY <2>3, <2>4, <2>5 DEF AccountInv
<1> QED BY <1>5, <1>6

LEMMA BreaksOffSteps ==
  ASSUME AccountInv, NEW n \in DOMAIN asked, BreaksOff(n)
  PROVE  AccountInv'
<1>1. asked \in [1..MaxRequests -> Requested] /\ n \in 1..MaxRequests /\ dialog \in Dialogs /\ 1 \in 1..MaxRequests
  BY FirstRequest DEF AccountInv, AccountTypeOK
<1>2. PICK what \in {"unknown", "no code"} : dialog' = [dialog EXCEPT !.problem = what, !.busy = FALSE]
  BY DEF BreaksOff
<1>3. asked[n] \notin {"unsent", "answered"} /\ UNCHANGED <<account, reading, kept, ripped, rowWrites>>
      /\ asked' = [asked EXCEPT ![n] = IF @ \in {"under way", "rows deleted"} THEN @ ELSE "answered"]
  BY DEF BreaksOff
<1>4. dialog' \in Dialogs /\ dialog'.problem = what /\ dialog'.left = dialog.left
  BY <1>1, <1>2 DEF Dialogs
<1>5. /\ asked' \in [1..MaxRequests -> Requested]
      /\ asked'[n] = asked[n] \/ asked'[n] = "answered"
      /\ \A m \in 1..MaxRequests : m # n => asked'[m] = asked[m]
  BY <1>1, <1>3 DEF Requested
<1>6. AccountTypeOK' /\ ItemsHaveDeliveries' /\ KeptIsReadOrAhead' /\ SavedIsEnded'
  BY <1>3, <1>4, <1>5, DialogLeavesTheRest DEF DialogOnly
<1>7. DeletedIsGone'
  BY <1>1, <1>3, <1>4, <1>5 DEF AccountInv, DeletedIsGone, Gone
<1>8. OneIsAsFar'
  <2>1. OnlyOne' => n = 1 /\ OnlyOne
    BY <1>1, <1>3, <1>5, TheOnlyOne
  <2> QED BY <1>1, <1>3, <1>4, <1>5, <2>1 DEF AccountInv, OneIsAsFar, RowsWentOrCame
<1> QED BY <1>6, <1>7, <1>8 DEF AccountInv

----------------------------------------------------------------------------

LEMMA AccountStarts == AccountInit => AccountInv
<1> SUFFICES ASSUME AccountInit PROVE AccountInv
  OBVIOUS
<1>1. PICK watched \in SUBSET Keys, sent \in SUBSET Keys :
        account = [rows |-> [t \in Exported |-> IF t = "watchlist_items" THEN watched ELSE sent], signIn |-> TRUE]
  BY DEF AccountInit
<1>2. /\ reading = NotReading /\ kept = {} /\ ripped = FALSE
      /\ dialog = [open |-> FALSE, typed |-> FALSE, busy |-> FALSE, problem |-> "none", left |-> FALSE]
      /\ asked = [n \in 1..MaxRequests |-> "unsent"] /\ rowWrites = 0
  BY DEF AccountInit
<1>3. AccountTypeOK
  <2>1. account \in Accounts
    BY <1>1 DEF Accounts
  <2>2. dialog \in Dialogs
    BY <1>2 DEF Dialogs
  <2>3. asked \in [1..MaxRequests -> Requested]
    BY <1>2 DEF Requested
  <2> QED BY <1>2, <2>1, <2>2, <2>3, NotReadingIsAReading DEF AccountTypeOK, Accounts, Dialogs, Readings
<1>4. ItemsHaveDeliveries
  BY <1>1, TableNames DEF ItemsHaveDeliveries, Items, Deliveries
<1>5. KeptIsReadOrAhead /\ SavedIsEnded
  BY <1>2, NotReadingIsAReading DEF KeptIsReadOrAhead, SavedIsEnded
<1>6. DeletedIsGone
  BY <1>2 DEF DeletedIsGone
<1>7. OneIsAsFar
  <2>1. 1 \in 1..MaxRequests /\ asked[1] = "unsent" /\ account.signIn
    BY <1>1, <1>2, FirstRequest
  <2> QED BY <1>2, <2>1 DEF OneIsAsFar
<1> QED BY <1>3, <1>4, <1>5, <1>6, <1>7 DEF AccountInv

LEMMA AccountSteps == AccountInv /\ [AccountNext]_accountVars => AccountInv'
<1> SUFFICES ASSUME AccountInv, [AccountNext]_accountVars PROVE AccountInv'
  OBVIOUS
<1>1. CASE Download
  BY <1>1, DownloadSteps
<1>2. CASE FetchFails
  BY <1>2, FetchFailsSteps
<1>3. CASE SaveFile
  BY <1>3, SaveFileSteps
<1>4. CASE \E t \in Exported : FetchPage(t)
  BY <1>4, FetchPageSteps
<1>5. CASE \E t \in Exported, k \in Keys : WriteRow1(t, k)
  BY <1>5, WriteRow1Steps
<1>6. CASE \E k \in Keys : RemoveRow(k)
  BY <1>6, RemoveRowSteps
<1>7. CASE OpenDialog \/ TypePhrase \/ CloseDialog
  BY <1>7, OpeningSteps
<1>8. CASE \E n \in DOMAIN asked : SubmitDeletion(n)
  BY <1>8, SubmitDeletionSteps
<1>9. CASE \E n \in DOMAIN asked : DeleteRows(n)
  BY <1>9, DeleteRowsSteps
<1>10. CASE \E n \in DOMAIN asked : DeleteUser(n)
  BY <1>10, DeleteUserSteps
<1>11. CASE \E n \in DOMAIN asked : Arrives(n)
  BY <1>11, ArrivesSteps
<1>12. CASE \E n \in DOMAIN asked : BreaksOff(n)
  BY <1>12, BreaksOffSteps
<1>13. CASE UNCHANGED accountVars
  BY <1>13 DEF accountVars, AccountInv, AccountTypeOK, ItemsHaveDeliveries, KeptIsReadOrAhead, Ahead, Selected, SavedIsEnded,
               DeletedIsGone, Gone, OneIsAsFar, OnlyOne, RowsWentOrCame
<1> QED BY <1>1, <1>2, <1>3, <1>4, <1>5, <1>6, <1>7, <1>8, <1>9, <1>10, <1>11, <1>12, <1>13 DEF AccountNext

LEMMA AccountInvTells == AccountInv => AccountIsAsTold
<1> SUFFICES ASSUME AccountInv PROVE AccountIsAsTold
  OBVIOUS
<1>1. CopyIsWhole
  <2> SUFFICES ASSUME reading.stage = "saved", ~ripped, NEW r \in kept PROVE r[2] \in reading.read[r[1]]
    BY DEF CopyIsWhole
  <2>1. r[1] \in Exported /\ r[2] \in Keys /\ r = <<r[1], r[2]>>
    BY DEF AccountInv, AccountTypeOK, AllRows
  <2> QED BY <2>1 DEF AccountInv, KeptIsReadOrAhead, SavedIsEnded, Ahead
<1>2. LeftWhenGone
  BY DEF AccountInv, DeletedIsGone, Gone, LeftWhenGone
<1>3. CodeIsTrue
  BY DEF AccountInv, OneIsAsFar, OnlyOne, RowsWentOrCame, CodeIsTrue
<1> QED BY <1>1, <1>2, <1>3 DEF AccountIsAsTold

\* What the account page tells its holder is so, for every number of rows and size
\* of a page: a saved copy lacks no row that was there throughout, the page leaves
\* only when nothing is left, and a code says what the deletion reached.
THEOREM AccountTellsTheTruth == AccountSpec => []AccountIsAsTold
<1>1. AccountSpec => []AccountInv
  BY AccountStarts, AccountSteps, PTL DEF AccountSpec
<1> QED BY <1>1, AccountInvTells, PTL

(***************************************************************************)
(* The feed of programs that just opened.                                  *)
(***************************************************************************)

OfMyView == {i \in DOMAIN opened : RowMatches(i)}
Companies == {EveryCompany} \cup {opened[i].company : i \in DOMAIN opened}
Views == [company : Companies, types : SUBSET Types, page : Int]

OpenedTypeOK ==
    /\ opened \in Openings /\ view \in Views /\ stage \in {"asked", "placing", "drawn"}
    /\ left \subseteq DOMAIN opened /\ feed \in Seq(DOMAIN opened)

\* Every opening that matches is placed, once, or left.
AllAreThere ==
    /\ stage = "asked" => feed = <<>> /\ left = {}
    /\ stage = "placing" => ~Listed
    /\ stage # "asked" => {feed[n] : n \in DOMAIN feed} \cup left = OfMyView
    /\ \A n \in DOMAIN feed : feed[n] \notin left /\ \A m \in DOMAIN feed : feed[n] = feed[m] => n = m
    /\ Listed => left = {}

\* A link that named a number leads to that many.
SaidIsThere == said.any => Listed /\ said.rows = Cardinality(OfMyView)

OpenedInv == OpenedTypeOK /\ AllAreThere /\ SaidIsThere /\ CompanyRule /\ NewestFirst /\ FewLeftOut

----------------------------------------------------------------------------

LEMMA CountTo == ASSUME NEW n \in Nat PROVE IsFiniteSet(1..n) /\ Cardinality(1..n) = n
BY FS_Interval

LEMMA SequenceOfMore == ASSUME NEW S, NEW T, S \subseteq T, NEW s \in Seq(S) PROVE s \in Seq(T)
<1>1. PICK n \in Nat : s \in [1..n -> S]
  BY SeqDef
<1>2. s \in [1..n -> T]
  BY <1>1
<1> QED BY <1>2, SeqDef

LEMMA TypesChange ==
  ASSUME NEW w \in Views, NEW ts \in SUBSET Types, NEW p \in Int
  PROVE  [w EXCEPT !.types = ts, !.page = p] \in Views
BY DEF Views

LEMMA CompanyChanges ==
  ASSUME NEW w \in Views, NEW c \in Companies, NEW p \in Int
  PROVE  /\ [w EXCEPT !.company = c, !.page = p] \in Views
         /\ [w EXCEPT !.company = c, !.page = p].company = c /\ [w EXCEPT !.company = c, !.page = p].types = w.types
BY DEF Views

\* Disjoint parts of a finite set, each of so many elements, hold that many each.
LEMMA ManyShares ==
  ASSUME NEW K, IsFiniteSet(K), NEW R, IsFiniteSet(R), NEW p \in Nat, NEW part \in [K -> SUBSET R],
         \A c \in K : p <= Cardinality(part[c]), \A c, d \in K : c # d => part[c] \cap part[d] = {}
  PROVE  Cardinality(K) * p <= Cardinality(R)
<1> DEFINE G == [c \in K |-> CHOOSE g : g \in Injection(1..p, part[c])]
           X == K \X (1..p)
           F == [x \in X |-> G[x[1]][x[2]]]
<1>1. ASSUME NEW c \in K PROVE G[c] \in Injection(1..p, part[c])
  <2>1. IsFiniteSet(part[c]) /\ Cardinality(part[c]) \in Nat /\ ExistsBijection(1..Cardinality(part[c]), part[c])
    BY FS_Subset, FS_CardinalityType
  <2>2. PICK q \in Nat : q = Cardinality(part[c])
    BY <2>1
  <2>2a. PICK b : b \in Bijection(1..q, part[c])
    BY <2>1, <2>2 DEF ExistsBijection
  <2>3. b \in [1..q -> part[c]] /\ \A m, n \in 1..q : b[m] = b[n] => m = n
    BY <2>2a DEF Bijection, Injection, IsInjective
  <2>4. 1..p \subseteq 1..q
    BY <2>2
  <2> DEFINE g == [n \in 1..p |-> b[n]]
  <2>5. g \in [1..p -> part[c]] /\ \A m, n \in 1..p : g[m] = g[n] => m = n
    BY <2>3, <2>4
  <2>6. g \in Injection(1..p, part[c])
    BY <2>5, Fun_IsInj
  <2> QED BY <2>6
<1> HIDE DEF G
<1>2. \A c \in K : G[c] \in [1..p -> part[c]] /\ \A m, n \in 1..p : G[c][m] = G[c][n] => m = n
  BY <1>1, Fun_InjectionProperties
<1>3. F \in [X -> R]
  BY <1>2
<1>4. \A x, y \in X : F[x] = F[y] => x = y
  <2> SUFFICES ASSUME NEW x \in X, NEW y \in X, F[x] = F[y] PROVE x = y
    OBVIOUS
  <2>1. x[1] \in K /\ y[1] \in K /\ x[2] \in 1..p /\ y[2] \in 1..p /\ x = <<x[1], x[2]>> /\ y = <<y[1], y[2]>>
    OBVIOUS
  <2>2. F[x] \in part[x[1]] /\ F[y] \in part[y[1]]
    BY <1>2, <2>1
  <2>3. x[1] = y[1]
    BY <2>1, <2>2
  <2>4. x[2] = y[2]
    BY <1>2, <2>1, <2>3
  <2> QED BY <2>1, <2>3, <2>4
<1>5. F \in Injection(X, R)
  BY <1>3, <1>4, Fun_IsInj
<1>6. Cardinality(X) <= Cardinality(R)
  BY <1>5, FS_Injection
<1>7. IsFiniteSet(1..p) /\ Cardinality(1..p) = p
  BY FS_Interval
<1>8. Cardinality(X) = Cardinality(K) * Cardinality(1..p)
  BY <1>7, FS_Product
<1> QED BY <1>6, <1>7, <1>8

\* Openings listed newest first.
LEMMA ListingIsInOrder ==
  ASSUME NEW S \in SUBSET Int, IsFiniteSet(S)
  PROVE  /\ Listing(S) \in Seq(S) /\ Len(Listing(S)) = Cardinality(S)
         /\ \A m, n \in DOMAIN Listing(S) : m < n => Listing(S)[m] < Listing(S)[n]
         /\ {Listing(S)[n] : n \in DOMAIN Listing(S)} = S
<1> DEFINE L == Listing(S)
           N == Cardinality(S)
<1>1. N \in Nat
  BY FS_CardinalityType
<1>2. L = [n \in 1..N |-> CHOOSE i \in S : PlaceIn(S, i) = n]
  BY DEF Listing, PlaceIn
<1> HIDE DEF L
<1>3. \A n \in 1..N : L[n] \in S /\ PlaceIn(S, L[n]) = n
  BY <1>2, PlacesAreTaken
<1>4. DOMAIN L = 1..N /\ L \in [1..N -> S]
  BY <1>2, <1>3
<1>5. L \in Seq(S) /\ Len(L) = N
  BY <1>1, <1>4
<1>6. ASSUME NEW m \in 1..N, NEW n \in 1..N, m < n PROVE L[m] < L[n]
  <2>1. L[m] \in S /\ L[n] \in S /\ PlaceIn(S, L[m]) = m /\ PlaceIn(S, L[n]) = n
    BY <1>3
  <2>2. L[m] # L[n]
    BY <1>6, <2>1
  <2>3. CASE L[n] < L[m]
    <3>1. PlaceIn(S, L[n]) < PlaceIn(S, L[m])
      BY <2>1, <2>3, PlacesDiffer
    <3> QED BY <1>6, <2>1, <3>1
  <2>4. L[m] \in Int /\ L[n] \in Int
    BY <2>1
  <2> QED BY <2>2, <2>3, <2>4
<1>7. ASSUME NEW i \in S PROVE \E n \in 1..N : L[n] = i
  <2>1. PlaceIn(S, i) \in 1..N
    BY PlaceBounds
  <2> DEFINE j == L[PlaceIn(S, i)]
  <2>2. j \in S /\ PlaceIn(S, j) = PlaceIn(S, i)
    BY <1>3, <2>1
  <2>3. ~(i < j) /\ ~(j < i)
    <3>1. i < j => PlaceIn(S, i) < PlaceIn(S, j)
      BY <2>2, PlacesDiffer
    <3>2. j < i => PlaceIn(S, j) < PlaceIn(S, i)
      BY <2>2, PlacesDiffer
    <3> QED BY <2>1, <2>2, <3>1, <3>2
  <2>4. i \in Int /\ j \in Int
    BY <2>2
  <2> HIDE DEF j
  <2>5. i = j
    BY <2>3, <2>4
  <2> QED BY <2>1, <2>5 DEF j
<1>8. {L[n] : n \in DOMAIN L} = S
  BY <1>3, <1>4, <1>7
<1> QED BY <1>4, <1>5, <1>6, <1>8 DEF L

----------------------------------------------------------------------------

LEMMA OpenedIsFinite ==
  ASSUME OpenedTypeOK
  PROVE  /\ DOMAIN opened \in SUBSET Int /\ IsFiniteSet(DOMAIN opened) /\ \A i \in DOMAIN opened : CompanyOf(i) # EveryCompany
         /\ IsFiniteSet(OfMyView) /\ OfMyView \in SUBSET Int /\ OfMyView \subseteq DOMAIN opened
<1>1. DOMAIN opened \in SUBSET Int /\ IsFiniteSet(DOMAIN opened) /\ \A i \in DOMAIN opened : CompanyOf(i) # EveryCompany
  BY OpeningsAssumption DEF OpenedTypeOK, CompanyOf
<1>2. OfMyView \in SUBSET DOMAIN opened
  BY DEF OfMyView
<1> QED BY <1>1, <1>2, FS_Subset

LEMMA FeedIsFinite ==
  ASSUME OpenedTypeOK, NEW c, NEW ns \in SUBSET DOMAIN feed
  PROVE  /\ DOMAIN feed = 1..Len(feed) /\ Len(feed) \in Nat /\ \A n \in DOMAIN feed : feed[n] \in DOMAIN opened
         /\ IsFiniteSet(ns) /\ IsFiniteSet({n \in ns : CompanyOf(feed[n]) = c}) /\ Placed(c, ns) \in Nat
<1>1. DOMAIN feed = 1..Len(feed) /\ Len(feed) \in Nat /\ \A n \in DOMAIN feed : feed[n] \in DOMAIN opened
  BY DEF OpenedTypeOK
<1>2. IsFiniteSet(DOMAIN feed)
  BY <1>1, FS_Interval
<1>3. IsFiniteSet(ns) /\ IsFiniteSet({n \in ns : CompanyOf(feed[n]) = c})
  BY <1>2, FS_Subset
<1> QED BY <1>1, <1>3, FS_CardinalityType DEF Placed

\* The page reads what matches.
LEMMA LoadJustOpenedSteps ==
  ASSUME OpenedInv, LoadJustOpened
  PROVE  OpenedInv'
<1>0. OpenedTypeOK /\ stage = "asked" /\ UNCHANGED <<opened, view, said>>
  BY DEF OpenedInv, LoadJustOpened
<1>1. OfMyView' = OfMyView /\ (Listed <=> Listed')
  BY <1>0 DEF OfMyView, RowMatches, Listed, CompanyOf
<1>2. SaidIsThere'
  BY <1>0, <1>1 DEF OpenedInv, SaidIsThere
<1>3. OfMyView \in SUBSET Int /\ IsFiniteSet(OfMyView) /\ OfMyView \subseteq DOMAIN opened
  BY <1>0, OpenedIsFinite
<1>4. CASE Listed
  <2>1. stage' = "drawn" /\ feed' = Listing(OfMyView) /\ left' = {}
    BY <1>4 DEF LoadJustOpened, OfMyView
  <2>2. /\ feed' \in Seq(OfMyView) /\ Len(feed') = Cardinality(OfMyView)
        /\ \A m, n \in DOMAIN feed' : m < n => feed'[m] < feed'[n]
        /\ {feed'[n] : n \in DOMAIN feed'} = OfMyView
    BY <1>3, <2>1, ListingIsInOrder
  <2>3. DOMAIN feed' = 1..Len(feed') /\ Len(feed') \in Nat /\ \A n \in DOMAIN feed' : feed'[n] \in OfMyView
    BY <2>2
  <2>4. OpenedTypeOK'
    <3>1. feed' \in Seq(DOMAIN opened)
      BY <1>3, <2>2, SequenceOfMore
    <3> QED BY <1>0, <2>1, <3>1 DEF OpenedTypeOK, Views, Companies
  <2>5. AllAreThere'
    <3>1. \A m, n \in DOMAIN feed' : feed'[m] = feed'[n] => m = n
      <4> SUFFICES ASSUME NEW m \in DOMAIN feed', NEW n \in DOMAIN feed', feed'[m] = feed'[n], m # n PROVE FALSE
        OBVIOUS
      <4>1. feed'[m] \in Int /\ m \in Int /\ n \in Int
        <5>1. feed'[m] \in OfMyView /\ m \in 1..Len(feed') /\ n \in 1..Len(feed')
          BY <2>3
        <5>2. m \in Int /\ n \in Int
          BY <5>1
        <5>3. feed'[m] \in Int
          BY <1>3, <5>1
        <5> QED BY <5>2, <5>3
      <4>2. m < n \/ n < m
        BY <4>1
      <4>3. feed'[m] < feed'[n] \/ feed'[n] < feed'[m]
        BY <2>2, <4>2
      <4> QED BY <4>1, <4>3
    <3> QED BY <1>1, <2>1, <2>2, <3>1 DEF AllAreThere
  <2>6. CompanyRule'
    BY <1>1, <1>4 DEF CompanyRule
  <2>7. NewestFirst'
    BY <2>1, <2>2 DEF NewestFirst
  <2>8. FewLeftOut'
    <3>1. DOMAIN Overflow' = {}
      BY <2>1 DEF Overflow
    <3>2. Cardinality(DOMAIN Overflow') = 0 /\ Window > 0
      BY <3>1, FS_EmptySet, WindowAssumption
    <3> QED BY <3>2, WindowAssumption DEF FewLeftOut
  <2> QED BY <1>2, <2>4, <2>5, <2>6, <2>7, <2>8 DEF OpenedInv
<1>5. CASE ~Listed
  <2>1. stage' = "placing" /\ feed' = <<>> /\ left' = OfMyView
    BY <1>5 DEF LoadJustOpened, OfMyView
  <2>2. OpenedTypeOK'
    BY <1>0, <1>3, <2>1 DEF OpenedTypeOK, Views, Companies
  <2>3. AllAreThere'
    BY <1>1, <1>5, <2>1 DEF AllAreThere
  <2>4. CompanyRule' /\ NewestFirst' /\ FewLeftOut'
    BY <2>1 DEF CompanyRule, NewestFirst, FewLeftOut
  <2> QED BY <1>2, <2>2, <2>3, <2>4 DEF OpenedInv
<1> QED BY <1>4, <1>5

\* The newest opening that can be placed is.
LEMMA PlaceSteps ==
  ASSUME OpenedInv, Place
  PROVE  OpenedInv'
<1>1. PICK i \in left :
        /\ stage = "placing" /\ Placeable(i) /\ \A j \in left : j < i => ~Placeable(j)
        /\ feed' = Append(feed, i) /\ left' = left \ {i}
        /\ UNCHANGED <<opened, view, stage, said, visits>>
  BY DEF Place
<1>2. OpenedTypeOK /\ AllAreThere /\ CompanyRule /\ NewestFirst /\ ~Listed /\ ~Listed'
  BY <1>1 DEF OpenedInv, AllAreThere, Listed
<1>3. i \in DOMAIN opened /\ left \subseteq DOMAIN opened /\ feed \in Seq(DOMAIN opened)
  BY <1>1, <1>2 DEF OpenedTypeOK
<1> DEFINE l == Len(feed)
<1>4. /\ l \in Nat /\ DOMAIN feed = 1..l /\ DOMAIN feed' = 1..(l + 1) /\ feed'[l + 1] = i
      /\ \A n \in 1..l : feed'[n] = feed[n] /\ feed[n] \in DOMAIN opened
  BY <1>1, <1>3
<1>5. \A j : CompanyOf(j)' = CompanyOf(j)
  BY <1>1 DEF CompanyOf
<1> HIDE DEF l
<1>6. OpenedTypeOK'
  <2>1. feed' \in Seq(DOMAIN opened)
    BY <1>1, <1>3
  <2> QED BY <1>1, <1>2, <2>1 DEF OpenedTypeOK, Views, Companies
<1>7. AllAreThere'
  <2>1. OfMyView' = OfMyView
    BY <1>1 DEF OfMyView, RowMatches, Listed, CompanyOf
  <2>2. {feed[n] : n \in 1..l} \cup left = OfMyView
    BY <1>1, <1>2, <1>4 DEF AllAreThere
  <2>3. {feed'[n] : n \in 1..(l + 1)} = {feed[n] : n \in 1..l} \cup {i}
    <3>1. \A n \in 1..(l + 1) : n \in 1..l \/ n = l + 1
      BY <1>4
    <3>2. l + 1 \in 1..(l + 1) /\ 1..l \subseteq 1..(l + 1)
      BY <1>4
    <3> QED BY <1>4, <3>1, <3>2
  <2>4. {feed'[n] : n \in DOMAIN feed'} \cup left' = OfMyView'
    BY <1>1, <1>4, <2>1, <2>2, <2>3
  <2>5. \A n \in 1..l : feed[n] \notin left /\ \A m \in 1..l : feed[n] = feed[m] => n = m
    BY <1>2, <1>4 DEF AllAreThere
  <2>6. \A n \in DOMAIN feed' : feed'[n] \notin left' /\ \A m \in DOMAIN feed' : feed'[n] = feed'[m] => n = m
    <3>1. \A n \in 1..(l + 1) : n \in 1..l \/ n = l + 1
      BY <1>4
    <3> QED BY <1>1, <1>4, <2>5, <3>1
  <2> QED BY <1>1, <1>2, <2>4, <2>6 DEF AllAreThere
<1>8. SaidIsThere'
  BY <1>1, <1>2 DEF OpenedInv, SaidIsThere
<1>9. CompanyRule'
  <2> SUFFICES ASSUME NEW n \in 1..(l + 1)
               PROVE  Placed(CompanyOf(feed[n]), {m \in DOMAIN feed : n <= m /\ m < n + Window})' <= PerWindow
    BY <1>4 DEF CompanyRule
  <2>1. PICK c : c = opened[feed'[n]].company
    OBVIOUS
  <2> DEFINE W == {m \in {k \in DOMAIN feed : n <= k /\ k < n + Window} : CompanyOf(feed[m]) = c}
             V == {m \in {k \in DOMAIN feed' : n <= k /\ k < n + Window} : opened[feed'[m]].company = c}
  <2>2. Placed(CompanyOf(feed[n]), {m \in DOMAIN feed : n <= m /\ m < n + Window})' = Cardinality(V)
    BY <1>1, <2>1 DEF Placed, CompanyOf
  <2>3. V \subseteq W \cup {l + 1} /\ \A m \in W : m \in V
    <3>1. \A m \in 1..(l + 1) : m \in 1..l \/ m = l + 1
      BY <1>4
    <3>2. \A m \in 1..l : m \in 1..(l + 1)
      BY <1>4
    <3> QED BY <1>4, <3>1, <3>2 DEF CompanyOf
  <2>4. IsFiniteSet(W) /\ Cardinality(W) \in Nat
    <3>1. {k \in DOMAIN feed : n <= k /\ k < n + Window} \in SUBSET DOMAIN feed
      OBVIOUS
    <3> QED BY <1>2, <3>1, FeedIsFinite, FS_CardinalityType
  <2>5. PerWindow \in Nat /\ Window \in Nat /\ PerWindow >= 1 /\ Window >= 1
    BY WindowAssumption
  <2>6. CASE l + 1 \notin V
    <3>1. n # l + 1 /\ n \in 1..l
      <4>1. n = l + 1 => l + 1 \in V
        BY <1>4, <2>1, <2>5
      <4> QED BY <1>4, <2>6, <4>1
    <3>2. V = W
      BY <2>3, <2>6
    <3>3. c = CompanyOf(feed[n])
      BY <1>4, <2>1, <3>1 DEF CompanyOf
    <3>4. Cardinality(W) <= PerWindow
      BY <1>2, <1>4, <3>1, <3>3 DEF CompanyRule, Placed
    <3> QED BY <2>2, <3>2, <3>4
  <2>7. CASE l + 1 \in V
    <3>1. c = CompanyOf(i) /\ l + 1 < n + Window
      BY <1>4, <2>7 DEF CompanyOf
    <3>2. W \subseteq {m \in Recent : CompanyOf(feed[m]) = c}
      <4>1. ASSUME NEW m \in 1..l, n <= m PROVE m + Window - 1 > l
        BY <1>4, <2>5, <3>1, <4>1
      <4> QED BY <1>4, <4>1 DEF Recent, l
    <3>3. IsFiniteSet({m \in Recent : CompanyOf(feed[m]) = c})
      <4>1. Recent \in SUBSET DOMAIN feed
        BY DEF Recent
      <4> QED BY <1>2, <4>1, FeedIsFinite
    <3>4. Cardinality(W) <= Placed(c, Recent) /\ Placed(c, Recent) < PerWindow /\ Placed(c, Recent) \in Nat
      <4>1. Cardinality(W) <= Placed(c, Recent) /\ Placed(c, Recent) \in Nat
        BY <3>2, <3>3, FS_Subset, FS_CardinalityType DEF Placed
      <4>2. Placed(c, Recent) < PerWindow
        BY <1>1, <3>1 DEF Placeable
      <4> QED BY <4>1, <4>2
    <3>5. IsFiniteSet(W \cup {l + 1}) /\ Cardinality(W \cup {l + 1}) <= Cardinality(W) + 1 /\ Cardinality(W \cup {l + 1}) \in Nat
      <4> HIDE DEF W
      <4>1. IsFiniteSet(W \cup {l + 1}) /\ Cardinality(W \cup {l + 1}) = IF l + 1 \in W THEN Cardinality(W) ELSE Cardinality(W) + 1
        BY <2>4, FS_AddElement
      <4> QED BY <2>4, <4>1
    <3>6. Cardinality(V) <= Cardinality(W \cup {l + 1}) /\ Cardinality(V) \in Nat
      BY <2>3, <3>5, FS_Subset, FS_CardinalityType
    <3> QED BY <2>2, <2>4, <2>5, <3>4, <3>5, <3>6
  <2> QED BY <2>6, <2>7
<1>10. NewestFirst'
  <2>1. \A n \in 1..l : /\ \A m \in 1..l : n < m /\ CompanyOf(feed[n]) = CompanyOf(feed[m]) => feed[n] < feed[m]
                        /\ \A j \in left : CompanyOf(feed[n]) = CompanyOf(j) => feed[n] < j
    BY <1>2, <1>4 DEF NewestFirst
  <2>2. ASSUME NEW j \in left \ {i}, CompanyOf(i) = CompanyOf(j) PROVE i < j
    <3>1. Placeable(j)
      BY <1>1, <2>2 DEF Placeable
    <3>2. ~(j < i) /\ j # i /\ j \in Int /\ i \in Int
      BY <1>1, <1>2, <1>3, <3>1, OpenedIsFinite
    <3> QED BY <3>2
  <2>3. ASSUME NEW n \in 1..(l + 1), NEW m \in 1..(l + 1), n < m, CompanyOf(feed'[n]) = CompanyOf(feed'[m]) PROVE feed'[n] < feed'[m]
    <3>1. n \in 1..l /\ (m \in 1..l \/ m = l + 1)
      BY <1>4, <2>3
    <3> QED BY <1>1, <1>4, <2>1, <2>3, <3>1
  <2>4. ASSUME NEW n \in 1..(l + 1), NEW j \in left \ {i}, CompanyOf(feed'[n]) = CompanyOf(j) PROVE feed'[n] < j
    <3>1. n \in 1..l \/ n = l + 1
      BY <1>4
    <3> QED BY <1>4, <2>1, <2>2, <2>4, <3>1
  <2> QED BY <1>1, <1>4, <2>3, <2>4 DEF NewestFirst, CompanyOf
<1>11. FewLeftOut'
  BY <1>1 DEF FewLeftOut
<1> QED BY <1>6, <1>7, <1>8, <1>9, <1>10, <1>11 DEF OpenedInv

\* What cannot be placed is of companies that fill the places before it.
LEMMA EndPlacingSteps ==
  ASSUME OpenedInv, EndPlacing
  PROVE  OpenedInv'
<1>0. stage = "placing" /\ stage' = "drawn" /\ UNCHANGED <<opened, view, left, feed, said>> /\ (\A i \in left : ~Placeable(i)) /\ OpenedTypeOK
  BY DEF OpenedInv, EndPlacing
<1>1. OpenedTypeOK' /\ AllAreThere' /\ SaidIsThere' /\ CompanyRule' /\ NewestFirst'
  BY <1>0 DEF OpenedInv, OpenedTypeOK, Views, Companies, AllAreThere, SaidIsThere, OfMyView, RowMatches, Listed, CompanyOf,
              CompanyRule, Placed, NewestFirst
<1> DEFINE K == DOMAIN Overflow
           part == [c \in K |-> {n \in Recent : CompanyOf(feed[n]) = c}]
<1>2. K = {CompanyOf(i) : i \in left}
  BY DEF Overflow
<1>3. IsFiniteSet(K) /\ Cardinality(K) \in Nat
  <2>1. IsFiniteSet(left)
    BY <1>0, OpenedIsFinite, FS_Subset DEF OpenedTypeOK
  <2> DEFINE f == [i \in left |-> CompanyOf(i)]
  <2>2. f \in [left -> K] /\ \A c \in K : \E i \in left : f[i] = c
    BY <1>2
  <2>3. f \in Surjection(left, K)
    BY <2>2, Fun_IsSurj
  <2> QED BY <2>1, <2>3, FS_Surjection, FS_CardinalityType
<1>4. Recent \in SUBSET DOMAIN feed /\ IsFiniteSet(Recent)
  <2>1. Recent \in SUBSET DOMAIN feed
    BY DEF Recent
  <2> QED BY <1>0, <2>1, FeedIsFinite
<1>5. Cardinality(Recent) <= Window - 1 /\ Cardinality(Recent) \in Nat
  <2> DEFINE a == Len(feed) - Window + 2
  <2>1. Len(feed) \in Nat /\ DOMAIN feed = 1..Len(feed)
    BY <1>0 DEF OpenedTypeOK
  <2>2. Window \in Nat /\ Window >= 1
    BY WindowAssumption
  <2>3. Recent \subseteq a..Len(feed)
    BY <2>1, <2>2 DEF Recent
  <2>3a. a \in Int /\ Len(feed) \in Int
    BY <2>1, <2>2
  <2>4. IsFiniteSet(a..Len(feed)) /\ Cardinality(a..Len(feed)) = IF a > Len(feed) THEN 0 ELSE Len(feed) - a + 1
    <3> HIDE DEF a
    <3> QED BY <2>3a, FS_Interval
  <2>5. Cardinality(a..Len(feed)) = Window - 1
    BY <2>1, <2>2, <2>4
  <2> QED BY <2>3, <2>4, <2>5, FS_Subset, FS_CardinalityType
<1>6. part \in [K -> SUBSET Recent] /\ \A c, d \in K : c # d => part[c] \cap part[d] = {}
  OBVIOUS
<1>7. ASSUME NEW c \in K PROVE PerWindow <= Cardinality(part[c])
  <2>1. PICK i \in left : c = CompanyOf(i)
    BY <1>2
  <2>2. ~(Placed(c, Recent) < PerWindow) /\ Placed(c, Recent) \in Nat /\ PerWindow \in Nat
    <3>1. ~(Placed(c, Recent) < PerWindow)
      BY <1>0, <2>1 DEF Placeable
    <3>2. Placed(c, Recent) \in Nat
      BY <1>0, <1>4, FeedIsFinite
    <3> QED BY <3>1, <3>2, WindowAssumption
  <2>3. Placed(c, Recent) = Cardinality(part[c])
    BY DEF Placed
  <2> QED BY <2>2, <2>3
<1>8. Cardinality(K) * PerWindow <= Cardinality(Recent)
  <2> HIDE DEF part, K
  <2>1. PerWindow \in Nat
    BY WindowAssumption
  <2> QED BY <1>3, <1>4, <1>6, <1>7, <2>1, ManyShares
<1>9. Cardinality(K) * PerWindow < Window
  <2> DEFINE q == Cardinality(K) * PerWindow
  <2>1. q \in Nat /\ Window \in Nat
    BY <1>3, WindowAssumption
  <2>2. q <= Cardinality(Recent)
    BY <1>8
  <2> HIDE DEF q
  <2>3. q < Window
    BY <1>5, <2>1, <2>2
  <2> QED BY <2>3 DEF q
<1>10. DOMAIN Overflow' = K
  BY <1>0 DEF Overflow, CompanyOf
<1>11. FewLeftOut'
  BY <1>9, <1>10 DEF FewLeftOut
<1> QED BY <1>1, <1>11 DEF OpenedInv

\* A view asked for starts empty.
LEMMA VisitSteps ==
  ASSUME OpenedInv, NEW v \in Views, NEW promise, Visit(v, promise), (SaidIsThere)'
  PROVE  OpenedInv'
<1>1. /\ view' = v /\ stage' = "asked" /\ left' = {} /\ feed' = <<>> /\ opened' = opened
  BY DEF Visit
<1>2. OpenedTypeOK'
  BY <1>1 DEF OpenedInv, OpenedTypeOK, Views, Companies
<1>3. AllAreThere' /\ CompanyRule' /\ NewestFirst' /\ FewLeftOut'
  BY <1>1 DEF AllAreThere, CompanyRule, NewestFirst, FewLeftOut
<1> QED BY <1>2, <1>3 DEF OpenedInv

LEMMA OtherViewSteps ==
  ASSUME OpenedInv, FollowEvery \/ (\E p \in 1..(Len(feed) + 1) : FollowPage(p)) \/ (\E ts \in SUBSET Types : SubmitFacet(ts))
  PROVE  OpenedInv'
<1>0. view \in Views /\ Len(feed) \in Nat
  BY DEF OpenedInv, OpenedTypeOK
<1>1. PICK v \in Views : Visit(v, NotSaid)
  <2>1. CASE FollowEvery
    <3>1. [company |-> EveryCompany, types |-> {}, page |-> 1] \in Views
      BY DEF Views, Companies
    <3> QED BY <2>1, <3>1 DEF FollowEvery
  <2>2. CASE \E p \in 1..(Len(feed) + 1) : FollowPage(p)
    <3>1. PICK p \in 1..(Len(feed) + 1) : FollowPage(p)
      BY <2>2
    <3>2. p \in Int
      BY <1>0
    <3>3. [view EXCEPT !.page = p] \in Views
      BY <1>0, <3>2 DEF Views
    <3> QED BY <3>1, <3>3 DEF FollowPage
  <2>3. CASE \E ts \in SUBSET Types : SubmitFacet(ts)
    <3>1. PICK ts \in SUBSET Types : SubmitFacet(ts)
      BY <2>3
    <3>2. \A p \in Int : [view EXCEPT !.types = ts, !.page = p] \in Views
      BY <1>0, TypesChange
    <3>3. 1 \in Int
      OBVIOUS
    <3> QED BY <3>1, <3>2, <3>3, Zenon DEF SubmitFacet
  <2> QED BY <2>1, <2>2, <2>3
<1>2. SaidIsThere'
  BY <1>1 DEF Visit, NotSaid, SaidIsThere
<1> QED BY <1>1, <1>2, VisitSteps

\* The link to a company's list names what the list holds.
LEMMA FollowMoreSteps ==
  ASSUME OpenedInv, NEW c \in DOMAIN Overflow, FollowMore(c)
  PROVE  OpenedInv'
<1>0. OpenedTypeOK /\ AllAreThere /\ view \in Views
  BY DEF OpenedInv, OpenedTypeOK
<1>1. /\ Visit(MoreFrom(c), [any |-> TRUE, rows |-> Overflow[c] + Placed(c, DOMAIN feed)])
      /\ stage = "drawn" /\ opened' = opened
  BY DEF FollowMore, Visit
<1>2. PICK k \in left : c = CompanyOf(k)
  BY DEF Overflow
<1>3. ~Listed /\ k \in DOMAIN opened /\ c # EveryCompany /\ c \in Companies
  <2>1. k \in DOMAIN opened
    BY <1>0, <1>2 DEF OpenedTypeOK
  <2> QED BY <1>0, <1>2, <2>1, OpenedIsFinite DEF AllAreThere, Companies, CompanyOf
<1>4. MoreFrom(c) \in Views /\ MoreFrom(c).company = c /\ MoreFrom(c).types = view.types
  <2>1. \A p \in Int : /\ [view EXCEPT !.company = c, !.page = p] \in Views
                       /\ [view EXCEPT !.company = c, !.page = p].company = c
                       /\ [view EXCEPT !.company = c, !.page = p].types = view.types
    BY <1>0, <1>3, CompanyChanges
  <2>2. 1 \in Int
    OBVIOUS
  <2> QED BY <2>1, <2>2, Zenon DEF MoreFrom
<1>5. view' = MoreFrom(c) /\ said'.any /\ said'.rows = Overflow[c] + Placed(c, DOMAIN feed)
  BY <1>1 DEF Visit
<1> DEFINE A == {i \in left : CompanyOf(i) = c}
           D == {n \in DOMAIN feed : CompanyOf(feed[n]) = c}
           B == {feed[n] : n \in D}
<1>6. OfMyView' = A \cup B
  <2>1. OfMyView' = {i \in OfMyView : CompanyOf(i) = c}
    BY <1>1, <1>3, <1>4, <1>5 DEF OfMyView, RowMatches, Listed, CompanyOf
  <2>2. {feed[n] : n \in DOMAIN feed} \cup left = OfMyView
    BY <1>0, <1>1 DEF AllAreThere
  <2> QED BY <2>1, <2>2
<1>7. A \cap B = {}
  BY <1>0 DEF AllAreThere
<1>8. IsFiniteSet(A) /\ IsFiniteSet(D) /\ Placed(c, DOMAIN feed) = Cardinality(D)
  <2>1. IsFiniteSet(D)
    BY <1>0, FeedIsFinite
  <2>2. A \in SUBSET DOMAIN opened /\ IsFiniteSet(DOMAIN opened)
    BY <1>0, OpenedIsFinite DEF OpenedTypeOK
  <2> QED BY <2>1, <2>2, FS_Subset DEF Placed
<1>9. IsFiniteSet(B) /\ Cardinality(B) = Cardinality(D)
  <2> DEFINE f == [n \in D |-> feed[n]]
  <2>1. f \in [D -> B] /\ (\A m, n \in D : f[m] = f[n] => m = n) /\ \A b \in B : \E n \in D : f[n] = b
    BY <1>0 DEF AllAreThere
  <2>2. f \in Injection(D, B) /\ f \in Surjection(D, B)
    BY <2>1, Fun_IsInj, Fun_IsSurj
  <2> QED BY <1>8, <2>2, FS_Surjection
<1>10. Cardinality(OfMyView') = Cardinality(A) + Cardinality(B)
  <2>1. Cardinality(A \cup B) = Cardinality(A) + Cardinality(B) - Cardinality(A \cap B)
    BY <1>8, <1>9, FS_Union
  <2>2. Cardinality(A \cap B) = 0 /\ Cardinality(A) \in Nat /\ Cardinality(B) \in Nat
    BY <1>7, <1>8, <1>9, FS_EmptySet, FS_CardinalityType
  <2> QED BY <1>6, <2>1, <2>2
<1>11. Overflow[c] = Cardinality(A)
  BY DEF Overflow
<1>12. Listed'
  BY <1>3, <1>4, <1>5 DEF Listed
<1>13. SaidIsThere'
  BY <1>5, <1>8, <1>9, <1>10, <1>11, <1>12 DEF SaidIsThere
<1> QED BY <1>1, <1>4, <1>13, VisitSteps

LEMMA OpenedStarts == OpenedInit => OpenedInv
<1> SUFFICES ASSUME OpenedInit PROVE OpenedInv
  OBVIOUS
<1>1. stage = "asked" /\ left = {} /\ feed = <<>> /\ said = NotSaid /\ opened \in Openings
  BY DEF OpenedInit
<1>2. view \in Views
  BY DEF OpenedInit, Views, Companies
<1>3. OpenedTypeOK
  BY <1>1, <1>2 DEF OpenedTypeOK
<1>4. AllAreThere /\ SaidIsThere /\ CompanyRule /\ NewestFirst /\ FewLeftOut
  BY <1>1 DEF AllAreThere, SaidIsThere, CompanyRule, NewestFirst, FewLeftOut, NotSaid
<1> QED BY <1>3, <1>4 DEF OpenedInv

LEMMA OpenedSteps == OpenedInv /\ [OpenedNext]_openedVars => OpenedInv'
<1> SUFFICES ASSUME OpenedInv, [OpenedNext]_openedVars PROVE OpenedInv'
  OBVIOUS
<1>1. CASE LoadJustOpened
  BY <1>1, LoadJustOpenedSteps
<1>2. CASE Place
  BY <1>2, PlaceSteps
<1>3. CASE EndPlacing
  BY <1>3, EndPlacingSteps
<1>4. CASE FollowEvery \/ (\E p \in 1..(Len(feed) + 1) : FollowPage(p)) \/ (\E ts \in SUBSET Types : SubmitFacet(ts))
  BY <1>4, OtherViewSteps
<1>5. CASE \E c \in DOMAIN Overflow : FollowMore(c)
  BY <1>5, FollowMoreSteps
<1>6. CASE UNCHANGED openedVars
  BY <1>6 DEF openedVars, OpenedInv, OpenedTypeOK, Views, Companies, AllAreThere, SaidIsThere, OfMyView, RowMatches, Listed, CompanyOf,
              CompanyRule, Placed, NewestFirst, FewLeftOut, Overflow
<1> QED BY <1>1, <1>2, <1>3, <1>4, <1>5, <1>6 DEF OpenedNext

LEMMA OpenedInvKeepsTheRule == OpenedInv => FeedKeepsTheRule
<1> SUFFICES ASSUME OpenedInv PROVE FeedKeepsTheRule
  OBVIOUS
<1>1. CompanyRule /\ NewestFirst /\ FewLeftOut
  BY DEF OpenedInv
<1>2. MoreIsThere
  <2> SUFFICES ASSUME stage = "drawn", said.any PROVE Len(feed) = said.rows /\ left = {}
    BY DEF MoreIsThere
  <2>1. OpenedTypeOK /\ AllAreThere /\ Listed /\ said.rows = Cardinality(OfMyView)
    BY DEF OpenedInv, SaidIsThere
  <2>2. left = {} /\ {feed[n] : n \in DOMAIN feed} = OfMyView /\ \A m, n \in DOMAIN feed : feed[m] = feed[n] => m = n
    BY <2>1 DEF AllAreThere
  <2>3. DOMAIN feed = 1..Len(feed) /\ Len(feed) \in Nat
    BY <2>1 DEF OpenedTypeOK
  <2>4. IsFiniteSet(1..Len(feed)) /\ Cardinality(1..Len(feed)) = Len(feed)
    BY <2>3, CountTo
  <2> DEFINE f == [n \in 1..Len(feed) |-> feed[n]]
  <2>5. f \in Injection(1..Len(feed), OfMyView) /\ f \in Surjection(1..Len(feed), OfMyView)
    <3>1. f \in [1..Len(feed) -> OfMyView] /\ (\A m, n \in 1..Len(feed) : f[m] = f[n] => m = n) /\ \A i \in OfMyView : \E n \in 1..Len(feed) : f[n] = i
      BY <2>2, <2>3
    <3> QED BY <3>1, Fun_IsInj, Fun_IsSurj
  <2>6. Cardinality(OfMyView) = Len(feed)
    BY <2>4, <2>5, FS_Surjection
  <2> QED BY <2>1, <2>2, <2>6
<1> QED BY <1>1, <1>2 DEF FeedKeepsTheRule

\* The feed of what just opened keeps its rule, for every window of openings, every
\* length of the rule's window and every allowance in it: no company fills the page,
\* its own order is kept, what is left out is of few companies, and the link to the
\* rest leads to all of it.
THEOREM FeedAlwaysKeepsTheRule == OpenedSpec => []FeedKeepsTheRule
<1>1. OpenedSpec => []OpenedInv
  BY OpenedStarts, OpenedSteps, PTL DEF OpenedSpec
<1> QED BY <1>1, OpenedInvKeepsTheRule, PTL

----------------------------------------------------------------------------
(***************************************************************************)
(* Signing in.                                                             *)
(***************************************************************************)

Slots == {"form", "again", "link"}
PanelRoutes == {"sign-in", "sign-up", "resend", "forgot"}
LinkRoutes == {"confirm", "reset", "update-password"}
AnswerCodes == {None, "rate_limited", "check_email", "invalid_credentials", "email_not_confirmed", "signed_in", "unavailable",
                "lost", "link_unusable", "ok", "same_password", "reset_session_expired"}
MaybeEmail == Emails \cup {None}
MaybePassword == Passwords \cup {None}
Requests == [route : PanelRoutes \cup LinkRoutes, email : MaybeEmail, password : MaybePassword, code : AnswerCodes, took : {0, 1}, at : Nat]
Users == [exists : BOOLEAN, confirmed : BOOLEAN, password : MaybePassword]
Letters == [kind : {"email", "recovery"}, to : Emails, spent : BOOLEAN]
SignInPanels == [page : {"signin", "forgot", "left"}, mode : {"sign-in", "sign-up"}, email : MaybeEmail, password : MaybePassword,
           sentTo : MaybeEmail, message : AnswerCodes]
LinkStages == {None, "verifying", "choose", "no_link", "link_invalid", "saved", "session_expired", "signed in", "link_unusable", "unavailable"}
LinkPages == [page : {None, "confirm", "reset"}, mail : Nat, cut : BOOLEAN, stage : LinkStages, saved : MaybeEmail]
Others == [who : Emails \cup {NoSession}, password : MaybePassword, kept : BOOLEAN]

SignInTypeOK ==
    /\ users \in [Emails -> Users] /\ mails \in Seq(Letters) /\ cookie \in Emails \cup {NoSession}
    /\ elsewhere \in Others /\ panel \in SignInPanels /\ calls \in [Slots -> {NoCall} \cup Requests]
    /\ linkPage \in LinkPages /\ accepted \subseteq Emails /\ resent \subseteq Emails

Delayed == {"check_email", "invalid_credentials", "email_not_confirmed"}

\* The panel's requests: each of its own routes, with an address; one told to
\* check the mail was accepted, and one whose time matters was answered on time.
PanelCalls ==
    \A s \in {"form", "again"} : Busy(s) =>
        /\ calls[s].route \in PanelRoutes /\ calls[s].email \in Emails
        /\ calls[s].code = "check_email" => calls[s].email \in accepted
        /\ calls[s].code \in Delayed => OnTheGrid(calls[s].at)

\* The link's request: a token is of a link that was mailed, and a new password
\* is answered for an account whose other sessions have ended.
LinkCalls ==
    Busy("link") =>
        /\ calls["link"].route \in LinkRoutes
        /\ calls["link"].route # "update-password" => linkPage.mail \in 1..Len(mails)
        /\ calls["link"].route = "update-password" /\ calls["link"].email # None => users[calls["link"].email].exists
        /\ calls["link"].route = "update-password" /\ calls["link"].code = "ok" => calls["link"].email # None /\ Ended(calls["link"].email)

\* Whoever signed in, was mailed a link or confirmed an address has an account.
AccountsExist ==
    /\ \A e \in Emails : users[e].confirmed => users[e].exists
    /\ \A n \in 1..Len(mails) : users[mails[n].to].exists
    /\ cookie # NoSession => users[cookie].exists
    /\ elsewhere.who # NoSession => users[elsewhere.who].exists

\* The page that says a password is saved sends nothing, and has ended the others.
SavedIsSaved ==
    linkPage.stage = "saved" =>
        ~Busy("link") /\ linkPage.saved # None /\ users[linkPage.saved].exists /\ Ended(linkPage.saved)

SignInInv == SignInTypeOK /\ PanelCalls /\ LinkCalls /\ AccountsExist /\ SavedIsSaved /\ SentMeansAsked

----------------------------------------------------------------------------

LEMMA NamesApart == None \notin Emails /\ NoSession \notin Emails /\ None \notin Passwords
  BY NamesAssumption

LEMMA PutCall == ASSUME NEW S, NEW f \in [Slots -> S], NEW s \in Slots, NEW x \in S PROVE [f EXCEPT ![s] = x] \in [Slots -> S]
  OBVIOUS

LEMMA RequestFields ==
  ASSUME NEW c \in Requests
  PROVE  /\ c.route \in PanelRoutes \cup LinkRoutes /\ c.email \in MaybeEmail /\ c.password \in MaybePassword
         /\ c.code \in AnswerCodes /\ c.took \in {0, 1} /\ c.at \in Nat /\ c # NoCall
<1>1. c.route \in PanelRoutes \cup LinkRoutes /\ c.email \in MaybeEmail /\ c.password \in MaybePassword
      /\ c.code \in AnswerCodes /\ c.took \in {0, 1} /\ c.at \in Nat
  BY DEF Requests
<1> QED BY <1>1 DEF NoCall, PanelRoutes, LinkRoutes, None

LEMMA RequestAnswered ==
  ASSUME NEW c \in Requests, NEW x \in AnswerCodes
  PROVE  /\ [c EXCEPT !.code = x] \in Requests /\ [c EXCEPT !.code = x].code = x
         /\ [c EXCEPT !.code = x].route = c.route /\ [c EXCEPT !.code = x].email = c.email /\ [c EXCEPT !.code = x].at = c.at
  BY DEF Requests

LEMMA RequestTimed ==
  ASSUME NEW c \in Requests, NEW x \in AnswerCodes, NEW n \in Nat
  PROVE  /\ [c EXCEPT !.code = x, !.at = n] \in Requests /\ [c EXCEPT !.code = x, !.at = n].code = x
         /\ [c EXCEPT !.code = x, !.at = n].route = c.route /\ [c EXCEPT !.code = x, !.at = n].email = c.email
         /\ [c EXCEPT !.code = x, !.at = n].at = n
  BY DEF Requests

LEMMA RequestNamed ==
  ASSUME NEW c \in Requests, NEW e \in MaybeEmail
  PROVE  /\ [c EXCEPT !.email = e] \in Requests /\ [c EXCEPT !.email = e].email = e
         /\ [c EXCEPT !.email = e].route = c.route /\ [c EXCEPT !.email = e].code = c.code
  BY DEF Requests

\* A call in flight is a request.
LEMMA BusyIsARequest ==
  ASSUME SignInTypeOK, NEW s \in Slots, Busy(s)
  PROVE  calls[s] \in Requests
  BY DEF SignInTypeOK, Busy

LEMMA QuotientIsNatural == ASSUME NEW a \in Nat, NEW b \in Nat \ {0} PROVE a \div b \in Nat
  OBVIOUS

LEMMA StepsAdd == ASSUME NEW q \in Nat, NEW b \in Nat \ {0} PROVE q * b \in Nat /\ q <= q * b
<1>1. q * b \in Nat OBVIOUS
<1>2. q * (b - 1) >= 0 OBVIOUS
<1>3. q * (b - 1) = q * b - q OBVIOUS
<1> QED BY <1>1, <1>2, <1>3

\* An answer delayed comes at the floor or whole steps past it.
LEMMA DelayEndsOnTheGrid ==
  ASSUME NEW took \in Nat
  PROVE  took + UniformDelay(took) \in Nat /\ OnTheGrid(took + UniformDelay(took))
<1>1. CASE took <= Floor
  <2>1. took + UniformDelay(took) = Floor
    BY <1>1, FloorAssumption DEF UniformDelay
  <2>2. Floor = Floor + 0 * Step /\ 0 \in 0..Floor
    BY FloorAssumption
  <2> QED BY <2>1, <2>2, FloorAssumption DEF OnTheGrid
<1>2. CASE ~(took <= Floor)
  <2> DEFINE q == (took - Floor + Step - 1) \div Step
  <2>1. q \in Nat
    BY <1>2, FloorAssumption, QuotientIsNatural, took - Floor + Step - 1 \in Nat
  <2>2. q * Step \in Nat /\ q <= q * Step
    BY <2>1, StepsAdd, FloorAssumption
  <2>3. took + UniformDelay(took) = Floor + q * Step
    BY <1>2, <2>2, FloorAssumption DEF UniformDelay
  <2> HIDE DEF q
  <2>4. q \in 0..(Floor + q * Step)
    BY <2>1, <2>2, FloorAssumption
  <2> QED BY <2>2, <2>3, <2>4, FloorAssumption DEF OnTheGrid
<1> QED BY <1>1, <1>2

LEMMA UserFields ==
  ASSUME NEW u \in Users
  PROVE  /\ u.exists \in BOOLEAN /\ u.confirmed \in BOOLEAN /\ u.password \in MaybePassword
         /\ [u EXCEPT !.confirmed = TRUE] \in Users /\ [u EXCEPT !.confirmed = TRUE].exists = u.exists
         /\ [u EXCEPT !.confirmed = TRUE].password = u.password
         /\ \A p \in MaybePassword : /\ [u EXCEPT !.password = p] \in Users /\ [u EXCEPT !.password = p].exists = u.exists
                                     /\ [u EXCEPT !.password = p].confirmed = u.confirmed /\ [u EXCEPT !.password = p].password = p
  BY DEF Users

LEMMA PanelFields ==
  ASSUME NEW a \in SignInPanels
  PROVE  /\ a.email \in MaybeEmail /\ a.password \in MaybePassword /\ a.sentTo \in MaybeEmail
         /\ a.mode \in {"sign-in", "sign-up"} /\ a.page \in {"signin", "forgot", "left"}
  BY DEF SignInPanels

----------------------------------------------------------------------------

\* The steps of a panel's own, which send nothing: every tab but the panel stays.
PanelStep ==
    \/ \E e \in Emails, p \in Passwords : TypeInto(e, p)
    \/ \E m \in {"sign-in", "sign-up"} : SwitchMode(m)
    \/ ForgotPassword \/ BackToSignIn \/ UseAnother

LEMMA PanelMoves ==
  ASSUME SignInTypeOK, PanelStep
  PROVE  /\ panel' \in SignInPanels /\ panel'.sentTo \in {panel.sentTo, None}
         /\ UNCHANGED <<users, mails, cookie, elsewhere, calls, linkPage, accepted, resent, upsets>>
<1>0. /\ None \in MaybeEmail /\ None \in MaybePassword /\ None \in AnswerCodes
      /\ Emails \subseteq MaybeEmail /\ Passwords \subseteq MaybePassword /\ panel \in SignInPanels
  BY DEF MaybeEmail, MaybePassword, AnswerCodes, SignInTypeOK
<1> HIDE DEF None
<1>1. ASSUME NEW e \in Emails, NEW p \in Passwords, TypeInto(e, p) PROVE panel' \in SignInPanels /\ panel'.sentTo = panel.sentTo
  <2>1. panel' = [panel EXCEPT !.email = e, !.password = p]
    BY <1>1 DEF TypeInto
  <2> QED BY <1>0, <2>1 DEF SignInPanels
<1>2. ASSUME NEW m \in {"sign-in", "sign-up"}, SwitchMode(m) PROVE panel' \in SignInPanels /\ panel'.sentTo = panel.sentTo
  <2>1. panel' = [panel EXCEPT !.mode = m, !.message = None]
    BY <1>2 DEF SwitchMode
  <2> QED BY <1>0, <2>1 DEF SignInPanels
<1>3. ASSUME ForgotPassword PROVE panel' \in SignInPanels /\ panel'.sentTo = None
  <2>1. panel' = [panel EXCEPT !.page = "forgot", !.sentTo = None, !.message = None]
    BY <1>3 DEF ForgotPassword
  <2> QED BY <1>0, <2>1 DEF SignInPanels
<1>4. ASSUME BackToSignIn PROVE panel' \in SignInPanels /\ panel'.sentTo = None
  <2>1. panel' = [panel EXCEPT !.page = "signin", !.mode = "sign-in", !.sentTo = None, !.message = None]
    BY <1>4 DEF BackToSignIn
  <2> QED BY <1>0, <2>1 DEF SignInPanels
<1>5. ASSUME UseAnother PROVE panel' \in SignInPanels /\ panel'.sentTo = None
  <2>1. PICK m \in {"sign-in", "sign-up"} :
           panel' = [panel EXCEPT !.sentTo = None, !.message = None, !.mode = m, !.email = IF m = "sign-up" THEN None ELSE @]
    BY <1>5 DEF UseAnother
  <2>2. PICK e \in MaybeEmail : e = IF m = "sign-up" THEN None ELSE panel.email
    BY <1>0, PanelFields
  <2>3. panel' = [panel EXCEPT !.sentTo = None, !.message = None, !.mode = m, !.email = e]
    BY <2>1, <2>2, Zenon
  <2> QED BY <1>0, <2>3 DEF SignInPanels
<1>6. UNCHANGED <<users, mails, cookie, elsewhere, calls, linkPage, accepted, resent, upsets>>
  BY DEF PanelStep, TypeInto, SwitchMode, ForgotPassword, BackToSignIn, UseAnother
<1> QED BY <1>1, <1>2, <1>3, <1>4, <1>5, <1>6 DEF PanelStep

\* A request of the panel's moves: it ends, or is right after the step.
PutPanelCall(s, x) ==
    /\ s \in {"form", "again"} /\ calls' = [calls EXCEPT ![s] = x]
    /\ accepted \subseteq accepted' /\ accepted' \subseteq Emails
    /\ x = NoCall \/ /\ x \in Requests /\ x.route \in PanelRoutes /\ x.email \in Emails
                     /\ x.code = "check_email" => x.email \in accepted'
                     /\ x.code \in Delayed => OnTheGrid(x.at)

LEMMA PanelCallMoves ==
  ASSUME SignInTypeOK, PanelCalls, NEW s, NEW x, PutPanelCall(s, x)
  PROVE  calls' \in [Slots -> {NoCall} \cup Requests] /\ PanelCalls' /\ calls'["link"] = calls["link"]
<1>1. s \in Slots /\ s # "link" /\ x \in {NoCall} \cup Requests
  BY DEF PutPanelCall, Slots
<1>2. calls' \in [Slots -> {NoCall} \cup Requests]
  BY <1>1, PutCall DEF PutPanelCall, SignInTypeOK
<1>3. calls'["link"] = calls["link"]
  BY <1>1 DEF PutPanelCall, SignInTypeOK
<1>4. ASSUME NEW t \in {"form", "again"}, calls'[t] # NoCall
      PROVE  /\ calls'[t].route \in PanelRoutes /\ calls'[t].email \in Emails
             /\ calls'[t].code = "check_email" => calls'[t].email \in accepted'
             /\ calls'[t].code \in Delayed => OnTheGrid(calls'[t].at)
  <2>1. CASE t = s
    <3>1. calls'[t] = x
      BY <1>1, <2>1 DEF PutPanelCall, SignInTypeOK
    <3> QED BY <1>4, <3>1 DEF PutPanelCall
  <2>2. CASE t # s
    <3>1. calls'[t] = calls[t]
      BY <2>2 DEF PutPanelCall, SignInTypeOK, Slots
    <3>2. Busy(t)
      BY <1>4, <3>1 DEF Busy
    <3> QED BY <3>1, <3>2 DEF PanelCalls, PutPanelCall
  <2> QED BY <2>1, <2>2
<1> QED BY <1>2, <1>3, <1>4 DEF PanelCalls, Busy, OnTheGrid

\* The panel's requests are untouched by the link's.
LEMMA PanelCallsStay ==
  ASSUME SignInTypeOK, PanelCalls, NEW x, calls' = [calls EXCEPT !["link"] = x], x \in {NoCall} \cup Requests, accepted' = accepted
  PROVE  calls' \in [Slots -> {NoCall} \cup Requests] /\ PanelCalls' /\ calls'["link"] = x
<1>1. calls' \in [Slots -> {NoCall} \cup Requests]
  BY PutCall, "link" \in Slots DEF SignInTypeOK, Slots
<1>2. calls'["form"] = calls["form"] /\ calls'["again"] = calls["again"] /\ calls'["link"] = x
  BY DEF SignInTypeOK, Slots
<1> QED BY <1>1, <1>2 DEF PanelCalls, Busy, OnTheGrid

\* Accounts and links are only added, and no session that ended comes back.
AccountsKept ==
    /\ Len(mails) <= Len(mails')
    /\ \A e \in Emails : users[e].exists => users'[e].exists /\ (Ended(e) => Ended(e)')

LEMMA LinkStays ==
  ASSUME SignInTypeOK, LinkCalls, SavedIsSaved, mails' \in Seq(Letters), AccountsKept, calls'["link"] = calls["link"], linkPage' = linkPage
  PROVE  LinkCalls' /\ SavedIsSaved'
<1>1. Len(mails) \in Nat /\ Len(mails') \in Nat
  BY DEF SignInTypeOK
<1>2. CASE Busy("link")
  <2>1. calls["link"] \in Requests
    BY <1>2, BusyIsARequest, "link" \in Slots DEF Slots
  <2>2. calls["link"].email \in MaybeEmail
    BY <2>1, RequestFields
  <2>3. LinkCalls'
    <3>1. calls["link"].route # "update-password" => linkPage'.mail \in 1..Len(mails')
      BY <1>1, <1>2 DEF LinkCalls, AccountsKept
    <3>2. calls["link"].route = "update-password" /\ calls["link"].email # None =>
            users'[calls["link"].email].exists /\ (Ended(calls["link"].email) => Ended(calls["link"].email)')
      BY <1>2, <2>2 DEF LinkCalls, AccountsKept, MaybeEmail
    <3> QED BY <1>2, <3>1, <3>2 DEF LinkCalls, Busy, Ended
  <2> QED BY <1>2, <2>3 DEF SavedIsSaved, Busy
<1>3. CASE ~Busy("link")
  <2>1. LinkCalls'
    BY <1>3 DEF LinkCalls, Busy
  <2>2. linkPage.saved \in MaybeEmail
    BY DEF SignInTypeOK, LinkPages
  <2>3. linkPage.stage = "saved" => users'[linkPage.saved].exists /\ Ended(linkPage.saved)'
    BY <2>2 DEF SavedIsSaved, AccountsKept, MaybeEmail
  <2> QED BY <1>3, <2>1, <2>3 DEF SavedIsSaved, Busy, Ended
<1> QED BY <1>2, <1>3

----------------------------------------------------------------------------

LEMMA SignInStarts == SignInInit => SignInInv
<1> SUFFICES ASSUME SignInInit PROVE SignInInv
  OBVIOUS
<1>0. None \in MaybeEmail /\ None \in MaybePassword /\ None \in AnswerCodes /\ Emails \subseteq MaybeEmail /\ Passwords \subseteq MaybePassword
  BY DEF MaybeEmail, MaybePassword, AnswerCodes
<1>1. users \in [Emails -> Users]
  <2>1. (CHOOSE p \in Passwords : TRUE) \in MaybePassword
    BY <1>0, NamesAssumption
  <2> QED BY <1>0, <2>1 DEF SignInInit, Users
<1>2. panel \in SignInPanels /\ panel.sentTo = None
  BY <1>0 DEF SignInInit, SignInPanels
<1>3. linkPage \in LinkPages /\ linkPage.stage = None
  BY <1>0 DEF SignInInit, LinkPages, LinkStages
<1>4. elsewhere \in Others /\ elsewhere.who = NoSession
  BY <1>0 DEF SignInInit, Others, NoOther
<1>5. calls \in [Slots -> {NoCall} \cup Requests] /\ \A s \in Slots : ~Busy(s)
  BY DEF SignInInit, Slots, Busy
<1>6. mails \in Seq(Letters) /\ Len(mails) = 0 /\ cookie = NoSession /\ accepted = {} /\ resent = {}
  BY DEF SignInInit
<1>7. SignInTypeOK
  BY <1>1, <1>2, <1>3, <1>4, <1>5, <1>6 DEF SignInTypeOK
<1>8. PanelCalls /\ LinkCalls
  BY <1>5 DEF PanelCalls, LinkCalls, Slots
<1>9. AccountsExist
  <2>1. \A e \in Emails : users[e].confirmed => users[e].exists
    BY DEF SignInInit
  <2> QED BY <2>1, <1>4, <1>6 DEF AccountsExist
<1> QED BY <1>2, <1>3, <1>7, <1>8, <1>9 DEF SignInInv, SavedIsSaved, SentMeansAsked, None

LEMMA SubmitSteps ==
  ASSUME SignInInv, Submit1
  PROVE  SignInInv'
<1>0. SignInTypeOK /\ PanelCalls /\ LinkCalls /\ SavedIsSaved /\ panel \in SignInPanels /\ panel.email \in Emails
  BY PanelFields DEF SignInInv, SignInTypeOK, Submit1, MaybeEmail
<1> DEFINE r == IF panel.page = "forgot" THEN "forgot" ELSE panel.mode
           x == Sending(r, panel.email, panel.password)
<1>1. PutPanelCall("form", x)
  <2>1. r \in PanelRoutes /\ panel.password \in MaybePassword /\ panel.email \in MaybeEmail
    BY <1>0, PanelFields DEF PanelRoutes
  <2>2. x \in Requests /\ x.route \in PanelRoutes /\ x.email = panel.email /\ x.code = None
    <3> HIDE DEF r
    <3> QED BY <2>1 DEF Sending, Requests, AnswerCodes
  <2>3. calls' = [calls EXCEPT !["form"] = x] /\ accepted' = accepted
    BY DEF Submit1
  <2> HIDE DEF x
  <2> QED BY <1>0, <2>2, <2>3 DEF PutPanelCall, Delayed, None, SignInTypeOK
<1> HIDE DEF x
<1>2. calls' \in [Slots -> {NoCall} \cup Requests] /\ PanelCalls' /\ calls'["link"] = calls["link"]
  BY <1>0, <1>1, PanelCallMoves
<1>3. panel' \in SignInPanels /\ panel'.sentTo = panel.sentTo
  <2>1. None \in AnswerCodes /\ panel' = [panel EXCEPT !.message = None]
    BY DEF Submit1, AnswerCodes
  <2> QED BY <1>0, <2>1 DEF SignInPanels
<1>4. UNCHANGED <<users, mails, cookie, elsewhere, linkPage, accepted, resent>>
  BY DEF Submit1
<1>5. AccountsKept /\ mails' \in Seq(Letters)
  BY <1>0, <1>4 DEF AccountsKept, Ended, SignInTypeOK
<1>6. LinkCalls' /\ SavedIsSaved'
  BY <1>0, <1>2, <1>4, <1>5, LinkStays
<1>7. SignInTypeOK'
  BY <1>0, <1>2, <1>3, <1>4 DEF SignInTypeOK
<1> QED BY <1>2, <1>3, <1>4, <1>6, <1>7 DEF SignInInv, SentMeansAsked, AccountsExist

LEMMA ResendSteps ==
  ASSUME SignInInv, Resend
  PROVE  SignInInv'
<1>0. SignInTypeOK /\ PanelCalls /\ LinkCalls /\ SavedIsSaved /\ panel \in SignInPanels
  BY DEF SignInInv, SignInTypeOK
<1> DEFINE r == IF panel.page = "forgot" THEN "forgot" ELSE "resend"
           e == IF panel.sentTo # None THEN panel.sentTo ELSE panel.email
           x == [Sending(r, e, None) EXCEPT !.took = IF panel.sentTo # None THEN 0 ELSE 1]
<1>1. PutPanelCall("again", x)
  <2>1. r \in PanelRoutes \cup LinkRoutes /\ r \in PanelRoutes /\ e \in Emails /\ e \in MaybeEmail /\ None \in MaybePassword
    BY <1>0, PanelFields DEF PanelRoutes, MaybeEmail, MaybePassword, Resend
  <2>2. x \in Requests /\ x.route = r /\ x.email = e /\ x.code = None
    <3> HIDE DEF r, e
    <3> QED BY <2>1 DEF Sending, Requests, AnswerCodes
  <2>3. calls' = [calls EXCEPT !["again"] = x] /\ accepted' = accepted
    BY DEF Resend
  <2> HIDE DEF x, r, e
  <2> QED BY <1>0, <2>1, <2>2, <2>3 DEF PutPanelCall, Delayed, None, SignInTypeOK
<1> HIDE DEF x
<1>2. calls' \in [Slots -> {NoCall} \cup Requests] /\ PanelCalls' /\ calls'["link"] = calls["link"]
  BY <1>0, <1>1, PanelCallMoves
<1>4. UNCHANGED <<users, mails, cookie, elsewhere, panel, linkPage, accepted, resent>>
  BY DEF Resend
<1>5. AccountsKept /\ mails' \in Seq(Letters)
  BY <1>0, <1>4 DEF AccountsKept, Ended, SignInTypeOK
<1>6. LinkCalls' /\ SavedIsSaved'
  BY <1>0, <1>2, <1>4, <1>5, LinkStays
<1>7. SignInTypeOK'
  BY <1>0, <1>2, <1>4 DEF SignInTypeOK
<1> QED BY <1>2, <1>4, <1>6, <1>7 DEF SignInInv, SentMeansAsked, AccountsExist

LEMMA PanelSteps ==
  ASSUME SignInInv, PanelStep \/ UNCHANGED signInVars
  PROVE  SignInInv'
<1>1. CASE PanelStep
  <2>1. SignInTypeOK
    BY DEF SignInInv
  <2>2. panel' \in SignInPanels /\ panel'.sentTo \in {panel.sentTo, None}
    BY <1>1, <2>1, PanelMoves
  <2>3. UNCHANGED <<users, mails, cookie, elsewhere, calls, linkPage, accepted, resent>>
    BY <1>1, <2>1, PanelMoves
  <2>4. SentMeansAsked'
    BY <2>2, <2>3 DEF SignInInv, SentMeansAsked
  <2> QED BY <2>1, <2>2, <2>3, <2>4
          DEF SignInInv, SignInTypeOK, PanelCalls, LinkCalls, AccountsExist, SavedIsSaved, Busy, Ended
<1>2. CASE UNCHANGED signInVars
  BY <1>2 DEF signInVars, SignInInv, SignInTypeOK, PanelCalls, LinkCalls, AccountsExist, SavedIsSaved, SentMeansAsked, Busy, Ended
<1> QED BY <1>1, <1>2

LEMMA AnsweredSteps ==
  ASSUME SignInInv, NEW s \in {"form", "again"}, Answered(s)
  PROVE  SignInInv'
<1>0. SignInTypeOK /\ PanelCalls /\ LinkCalls /\ SavedIsSaved /\ panel \in SignInPanels /\ SentMeansAsked
  BY DEF SignInInv, SignInTypeOK
<1>1. PutPanelCall(s, NoCall)
  BY <1>0 DEF PutPanelCall, SignInTypeOK, Answered
<1>2. calls' \in [Slots -> {NoCall} \cup Requests] /\ PanelCalls' /\ calls'["link"] = calls["link"]
  BY <1>0, <1>1, PanelCallMoves
<1>3. UNCHANGED <<users, mails, cookie, elsewhere, linkPage, accepted>>
  BY DEF Answered
<1>4. Busy(s) /\ calls[s] \in Requests /\ calls[s].code # None
  BY <1>0, BusyIsARequest DEF Answered, Slots
<1>5. calls[s].email \in Emails /\ calls[s].code \in AnswerCodes /\ calls[s].email \in MaybeEmail
  BY <1>0, <1>4, RequestFields DEF PanelCalls
<1>6. ASSUME panel' = panel, resent' = resent PROVE panel' \in SignInPanels /\ resent' \subseteq Emails /\ SentMeansAsked'
  BY <1>0, <1>3, <1>6 DEF SignInTypeOK, SentMeansAsked
<1>7. ASSUME s = "form", panel' = FormAnswered(calls[s]), resent' = resent
      PROVE  panel' \in SignInPanels /\ resent' \subseteq Emails /\ SentMeansAsked'
  <2>1. CASE calls[s].code = "check_email"
    <3>1. PICK p \in MaybePassword : p = IF calls[s].route = "sign-up" THEN None ELSE panel.password
      BY <1>0, PanelFields DEF MaybePassword
    <3>2. panel' = [panel EXCEPT !.sentTo = calls[s].email, !.password = p]
      BY <1>7, <2>1, <3>1 DEF FormAnswered
    <3>3. panel' \in SignInPanels /\ panel'.sentTo = calls[s].email
      BY <1>0, <1>5, <3>2 DEF SignInPanels
    <3>4. calls[s].email \in accepted
      BY <1>0, <1>4, <2>1 DEF PanelCalls
    <3> QED BY <1>0, <1>3, <1>7, <3>3, <3>4 DEF SentMeansAsked, SignInTypeOK
  <2>2. CASE calls[s].code = "signed_in"
    <3>1. panel' = [panel EXCEPT !.page = "left", !.sentTo = None]
      BY <1>7, <2>2 DEF FormAnswered
    <3>2. panel' \in SignInPanels /\ panel'.sentTo = None
      BY <1>0, <3>1 DEF SignInPanels, MaybeEmail
    <3> QED BY <1>0, <1>7, <3>2 DEF SentMeansAsked, SignInTypeOK
  <2>3. CASE calls[s].code \notin {"check_email", "signed_in"}
    <3>1. panel' = [panel EXCEPT !.message = calls[s].code]
      BY <1>7, <2>3 DEF FormAnswered
    <3>2. panel' \in SignInPanels /\ panel'.sentTo = panel.sentTo
      BY <1>0, <1>5, <3>1 DEF SignInPanels
    <3> QED BY <1>0, <1>3, <1>7, <3>2 DEF SentMeansAsked, SignInTypeOK
  <2> QED BY <2>1, <2>2, <2>3
<1>8. ASSUME panel' = [panel EXCEPT !.sentTo = calls[s].email, !.message = None], resent' = resent \cup {calls[s].email}
      PROVE  panel' \in SignInPanels /\ resent' \subseteq Emails /\ SentMeansAsked'
  <2>1. panel' \in SignInPanels /\ panel'.sentTo = calls[s].email
    BY <1>0, <1>5, <1>8 DEF SignInPanels, AnswerCodes
  <2> QED BY <1>0, <1>3, <1>5, <1>8, <2>1 DEF SentMeansAsked, SignInTypeOK
<1>9. panel' \in SignInPanels /\ resent' \subseteq Emails /\ SentMeansAsked'
  BY <1>6, <1>7, <1>8 DEF Answered
<1>10. AccountsKept /\ mails' \in Seq(Letters)
  BY <1>0, <1>3 DEF AccountsKept, Ended, SignInTypeOK
<1>11. LinkCalls' /\ SavedIsSaved'
  BY <1>0, <1>2, <1>3, <1>10, LinkStays
<1>12. SignInTypeOK'
  BY <1>0, <1>2, <1>3, <1>9 DEF SignInTypeOK
<1> QED BY <1>2, <1>3, <1>9, <1>11, <1>12 DEF SignInInv, AccountsExist

LEMMA LetterFields ==
  ASSUME NEW q \in Seq(Letters), NEW n \in 1..Len(q)
  PROVE  q[n] \in Letters /\ q[n].to \in Emails /\ q[n].kind \in {"email", "recovery"}
<1>1. q[n] \in Letters
  OBVIOUS
<1> QED BY <1>1 DEF Letters

\* A request for a mail adds an account that is not confirmed, or a link to one that exists.
LEMMA EmailRequestKeeps ==
  ASSUME SignInInv, NEW c \in Requests, c.email \in Emails, c.route \in EmailRoutes, EmailRequest(c), elsewhere' = elsewhere
  PROVE  /\ users' \in [Emails -> Users] /\ mails' \in Seq(Letters) /\ AccountsKept /\ cookie' = cookie /\ AccountsExist'
<1> DEFINE e == c.email
           u == users[e]
<1>0. /\ SignInTypeOK /\ AccountsExist /\ u \in Users /\ mails \in Seq(Letters) /\ Len(mails) \in Nat /\ cookie' = cookie
      /\ c.password \in MaybePassword /\ users \in [Emails -> Users]
  BY RequestFields DEF SignInInv, SignInTypeOK, EmailRequest
<1>1. /\ users' \in [Emails -> Users] /\ \A d \in Emails \ {e} : users'[d] = users[d]
      /\ users'[e] = u \/ (~u.exists /\ users'[e].exists /\ ~users'[e].confirmed)
      /\ c.route = "sign-up" => users'[e].exists
  <2>1. CASE c.route = "sign-up" /\ ~u.exists
    <3> DEFINE v == [exists |-> TRUE, confirmed |-> FALSE, password |-> c.password]
    <3>1. v \in Users /\ v.exists /\ ~v.confirmed
      BY <1>0 DEF Users
    <3>2. users' = [users EXCEPT ![e] = v]
      BY <2>1 DEF EmailRequest
    <3> HIDE DEF v
    <3> QED BY <1>0, <2>1, <3>1, <3>2
  <2>2. CASE ~(c.route = "sign-up" /\ ~u.exists)
    BY <1>0, <2>2 DEF EmailRequest
  <2> QED BY <2>1, <2>2
<1>2. \A d \in Emails : users[d].exists => users'[d].exists /\ (Ended(d) => Ended(d)')
  BY <1>1 DEF Ended
<1>3. \A d \in Emails : users'[d].confirmed => users'[d].exists
  BY <1>0, <1>1 DEF AccountsExist
<1>4. mails' = mails \/ \E kind \in {"email", "recovery"} : mails' = Append(mails, [kind |-> kind, to |-> e, spent |-> FALSE]) /\ users'[e].exists
  <2>1. CASE c.route = "forgot"
    <3>1. mails' = mails \/ (u.confirmed /\ mails' = Append(mails, [kind |-> "recovery", to |-> e, spent |-> FALSE]))
      BY <2>1 DEF EmailRequest, Mailed
    <3> QED BY <1>0, <1>2, <3>1 DEF AccountsExist
  <2>2. CASE c.route # "forgot"
    <3>1. \/ mails' = mails
          \/ (c.route = "resend" => u.exists) /\ mails' = Append(mails, [kind |-> "email", to |-> e, spent |-> FALSE])
      BY <2>2 DEF EmailRequest, Mailed
    <3>2. c.route = "sign-up" \/ c.route = "resend"
      BY <2>2 DEF EmailRoutes
    <3> QED BY <1>1, <1>2, <3>1, <3>2
  <2> QED BY <2>1, <2>2
<1>5. mails' \in Seq(Letters) /\ Len(mails) <= Len(mails') /\ \A n \in 1..Len(mails') : users'[mails'[n].to].exists
  <2>1. CASE mails' = mails
    <3>1. \A n \in 1..Len(mails) : mails[n].to \in Emails
      BY <1>0, LetterFields
    <3> QED BY <1>0, <1>2, <2>1, <3>1 DEF AccountsExist
  <2>2. ASSUME NEW kind \in {"email", "recovery"}, mails' = Append(mails, [kind |-> kind, to |-> e, spent |-> FALSE]), users'[e].exists
        PROVE mails' \in Seq(Letters) /\ Len(mails) <= Len(mails') /\ \A n \in 1..Len(mails') : users'[mails'[n].to].exists
    <3> DEFINE x == [kind |-> kind, to |-> e, spent |-> FALSE]
    <3>1. x \in Letters /\ x.to = e
      BY DEF Letters
    <3> HIDE DEF x
    <3>2. mails' = Append(mails, x)
      BY <2>2 DEF x
    <3>3. \A n \in 1..Len(mails) : mails[n].to \in Emails
      BY <1>0, LetterFields
    <3>4. Len(mails') = Len(mails) + 1 /\ mails'[Len(mails) + 1] = x /\ \A n \in 1..Len(mails) : mails'[n] = mails[n]
      BY <1>0, <3>1, <3>2
    <3>5. ASSUME NEW n \in 1..Len(mails') PROVE users'[mails'[n].to].exists
      <4>1. CASE n = Len(mails) + 1
        BY <2>2, <3>1, <3>4, <4>1
      <4>2. CASE n \in 1..Len(mails)
        BY <1>0, <1>2, <3>3, <3>4, <4>2 DEF AccountsExist
      <4> QED BY <1>0, <3>4, <4>1, <4>2
    <3> QED BY <1>0, <3>1, <3>2, <3>4, <3>5
  <2> QED BY <1>4, <2>1, <2>2
<1>6. AccountsExist'
  <2>1. cookie # NoSession => users'[cookie].exists
    BY <1>0, <1>2 DEF AccountsExist, SignInTypeOK
  <2>2. elsewhere.who # NoSession => users'[elsewhere.who].exists
    BY <1>0, <1>2 DEF AccountsExist, SignInTypeOK, Others
  <2> QED BY <1>0, <1>3, <1>5, <2>1, <2>2 DEF AccountsExist
<1> QED BY <1>0, <1>1, <1>2, <1>5, <1>6 DEF AccountsKept

LEMMA AnswerSteps ==
  ASSUME SignInInv, NEW s \in {"form", "again"}, NEW took \in 0..MaxTook, Answer1(s, took)
  PROVE  SignInInv'
<1> DEFINE c == calls[s]
<1>0. SignInTypeOK /\ PanelCalls /\ LinkCalls /\ SavedIsSaved /\ SentMeansAsked /\ AccountsExist /\ took \in Nat
  BY FloorAssumption DEF SignInInv
<1>1. Busy(s) /\ c \in Requests /\ UNCHANGED <<elsewhere, panel, linkPage, resent>>
  BY <1>0, BusyIsARequest DEF Answer1, Slots
<1>2. c.email \in Emails /\ c.route \in PanelRoutes
  BY <1>0, <1>1 DEF PanelCalls
<1>3. took + UniformDelay(took) \in Nat /\ OnTheGrid(took + UniformDelay(took))
  BY <1>0, DelayEndsOnTheGrid
<1> DEFINE Moves == \E x : PutPanelCall(s, x)
           Keeps == /\ users' \in [Emails -> Users] /\ mails' \in Seq(Letters) /\ AccountsKept
                    /\ cookie' \in Emails \cup {NoSession} /\ AccountsExist' /\ SentMeansAsked'
<1>4. ASSUME calls' = [calls EXCEPT ![s].code = "rate_limited"], UNCHANGED <<users, mails, cookie, accepted>> PROVE Moves /\ Keeps
  <2> DEFINE x == [c EXCEPT !.code = "rate_limited"]
  <2>1. x \in Requests /\ x.code = "rate_limited" /\ x.route = c.route /\ x.email = c.email
    BY <1>1 DEF Requests, AnswerCodes
  <2>2. calls' = [calls EXCEPT ![s] = x]
    BY <1>4
  <2> HIDE DEF x
  <2>3. PutPanelCall(s, x)
    BY <1>0, <1>2, <1>4, <2>1, <2>2 DEF PutPanelCall, Delayed, SignInTypeOK
  <2>4. Keeps
    BY <1>0, <1>1, <1>4 DEF SignInTypeOK, AccountsKept, AccountsExist, SentMeansAsked, Ended
  <2> QED BY <2>3, <2>4
<1>5. ASSUME c.route \in EmailRoutes, EmailRequest(c), accepted' = accepted \cup {c.email},
             calls' = [calls EXCEPT ![s].code = "check_email", ![s].at = took + UniformDelay(took)]
      PROVE  Moves /\ Keeps
  <2> DEFINE x == [c EXCEPT !.code = "check_email", !.at = took + UniformDelay(took)]
  <2>1. x \in Requests /\ x.code = "check_email" /\ x.route = c.route /\ x.email = c.email /\ x.at = took + UniformDelay(took)
    BY <1>1, <1>3 DEF Requests, AnswerCodes
  <2>2. calls' = [calls EXCEPT ![s] = x]
    BY <1>0, <1>5 DEF SignInTypeOK, Slots
  <2> HIDE DEF x
  <2>3. PutPanelCall(s, x)
    BY <1>0, <1>2, <1>3, <1>5, <2>1, <2>2 DEF PutPanelCall, SignInTypeOK
  <2>4. Keeps
    BY <1>0, <1>1, <1>2, <1>5, EmailRequestKeeps DEF SignInTypeOK, SentMeansAsked
  <2> QED BY <2>3, <2>4
<1>6. ASSUME cookie' = IF SignInFailure(c) = "signed_in" THEN c.email ELSE cookie, UNCHANGED <<users, mails, accepted>>,
             calls' = [calls EXCEPT ![s].code = SignInFailure(c),
                                    ![s].at = IF SignInFailure(c) = "signed_in" THEN Floor ELSE took + UniformDelay(took)]
      PROVE  Moves /\ Keeps
  <2> DEFINE w == SignInFailure(c)
             n == IF w = "signed_in" THEN Floor ELSE took + UniformDelay(took)
             x == [c EXCEPT !.code = w, !.at = n]
  <2>0. w \in {"invalid_credentials", "email_not_confirmed", "signed_in"} /\ (w = "signed_in" => users[c.email].exists)
    BY DEF SignInFailure
  <2>1. n \in Nat /\ (w # "signed_in" => OnTheGrid(n))
    BY <1>3, FloorAssumption
  <2>2. calls' = [calls EXCEPT ![s] = x]
    BY <1>0, <1>6 DEF SignInTypeOK, Slots
  <2>3. cookie' = IF w = "signed_in" THEN c.email ELSE cookie
    BY <1>6
  <2> HIDE DEF w, n
  <2>4. x \in Requests /\ x.code = w /\ x.route = c.route /\ x.email = c.email /\ x.at = n
    BY <1>1, <2>0, <2>1 DEF Requests, AnswerCodes
  <2> HIDE DEF x
  <2>5. PutPanelCall(s, x)
    BY <1>0, <1>2, <1>6, <2>0, <2>1, <2>2, <2>4 DEF PutPanelCall, Delayed, SignInTypeOK
  <2>6. cookie' \in Emails \cup {NoSession} /\ (cookie' # NoSession => users[cookie'].exists)
    BY <1>0, <1>2, <2>0, <2>3 DEF SignInTypeOK, AccountsExist
  <2>7. Keeps
    BY <1>0, <1>1, <1>6, <2>6 DEF SignInTypeOK, AccountsKept, AccountsExist, SentMeansAsked, Ended
  <2> QED BY <2>5, <2>7
<1>7. Moves /\ Keeps
  BY <1>4, <1>5, <1>6 DEF Answer1
<1>8. PICK x : PutPanelCall(s, x)
  BY <1>7
<1>9. calls' \in [Slots -> {NoCall} \cup Requests] /\ PanelCalls' /\ calls'["link"] = calls["link"]
  BY <1>0, <1>8, PanelCallMoves
<1>10. LinkCalls' /\ SavedIsSaved'
  BY <1>0, <1>1, <1>7, <1>9, LinkStays
<1>11. SignInTypeOK'
  BY <1>0, <1>1, <1>7, <1>8, <1>9 DEF SignInTypeOK, PutPanelCall
<1> QED BY <1>7, <1>9, <1>10, <1>11 DEF SignInInv

\* A request that touches no panel call and no account.
LEMMA LoseSteps ==
  ASSUME SignInInv, NEW s \in Slots, LoseAnswer(s)
  PROVE  SignInInv'
<1> DEFINE w == IF s = "link" THEN "lost" ELSE "unavailable"
           x == [calls[s] EXCEPT !.code = w]
<1>0. /\ SignInTypeOK /\ PanelCalls /\ LinkCalls /\ SavedIsSaved /\ Busy(s) /\ calls[s] \in Requests /\ calls' = [calls EXCEPT ![s] = x]
      /\ UNCHANGED <<users, mails, cookie, elsewhere, panel, linkPage, accepted, resent>>
  BY BusyIsARequest DEF SignInInv, LoseAnswer
<1>1. w \in {"lost", "unavailable"}
  OBVIOUS
<1> HIDE DEF w
<1>2. x \in Requests /\ x.code = w /\ x.route = calls[s].route /\ x.email = calls[s].email
  BY <1>0, <1>1 DEF Requests, AnswerCodes
<1> HIDE DEF x
<1>3. calls' \in [Slots -> {NoCall} \cup Requests] /\ PanelCalls' /\ LinkCalls' /\ SavedIsSaved'
  <2>1. CASE s \in {"form", "again"}
    <3>1. PutPanelCall(s, x)
      BY <1>0, <1>1, <1>2, <2>1 DEF PutPanelCall, PanelCalls, Delayed, SignInTypeOK
    <3>2. calls' \in [Slots -> {NoCall} \cup Requests] /\ PanelCalls' /\ calls'["link"] = calls["link"]
      BY <1>0, <3>1, PanelCallMoves
    <3>3. AccountsKept /\ mails' \in Seq(Letters)
      BY <1>0 DEF AccountsKept, Ended, SignInTypeOK
    <3> QED BY <1>0, <3>2, <3>3, LinkStays
  <2>2. CASE s = "link"
    <3>1. calls' \in [Slots -> {NoCall} \cup Requests] /\ PanelCalls' /\ calls'["link"] = x
      BY <1>0, <1>2, <2>2, PanelCallsStay
    <3>2. LinkCalls'
      BY <1>0, <1>1, <1>2, <2>2, <3>1 DEF LinkCalls, Busy
    <3>3. SavedIsSaved'
      BY <1>0, <2>2 DEF SavedIsSaved
    <3> QED BY <3>1, <3>2, <3>3
  <2> QED BY <2>1, <2>2 DEF Slots
<1>4. SignInTypeOK'
  BY <1>0, <1>3 DEF SignInTypeOK
<1> QED BY <1>0, <1>3, <1>4 DEF SignInInv, AccountsExist, SentMeansAsked

\* The browser's cookie and the other browser's session.
LEMMA SessionSteps ==
  ASSUME SignInInv, SignOut \/ \E e \in Emails : SignInElsewhere(e)
  PROVE  SignInInv'
<1>0. SignInTypeOK /\ PanelCalls /\ LinkCalls /\ SavedIsSaved /\ AccountsExist /\ SentMeansAsked
  BY DEF SignInInv
<1>1. UNCHANGED <<users, mails, panel, calls, linkPage, accepted, resent>>
  BY DEF SignOut, SignInElsewhere
<1>2. /\ cookie' \in Emails \cup {NoSession} /\ elsewhere' \in Others /\ AccountsExist'
      /\ elsewhere' = elsewhere \/ elsewhere'.password = users[elsewhere'.who].password
  <2>1. ASSUME SignOut PROVE cookie' = NoSession /\ elsewhere' = elsewhere
    BY <2>1 DEF SignOut
  <2>2. ASSUME NEW e \in Emails, SignInElsewhere(e)
        PROVE  /\ cookie' = cookie /\ users[e].confirmed /\ elsewhere'.who = e
               /\ elsewhere' \in Others /\ elsewhere'.password = users[e].password
    <3>1. elsewhere' = [who |-> e, password |-> users[e].password, kept |-> FALSE]
      BY <2>2 DEF SignInElsewhere
    <3>2. users[e].password \in MaybePassword
      BY <1>0, UserFields DEF SignInTypeOK
    <3> QED BY <2>2, <3>1, <3>2 DEF SignInElsewhere, Others
  <2> QED BY <1>0, <1>1, <2>1, <2>2 DEF SignInTypeOK, AccountsExist
<1>3. AccountsKept /\ mails' \in Seq(Letters)
  BY <1>0, <1>1, <1>2 DEF AccountsKept, Ended, SignInTypeOK
<1>4. LinkCalls' /\ SavedIsSaved'
  BY <1>0, <1>1, <1>3, LinkStays
<1> QED BY <1>0, <1>1, <1>2, <1>4 DEF SignInInv, SignInTypeOK, PanelCalls, Busy, SentMeansAsked, OnTheGrid

LEMMA OpenLinkSteps ==
  ASSUME SignInInv, NEW n \in 1..MaxMails, NEW cut \in BOOLEAN, OpenLink(n, cut)
  PROVE  SignInInv'
<1> DEFINE x == IF cut THEN NoCall ELSE Sending(PageOf1(mails[n].kind), mails[n].to, None)
<1>0. /\ SignInTypeOK /\ PanelCalls /\ n \in 1..Len(mails) /\ calls' = [calls EXCEPT !["link"] = x]
      /\ UNCHANGED <<users, mails, cookie, elsewhere, panel, accepted, resent>>
  BY DEF SignInInv, OpenLink
<1>1. mails \in Seq(Letters) /\ Len(mails) \in Nat /\ mails[n].to \in Emails /\ mails[n].kind \in {"email", "recovery"} /\ n \in Nat
  BY <1>0, LetterFields DEF SignInTypeOK
<1>2. linkPage' \in LinkPages /\ linkPage'.mail = n /\ linkPage'.stage # "saved"
  <2>1. PICK g \in {"verifying", "choose", "no_link", "link_invalid"} :
           linkPage' = [page |-> PageOf1(mails[n].kind), mail |-> n, cut |-> cut, saved |-> None, stage |-> g]
    <3> DEFINE g == IF ~cut THEN "verifying" ELSE IF mails[n].kind = "recovery" /\ cookie # NoSession THEN "choose"
                    ELSE IF mails[n].kind = "recovery" THEN "no_link" ELSE "link_invalid"
    <3>1. linkPage' = [page |-> PageOf1(mails[n].kind), mail |-> n, cut |-> cut, saved |-> None, stage |-> g]
      BY DEF OpenLink
    <3>2. g \in {"verifying", "choose", "no_link", "link_invalid"}
      OBVIOUS
    <3> HIDE DEF g
    <3> QED BY <3>1, <3>2
  <2>2. PageOf1(mails[n].kind) \in {"confirm", "reset"} /\ None \in MaybeEmail
    BY DEF PageOf1, MaybeEmail
  <2>3. g \in LinkStages
    BY DEF LinkStages
  <2> HIDE DEF PageOf1
  <2> QED BY <1>1, <2>1, <2>2, <2>3 DEF LinkPages
<1>3. x = NoCall \/ (x \in Requests /\ x.route \in {"confirm", "reset"})
  <2>1. PageOf1(mails[n].kind) \in {"confirm", "reset"} /\ mails[n].to \in MaybeEmail /\ None \in MaybePassword
    BY <1>1 DEF PageOf1, MaybeEmail, MaybePassword
  <2> HIDE DEF PageOf1
  <2> QED BY <2>1 DEF Sending, Requests, AnswerCodes, LinkRoutes
<1> HIDE DEF x
<1>4. calls' \in [Slots -> {NoCall} \cup Requests] /\ PanelCalls' /\ calls'["link"] = x
  BY <1>0, <1>3, PanelCallsStay
<1>5. LinkCalls'
  BY <1>0, <1>2, <1>3, <1>4 DEF LinkCalls, Busy, LinkRoutes
<1>6. SignInTypeOK' /\ SavedIsSaved'
  BY <1>0, <1>2, <1>4 DEF SignInTypeOK, SavedIsSaved
<1> QED BY <1>0, <1>4, <1>5, <1>6 DEF SignInInv, AccountsExist, SentMeansAsked

\* A token verified confirms an account that exists, and signs the browser in.
LEMMA VerifySteps ==
  ASSUME SignInInv, Verify
  PROVE  SignInInv'
<1> DEFINE c == calls["link"]
           n == linkPage.mail
           e == mails[n].to
<1>0. /\ SignInTypeOK /\ PanelCalls /\ LinkCalls /\ SavedIsSaved /\ AccountsExist /\ Busy("link") /\ c \in Requests
      /\ c.route \in {"confirm", "reset"} /\ n \in 1..Len(mails)
      /\ UNCHANGED <<elsewhere, panel, linkPage, accepted, resent>>
  BY BusyIsARequest DEF SignInInv, Verify, LinkCalls, Slots
<1>1. mails \in Seq(Letters) /\ Len(mails) \in Nat /\ e \in Emails /\ mails[n] \in Letters
  BY <1>0, LetterFields DEF SignInTypeOK
<1>2. PICK w \in {"rate_limited", "link_unusable", "ok"} : calls' = [calls EXCEPT !["link"].code = w]
  BY DEF Verify
<1> DEFINE x == [c EXCEPT !.code = w]
<1>3. x \in Requests /\ x.route = c.route /\ calls' = [calls EXCEPT !["link"] = x]
  BY <1>0, <1>2 DEF Requests, AnswerCodes
<1> HIDE DEF x
<1>4. calls' \in [Slots -> {NoCall} \cup Requests] /\ PanelCalls' /\ calls'["link"] = x
  BY <1>0, <1>3, PanelCallsStay
<1>5. /\ users' \in [Emails -> Users] /\ mails' \in Seq(Letters) /\ cookie' \in Emails \cup {NoSession}
      /\ Len(mails') = Len(mails) /\ AccountsExist'
  <2>1. CASE UNCHANGED <<users, mails, cookie>>
    BY <1>0, <2>1 DEF SignInTypeOK, AccountsExist
  <2>2. CASE /\ mails' = [mails EXCEPT ![n].spent = TRUE] /\ cookie' = e
             /\ users' = [users EXCEPT ![e].confirmed = TRUE]
    <3>1. users[e] \in Users /\ users[e].exists
      BY <1>0, <1>1 DEF SignInTypeOK, AccountsExist
    <3> DEFINE v == [users[e] EXCEPT !.confirmed = TRUE]
               l == [mails[n] EXCEPT !.spent = TRUE]
    <3>2. v \in Users /\ v.exists
      BY <3>1 DEF Users
    <3>3. l \in Letters /\ l.to = e
      BY <1>1 DEF Letters
    <3>4. users' = [users EXCEPT ![e] = v] /\ mails' = [mails EXCEPT ![n] = l]
      BY <2>2
    <3> HIDE DEF v, l
    <3>5. users' \in [Emails -> Users] /\ \A d \in Emails : d # e => users'[d] = users[d]
      BY <1>0, <3>2, <3>4 DEF SignInTypeOK
    <3>6. users'[e].exists /\ \A d \in Emails : users[d].exists => users'[d].exists
      BY <1>0, <1>1, <3>2, <3>4, <3>5 DEF SignInTypeOK
    <3>7. mails' \in Seq(Letters) /\ Len(mails') = Len(mails) /\ \A k \in 1..Len(mails) : mails'[k].to = mails[k].to
      BY <1>0, <1>1, <3>3, <3>4
    <3>8. \A k \in 1..Len(mails) : mails[k].to \in Emails
      BY <1>1, LetterFields
    <3>9. \A k \in 1..Len(mails') : users'[mails'[k].to].exists
      BY <1>0, <3>6, <3>7, <3>8 DEF AccountsExist
    <3>10. \A d \in Emails : users'[d].confirmed => users'[d].exists
      BY <1>0, <3>5, <3>6 DEF AccountsExist
    <3>11. elsewhere.who # NoSession => users'[elsewhere.who].exists
      BY <1>0, <3>6 DEF AccountsExist, SignInTypeOK, Others
    <3> QED BY <1>0, <1>1, <2>2, <3>5, <3>6, <3>7, <3>9, <3>10, <3>11 DEF AccountsExist
  <2> QED BY <2>1, <2>2 DEF Verify
<1>6. SignInTypeOK'
  BY <1>0, <1>4, <1>5 DEF SignInTypeOK
<1>7. LinkCalls' /\ SavedIsSaved'
  BY <1>0, <1>3, <1>4, <1>5 DEF LinkCalls, SavedIsSaved, Busy
<1> QED BY <1>0, <1>4, <1>5, <1>6, <1>7 DEF SignInInv, SentMeansAsked

LEMMA ChooseSteps ==
  ASSUME SignInInv, NEW p \in Passwords, ChoosePassword(p)
  PROVE  SignInInv'
<1> DEFINE x == Sending("update-password", None, p)
<1>0. /\ SignInTypeOK /\ PanelCalls /\ linkPage.stage = "choose" /\ calls' = [calls EXCEPT !["link"] = x]
      /\ UNCHANGED <<users, mails, cookie, elsewhere, panel, linkPage, accepted, resent>>
  BY DEF SignInInv, ChoosePassword
<1>1. x \in Requests /\ x.route = "update-password" /\ x.email = None /\ x.code = None
  <2>1. p \in MaybePassword /\ None \in MaybeEmail
    BY DEF MaybePassword, MaybeEmail
  <2> QED BY <2>1 DEF Sending, Requests, AnswerCodes, LinkRoutes
<1> HIDE DEF x
<1>2. calls' \in [Slots -> {NoCall} \cup Requests] /\ PanelCalls' /\ calls'["link"] = x
  BY <1>0, <1>1, PanelCallsStay
<1>3. LinkCalls'
  BY <1>1, <1>2 DEF LinkCalls, Busy, LinkRoutes, None
<1>4. SignInTypeOK' /\ SavedIsSaved'
  BY <1>0, <1>2 DEF SignInTypeOK, SavedIsSaved
<1> QED BY <1>0, <1>2, <1>3, <1>4 DEF SignInInv, AccountsExist, SentMeansAsked

\* The password changes for whoever the cookie names, then the account's other
\* sessions end; "ok" is said of an account whose sessions have.
LEMMA UpdateSteps ==
  ASSUME SignInInv, UpdatePassword
  PROVE  SignInInv'
<1> DEFINE c == calls["link"]
<1>0. /\ SignInTypeOK /\ PanelCalls /\ LinkCalls /\ SavedIsSaved /\ AccountsExist /\ Busy("link") /\ c \in Requests
      /\ c.route = "update-password" /\ c.code = None /\ UNCHANGED <<mails, cookie, panel, linkPage, accepted, resent>>
  BY BusyIsARequest DEF SignInInv, UpdatePassword, Slots
<1>1. SavedIsSaved'
  BY <1>0 DEF SavedIsSaved
<1> DEFINE Moves == \E x \in Requests : /\ calls' = [calls EXCEPT !["link"] = x] /\ x.route = "update-password"
                                        /\ x.email # None => users'[x.email].exists
                                        /\ x.code = "ok" => x.email # None /\ Ended(x.email)'
           Keeps == users' \in [Emails -> Users] /\ elsewhere' \in Others /\ AccountsExist'
<1>2. ASSUME NEW w \in {"reset_session_expired", "same_password"}, calls' = [calls EXCEPT !["link"].code = w], UNCHANGED <<users, elsewhere>>
      PROVE Moves /\ Keeps
  <2> DEFINE x == [c EXCEPT !.code = w]
  <2>1. x \in Requests /\ x.route = "update-password" /\ x.code = w /\ x.email = c.email
    BY <1>0 DEF Requests, AnswerCodes
  <2>2. calls' = [calls EXCEPT !["link"] = x]
    BY <1>2
  <2> HIDE DEF x
  <2>3. Moves
    BY <1>0, <1>2, <2>1, <2>2 DEF LinkCalls
  <2> QED BY <1>0, <1>2, <2>3 DEF SignInTypeOK, AccountsExist
<1>3. ASSUME c.email # None, users' = users, calls' = [calls EXCEPT !["link"].code = "ok"],
             elsewhere' = elsewhere \/ elsewhere' = [elsewhere EXCEPT !.kept = TRUE] \/ elsewhere' = NoOther,
             elsewhere.who = c.email => elsewhere' # elsewhere \/ elsewhere.kept
      PROVE  Moves /\ Keeps
  <2> DEFINE x == [c EXCEPT !.code = "ok"]
  <2>1. x \in Requests /\ x.route = "update-password" /\ x.code = "ok" /\ x.email = c.email
    BY <1>0 DEF Requests, AnswerCodes
  <2>2. calls' = [calls EXCEPT !["link"] = x]
    BY <1>3
  <2> HIDE DEF x
  <2>3. PICK e \in Emails : e = c.email /\ e # NoSession
    BY <1>0, <1>3, RequestFields, NamesApart DEF MaybeEmail
  <2>4. elsewhere' \in Others /\ elsewhere'.who \in {elsewhere.who, NoSession}
    <3>1. [elsewhere EXCEPT !.kept = TRUE] \in Others /\ [elsewhere EXCEPT !.kept = TRUE].who = elsewhere.who
      BY <1>0 DEF SignInTypeOK, Others
    <3>2. NoOther \in Others /\ NoOther.who = NoSession
      BY DEF NoOther, Others, MaybePassword
    <3> QED BY <1>0, <1>3, <3>1, <3>2 DEF SignInTypeOK
  <2>5. Ended(e)'
    <3>1. CASE elsewhere.who # e
      BY <2>3, <2>4, <3>1 DEF Ended
    <3>2. CASE elsewhere' = NoOther
      BY <2>3, <3>2 DEF Ended, NoOther
    <3>3. CASE elsewhere.who = e /\ elsewhere' # NoOther
      <4>1. elsewhere'.kept
        BY <1>0, <1>3, <2>3, <3>3 DEF SignInTypeOK, Others
      <4> QED BY <4>1 DEF Ended
    <3> QED BY <3>1, <3>2, <3>3
  <2>6. Moves
    BY <1>0, <1>3, <2>1, <2>2, <2>3, <2>5 DEF LinkCalls
  <2> QED BY <1>0, <1>3, <2>4, <2>6 DEF SignInTypeOK, AccountsExist
<1>4. ASSUME cookie # NoSession, users' = [users EXCEPT ![cookie].password = c.password],
             calls' = [calls EXCEPT !["link"].email = cookie], elsewhere' = elsewhere
      PROVE  Moves /\ Keeps
  <2> DEFINE x == [c EXCEPT !.email = cookie]
             v == [users[cookie] EXCEPT !.password = c.password]
  <2>0. cookie \in Emails /\ cookie \in MaybeEmail /\ c.password \in MaybePassword /\ users[cookie] \in Users /\ users[cookie].exists
    BY <1>0, <1>4, RequestFields DEF SignInTypeOK, MaybeEmail, AccountsExist
  <2>1. x \in Requests /\ x.route = "update-password" /\ x.code = None /\ x.email = cookie
    BY <1>0, <2>0 DEF Requests
  <2>2. v \in Users /\ v.exists /\ v.confirmed = users[cookie].confirmed
    BY <2>0 DEF Users
  <2>3. calls' = [calls EXCEPT !["link"] = x] /\ users' = [users EXCEPT ![cookie] = v]
    BY <1>4
  <2> HIDE DEF x, v
  <2>4. users' \in [Emails -> Users] /\ \A d \in Emails : users'[d].exists = users[d].exists /\ users'[d].confirmed = users[d].confirmed
    BY <1>0, <2>0, <2>2, <2>3 DEF SignInTypeOK
  <2>5. Moves
    BY <2>0, <2>1, <2>3, <2>4 DEF None
  <2>6. \A n \in 1..Len(mails) : mails[n].to \in Emails
    BY <1>0, LetterFields DEF SignInTypeOK
  <2>7. AccountsExist'
    BY <1>0, <1>4, <2>4, <2>6 DEF AccountsExist, SignInTypeOK, Others
  <2> QED BY <1>0, <1>4, <2>4, <2>5, <2>7 DEF SignInTypeOK
<1>5. Moves /\ Keeps
  <2>1. CASE cookie = NoSession
    BY <1>2, <2>1 DEF UpdatePassword
  <2>2. CASE cookie # NoSession /\ c.email # None
    <3>1. PICK fails \in BOOLEAN : elsewhere' = IF elsewhere.who # c.email THEN elsewhere
                                                ELSE IF fails THEN [elsewhere EXCEPT !.kept = TRUE] ELSE NoOther
      BY <2>2 DEF UpdatePassword
    <3>2. elsewhere.who = c.email => elsewhere' # elsewhere \/ elsewhere.kept
      <4>1. c.email # NoSession
        BY <1>0, <2>2, RequestFields, NamesApart DEF MaybeEmail
      <4>2. [elsewhere EXCEPT !.kept = TRUE].kept /\ NoOther.who = NoSession
        BY <1>0 DEF SignInTypeOK, Others, NoOther
      <4> QED BY <3>1, <4>1, <4>2
    <3> QED BY <1>3, <2>2, <3>1, <3>2 DEF UpdatePassword
  <2>3. CASE cookie # NoSession /\ c.email = None
    BY <1>2, <1>4, <2>3 DEF UpdatePassword
  <2> QED BY <2>1, <2>2, <2>3
<1>6. PICK x \in Requests : /\ calls' = [calls EXCEPT !["link"] = x] /\ x.route = "update-password"
                            /\ x.email # None => users'[x.email].exists
                            /\ x.code = "ok" => x.email # None /\ Ended(x.email)'
  BY <1>5
<1>7. calls' \in [Slots -> {NoCall} \cup Requests] /\ PanelCalls' /\ calls'["link"] = x
  BY <1>0, <1>6, PanelCallsStay
<1>8. LinkCalls'
  BY <1>6, <1>7 DEF LinkCalls, Busy, LinkRoutes, Ended
<1>9. SignInTypeOK'
  BY <1>0, <1>5, <1>7 DEF SignInTypeOK
<1> QED BY <1>0, <1>1, <1>5, <1>7, <1>8, <1>9 DEF SignInInv, SentMeansAsked

LEMMA LinkAnsweredSteps ==
  ASSUME SignInInv, LinkAnswered
  PROVE  SignInInv'
<1> DEFINE c == calls["link"]
<1>0. /\ SignInTypeOK /\ PanelCalls /\ LinkCalls /\ AccountsExist /\ Busy("link") /\ c \in Requests
      /\ calls' = [calls EXCEPT !["link"] = NoCall] /\ UNCHANGED <<users, mails, cookie, elsewhere, panel, accepted, resent>>
  BY BusyIsARequest DEF SignInInv, LinkAnswered, Slots
<1>1. calls' \in [Slots -> {NoCall} \cup Requests] /\ PanelCalls' /\ calls'["link"] = NoCall
  BY <1>0, PanelCallsStay
<1> DEFINE g == CASE c.route = "update-password" ->
                       (IF c.code = "ok" THEN "saved" ELSE IF c.code = "reset_session_expired" THEN "session_expired" ELSE "choose")
                  [] c.code = "ok" -> (IF c.route = "confirm" THEN "signed in" ELSE "choose")
                  [] c.code = "link_unusable" -> "link_unusable"
                  [] OTHER -> (IF c.route = "confirm" THEN "unavailable" ELSE "link_invalid")
           a == IF c.route = "update-password" /\ c.code = "ok" THEN c.email ELSE linkPage.saved
<1>2. linkPage' = [linkPage EXCEPT !.saved = a, !.stage = g]
  BY DEF LinkAnswered
<1>3. g \in LinkStages /\ (g = "saved" => c.route = "update-password" /\ c.code = "ok")
  BY DEF LinkStages
<1>4. a \in MaybeEmail /\ (g = "saved" => a = c.email)
  <2>1. c.email \in MaybeEmail /\ linkPage.saved \in MaybeEmail
    BY <1>0, RequestFields DEF SignInTypeOK, LinkPages
  <2> HIDE DEF g
  <2> QED BY <1>3, <2>1
<1> HIDE DEF g, a
<1>5. linkPage' \in LinkPages /\ linkPage'.stage = g /\ linkPage'.saved = a
  BY <1>0, <1>2, <1>3, <1>4 DEF SignInTypeOK, LinkPages
<1>6. LinkCalls' /\ SavedIsSaved'
  BY <1>0, <1>1, <1>3, <1>4, <1>5 DEF LinkCalls, SavedIsSaved, Busy, Ended
<1>7. SignInTypeOK'
  BY <1>0, <1>1, <1>5 DEF SignInTypeOK
<1> QED BY <1>0, <1>1, <1>6, <1>7 DEF SignInInv, AccountsExist, SentMeansAsked

LEMMA SignInSteps == SignInInv /\ [SignInNext]_signInVars => SignInInv'
  BY PanelSteps, SubmitSteps, ResendSteps, AnsweredSteps, AnswerSteps, LoseSteps, OpenLinkSteps, VerifySteps, UpdateSteps,
     LinkAnsweredSteps, SessionSteps, ChooseSteps DEF SignInNext, PanelStep, Slots

LEMMA SignInRight == SignInSpec => []SignInInv
  BY SignInStarts, SignInSteps, PTL DEF SignInSpec

\* Whatever the addresses, the limits and the answers lost: the notice names an
\* address that was asked for, no delayed answer comes off the grid, and a saved
\* password has ended the account's other sessions.
THEOREM SignInTellsTheTruth == SignInSpec => []SignInIsAsTold
<1>1. SignInInv => SignInIsAsTold
  BY DEF SignInInv, SignInIsAsTold, PanelCalls, Delayed, AnswersOnTheGrid, SavedIsSaved, OthersSignedOut
<1> QED BY <1>1, SignInRight, PTL

(***************************************************************************)
(* A question to the agent.                                                *)
(***************************************************************************)
ToolNames == ToSet(AgentTools) \cup {"none"}
EventTypes ==
    {"run_started", "tool_started", "tool_completed", "evidence_assessed", "answer_completed", "run_failed"}
Told == [type : EventTypes, tool : ToolNames]

Callers == {"member", "guest", "lapsed"}
Refusals == {"guest_rate_limited", "sign_in_required", "agent_api_failed"}
PanelStates == {"idle", "running", "complete", "error"}
PanelErrors == {"none", "stopped", "not asked"} \cup Refusals
Panels == [ask : 0..MaxAsks, status : PanelStates, seen : SUBSET Told, error : PanelErrors, signUp : BOOLEAN]
AskStages == {"free", "asked", "route", "refused", "streaming", "broken"}
AskRecords ==
    [stage : AskStages, who : Callers \cup {"none"}, counted : BOOLEAN,
     audience : {"none", "member", "guest"}, code : Refusals \cup {"none"}, events : Seq(Told)]
WorkPlaces == {"idle", "begin", "choose", "call", "save", "finish", "fail save", "end"}
WorkRecords == [at : WorkPlaces, tool : Nat]
RunStates == {"none", "running", "finished", "failed"}
RunRecords == [status : RunStates, calls : SUBSET ToolNames, plan : BOOLEAN]
Answerers == {"none", "service", "front end", "nobody"}
Sayings == {"none", "built", "unavailable", "not followed", "refused"}
PlanRecords == [busy : BOOLEAN, said : Sayings, followed : BOOLEAN, by : Answerers]

AgentTypeOK ==
    /\ who \in Callers
    /\ page \in Panels
    /\ asks \in [1..MaxAsks -> AskRecords]
    /\ work \in [1..MaxAsks -> WorkRecords]
    /\ runs \in [1..MaxAsks -> RunRecords]
    /\ allowance \in Nat
    /\ plan \in PlanRecords
    /\ agentFaults \in Nat

\* What a question's events say to the panel: those on their way and, while the
\* panel is this question's, those it has read.
Heard(q) == ToSet(asks[q].events) \cup (IF page.ask = q THEN page.seen ELSE {})

\* A question a, its work w, its run r and what is told of it agree.  A reported
\* call is recorded and an answer is the last thing a run does, so nothing stores
\* another status over the one it was told of.
AskRight(a, w, r, told) ==
    /\ \A e \in told :
        /\ e.type = "tool_completed" => e.tool \in r.calls /\ (e.tool = PlanTool => r.plan)
        /\ e.type = "answer_completed" => r.status = "finished" /\ w.at = "end"
    /\ a.stage \notin {"streaming", "broken"} => r.status = "none" /\ ~r.plan /\ w.at = "idle"
    /\ a.stage \in {"streaming", "broken"} =>
        \/ a.audience = "member" /\ a.who = "member"
        \/ a.audience = "guest" /\ a.counted /\ ~r.plan
    /\ w.at = "call" => w.tool \in DOMAIN AgentTools /\ (AgentTools[w.tool] = PlanTool => a.audience = "member")

AsksRight == \A q \in 1..MaxAsks : AskRight(asks[q], work[q], runs[q], Heard(q))

CountedAsks == {q \in 1..MaxAsks : asks[q].counted}
CountsRight == allowance <= Allowance /\ Cardinality(CountedAsks) <= Allowance - allowance

AgentInv == AgentTypeOK /\ AsksRight /\ CountsRight /\ VerdictIsTheServices

LEMMA TellMore ==
    ASSUME NEW s \in Seq(Told), NEW e \in Told
    PROVE  /\ Append(s, e) \in Seq(Told) /\ ToSet(Append(s, e)) = ToSet(s) \cup {e}
           /\ s # <<>> => Head(s) \in Told /\ Head(s) \in ToSet(s) /\ Tail(s) \in Seq(Told) /\ ToSet(Tail(s)) \subseteq ToSet(s)
           /\ ToSet(s) \subseteq Told /\ <<>> \in Seq(Told) /\ ToSet(<<>>) = {}
<1>1. Append(s, e) \in Seq(Told) /\ ToSet(Append(s, e)) = ToSet(s) \cup {e}
  <2>1. /\ Append(s, e) \in Seq(Told) /\ Len(Append(s, e)) = Len(s) + 1
        /\ \A i \in 1..Len(s) : Append(s, e)[i] = s[i]
        /\ Append(s, e)[Len(s) + 1] = e
    BY AppendProperties
  <2>2. DOMAIN Append(s, e) = 1..(Len(s) + 1) /\ DOMAIN s = 1..Len(s) /\ Len(s) \in Nat
    BY <2>1
  <2> QED BY <2>1, <2>2 DEF ToSet
<1>2. s # <<>> => Head(s) \in Told /\ Head(s) \in ToSet(s) /\ Tail(s) \in Seq(Told) /\ ToSet(Tail(s)) \subseteq ToSet(s)
  <2> SUFFICES ASSUME s # <<>> PROVE Head(s) \in Told /\ Head(s) \in ToSet(s) /\ Tail(s) \in Seq(Told) /\ ToSet(Tail(s)) \subseteq ToSet(s)
    OBVIOUS
  <2>1. /\ Tail(s) \in Seq(Told) /\ Len(Tail(s)) = Len(s) - 1
        /\ \A i \in 1..Len(Tail(s)) : Tail(s)[i] = s[i + 1]
        /\ Head(s) = s[1] /\ Len(s) \in Nat \ {0} /\ DOMAIN s = 1..Len(s)
    BY HeadTailProperties
  <2>2. DOMAIN Tail(s) = 1..(Len(s) - 1)
    BY <2>1
  <2> QED BY <2>1, <2>2 DEF ToSet
<1>3. ToSet(s) \subseteq Told /\ <<>> \in Seq(Told) /\ ToSet(<<>>) = {}
  BY DEF ToSet
<1> QED BY <1>1, <1>2, <1>3

LEMMA OneAskMoves ==
    ASSUME AsksRight, NEW q \in 1..MaxAsks,
           \A p \in 1..MaxAsks \ {q} :
              asks'[p] = asks[p] /\ work'[p] = work[p] /\ runs'[p] = runs[p] /\ Heard(p)' \subseteq Heard(p),
           AskRight(asks'[q], work'[q], runs'[q], Heard(q)')
    PROVE  AsksRight'
<1> SUFFICES ASSUME NEW p \in 1..MaxAsks PROVE AskRight(asks'[p], work'[p], runs'[p], Heard(p)')
  BY DEF AsksRight
<1>1. CASE p = q
  BY <1>1
<1>2. CASE p # q
  <2>1. AskRight(asks[p], work[p], runs[p], Heard(p))
    BY DEF AsksRight
  <2> QED BY <1>2, <2>1 DEF AskRight
<1> QED BY <1>1, <1>2

LEMMA AgentStarts == AgentInit => AgentInv
<1> SUFFICES ASSUME AgentInit PROVE AgentInv
  OBVIOUS
<1>a. MaxAsks \in Nat \ {0} /\ Allowance \in Nat
  BY AgentAssumption
<1>1. AgentTypeOK
  BY <1>a DEF AgentInit, AgentTypeOK, Idle, NoAsk, NoPlan, AskRecords, WorkRecords, RunRecords, Panels, PlanRecords,
              EventTypes, Callers, Refusals, PanelStates, PanelErrors, AskStages, WorkPlaces, RunStates, Answerers, Sayings
<1>2. AsksRight
  <2> SUFFICES ASSUME NEW q \in 1..MaxAsks PROVE AskRight(asks[q], work[q], runs[q], Heard(q))
    BY DEF AsksRight
  <2>1. Heard(q) = {}
    BY <1>a DEF AgentInit, Heard, ToSet, NoAsk, Idle
  <2> QED BY <2>1 DEF AgentInit, AskRight, NoAsk
<1>3. CountsRight
  <2>1. CountedAsks = {}
    BY DEF AgentInit, CountedAsks, NoAsk
  <2> QED BY <1>a, <2>1, FS_EmptySet DEF AgentInit, CountsRight
<1>4. VerdictIsTheServices
  BY DEF AgentInit, VerdictIsTheServices, NoPlan
<1> QED BY <1>1, <1>2, <1>3, <1>4 DEF AgentInv

\* Records and tables of records keep their types field by field.
LEMMA PutOne ==
    ASSUME NEW S, NEW R, NEW f \in [S -> R], NEW q \in S, NEW v \in R
    PROVE  [f EXCEPT ![q] = v] \in [S -> R]
OBVIOUS

LEMMA AskFields ==
    ASSUME NEW a \in AskRecords
    PROVE  /\ \A s \in AskStages : [a EXCEPT !.stage = s] \in AskRecords
           /\ \A s \in AskStages, c \in Refusals \cup {"none"} : [a EXCEPT !.stage = s, !.code = c] \in AskRecords
           /\ \A s \in AskStages, c \in BOOLEAN : [a EXCEPT !.stage = s, !.counted = c] \in AskRecords
           /\ \A s \in AskStages, c \in {"none", "member", "guest"} : [a EXCEPT !.stage = s, !.audience = c] \in AskRecords
           /\ \A es \in Seq(Told) : [a EXCEPT !.events = es] \in AskRecords
           /\ \A s \in AskStages, es \in Seq(Told) : [a EXCEPT !.stage = s, !.events = es] \in AskRecords
           /\ \A w \in Callers \cup {"none"} : [a EXCEPT !.who = w] \in AskRecords
           /\ a.events \in Seq(Told) /\ a.code \in Refusals \cup {"none"}
BY DEF AskRecords

LEMMA WorkFields ==
    ASSUME NEW w \in WorkRecords
    PROVE  /\ \A s \in WorkPlaces : [w EXCEPT !.at = s] \in WorkRecords
           /\ \A s \in WorkPlaces, n \in Nat : [at |-> s, tool |-> n] \in WorkRecords
BY DEF WorkRecords

LEMMA RunFields ==
    ASSUME NEW r \in RunRecords
    PROVE  /\ \A s \in RunStates : [r EXCEPT !.status = s] \in RunRecords
           /\ \A p \in BOOLEAN : [r EXCEPT !.plan = p] \in RunRecords
           /\ \A p \in BOOLEAN, ts \in SUBSET ToolNames : [r EXCEPT !.plan = p, !.calls = ts] \in RunRecords
           /\ r.plan \in BOOLEAN /\ r.calls \in SUBSET ToolNames
BY DEF RunRecords

LEMMA AgentTypeStep == AgentTypeOK /\ AsksRight /\ [AgentNext]_agentVars => AgentTypeOK'
<1> SUFFICES ASSUME AgentTypeOK, AsksRight, [AgentNext]_agentVars PROVE AgentTypeOK'
  OBVIOUS
<1>a. MaxAsks \in Nat \ {0}
  BY AgentAssumption
<1>e. "none" \in ToolNames /\ \A i \in DOMAIN AgentTools : AgentTools[i] \in ToolNames /\ i \in Nat
  BY AgentAssumption DEF ToolNames, ToSet
<1> DEFINE AsksOK == asks' \in [1..MaxAsks -> AskRecords]
           WorkOK == work' \in [1..MaxAsks -> WorkRecords]
           RunsOK == runs' \in [1..MaxAsks -> RunRecords]
<1>q. \A q \in 1..MaxAsks :
        /\ asks[q] \in AskRecords /\ work[q] \in WorkRecords /\ runs[q] \in RunRecords
        /\ \A v \in AskRecords : [asks EXCEPT ![q] = v] \in [1..MaxAsks -> AskRecords]
        /\ \A v \in WorkRecords : [work EXCEPT ![q] = v] \in [1..MaxAsks -> WorkRecords]
        /\ \A v \in RunRecords : [runs EXCEPT ![q] = v] \in [1..MaxAsks -> RunRecords]
  BY PutOne DEF AgentTypeOK
<1>t. \A q \in 1..MaxAsks, t \in EventTypes, s \in ToolNames : Emit(q, Event(t, s)) => AsksOK
  <2> SUFFICES ASSUME NEW q \in 1..MaxAsks, NEW t \in EventTypes, NEW s \in ToolNames, Emit(q, Event(t, s))
               PROVE AsksOK
    OBVIOUS
  <2>1. asks[q].events \in Seq(Told) /\ Event(t, s) \in Told
    BY <1>q, AskFields DEF Event, Told
  <2>2. Append(asks[q].events, Event(t, s)) \in Seq(Told)
    BY <2>1, TellMore
  <2> QED BY <2>2, <1>q, AskFields DEF Emit
<1>s. \A q \in 1..MaxAsks, s \in WorkPlaces : Move(q, s) => WorkOK
  BY <1>q, WorkFields DEF Move
<1>f. Fault => agentFaults' \in Nat
  BY DEF Fault, AgentTypeOK
<1>c. \A q \in 1..MaxAsks, c \in Refusals : Refuse(q, c) => AsksOK
  <2> SUFFICES ASSUME NEW q \in 1..MaxAsks, NEW c \in Refusals, Refuse(q, c) PROVE AsksOK
    OBVIOUS
  <2>1. asks' = [asks EXCEPT ![q] = [asks[q] EXCEPT !.stage = "refused", !.code = c]]
    BY DEF Refuse
  <2>2. "refused" \in AskStages
    BY DEF AskStages
  <2> QED BY <2>1, <2>2, <1>q, AskFields
<1>r. \A q \in 1..MaxAsks, s \in RunStates : runs' = [runs EXCEPT ![q].status = s] => RunsOK
  <2> SUFFICES ASSUME NEW q \in 1..MaxAsks, NEW s \in RunStates, runs' = [runs EXCEPT ![q].status = s] PROVE RunsOK
    OBVIOUS
  <2>1. runs' = [runs EXCEPT ![q] = [runs[q] EXCEPT !.status = s]] /\ runs[q] \in RunRecords
    BY <1>q
  <2>2. [runs[q] EXCEPT !.status = s] \in RunRecords
    BY <2>1, RunFields
  <2> QED BY <2>1, <2>2, <1>q
<1>n. WorkPlaces = {"idle", "begin", "choose", "call", "save", "finish", "fail save", "end"}
      /\ RunStates = {"none", "running", "finished", "failed"}
  BY DEF WorkPlaces, RunStates
<1>p. /\ {"run_started", "tool_started", "tool_completed", "evidence_assessed", "answer_completed", "run_failed"} \subseteq EventTypes
      /\ {"guest_rate_limited", "sign_in_required", "agent_api_failed"} \subseteq Refusals
      /\ {"asked", "route", "streaming", "broken"} \subseteq AskStages
  BY DEF EventTypes, Refusals, AskStages
<1>k. page \in Panels /\ Idle \in Panels /\ \A q \in 1..MaxAsks : [Idle EXCEPT !.ask = q, !.status = "running"] \in Panels
  <2>1. {"idle", "running"} \subseteq PanelStates /\ "none" \in PanelErrors
    BY DEF PanelStates, PanelErrors
  <2>2. 0 \in 0..MaxAsks /\ 1..MaxAsks \subseteq 0..MaxAsks
    BY <1>a
  <2> QED BY <2>1, <2>2 DEF AgentTypeOK, Idle, Panels
<1>1. ASSUME NEW q \in 1..MaxAsks, AgentAsk(q) PROVE AgentTypeOK'
  <2>1. who \in Callers
    BY DEF AgentTypeOK
  <2>2. [NoAsk EXCEPT !.stage = "asked", !.who = who] \in AskRecords
    <3>1. "asked" \in AskStages /\ <<>> \in Seq(Told)
      BY <1>p
    <3> QED BY <2>1, <3>1 DEF NoAsk, AskRecords
  <2> QED BY <1>1, <1>q, <1>k, <2>2 DEF AgentAsk, AgentTypeOK
<1>2. ASSUME NEW q \in 1..MaxAsks, GuestAgentAllowance(q) PROVE AgentTypeOK'
  <2>1. CASE asks[q].who # "guest"
    <3>1. asks' = [asks EXCEPT ![q] = [asks[q] EXCEPT !.stage = "route"]] /\ "route" \in AskStages
      BY <1>2, <1>p, <2>1 DEF GuestAgentAllowance
    <3>2. AsksOK
      BY <3>1, <1>q, AskFields
    <3> QED BY <1>2, <2>1, <3>2 DEF GuestAgentAllowance, AgentTypeOK
  <2>2. CASE asks[q].who = "guest" /\ allowance = 0
    BY <1>2, <1>p, <1>c, <2>2 DEF GuestAgentAllowance, AgentTypeOK
  <2>3. CASE asks[q].who = "guest" /\ allowance # 0
    <3>1. asks' = [asks EXCEPT ![q] = [asks[q] EXCEPT !.stage = "route", !.counted = TRUE]]
      BY <1>2, <2>3 DEF GuestAgentAllowance
    <3>2. AsksOK
      BY <3>1, <1>p, <1>q, AskFields
    <3> QED BY <1>2, <2>3, <3>2 DEF GuestAgentAllowance, AgentTypeOK
  <2> QED BY <2>1, <2>2, <2>3
<1>3. ASSUME NEW q \in 1..MaxAsks, RecruitingAgentRoute(q) PROVE AgentTypeOK'
  <2>1. CASE Caller(q) = "nobody"
    BY <1>3, <2>1, <1>c, <1>p DEF RecruitingAgentRoute, AgentTypeOK
  <2>2. CASE Caller(q) # "nobody"
    <3>1. CASE Refuse(q, "agent_api_failed") /\ Fault /\ UNCHANGED work
      BY <1>3, <3>1, <1>c, <1>f, <1>p DEF RecruitingAgentRoute, AgentTypeOK
    <3>2. CASE /\ asks' = [asks EXCEPT ![q].stage = "streaming", ![q].audience = Caller(q)]
               /\ work' = [work EXCEPT ![q].at = "begin"]
               /\ UNCHANGED agentFaults
      <4>1. Caller(q) \in {"member", "guest"}
        BY <2>2 DEF Caller
      <4>2. asks' = [asks EXCEPT ![q] = [asks[q] EXCEPT !.stage = "streaming", !.audience = Caller(q)]]
        BY <3>2
      <4>3. AsksOK
        BY <4>1, <4>2, <1>p, <1>q, AskFields
      <4>4. WorkOK
        BY <3>2, <1>n, <1>q, WorkFields
      <4> QED BY <1>3, <3>2, <4>3, <4>4 DEF RecruitingAgentRoute, AgentTypeOK
    <3> QED BY <1>3, <2>2, <3>1, <3>2 DEF RecruitingAgentRoute
  <2> QED BY <2>1, <2>2
<1>4. ASSUME NEW q \in 1..MaxAsks, Lapse(q) PROVE AgentTypeOK'
  <2>1. "lapsed" \in Callers
    BY DEF Callers
  <2>2. AsksOK
    BY <1>4, <2>1, <1>q, AskFields DEF Lapse
  <2> QED BY <1>4, <2>1, <2>2 DEF Lapse, AgentTypeOK
<1>5. ASSUME NEW q \in 1..MaxAsks, StartAgentRun(q) PROVE AgentTypeOK'
  <2>1. AsksOK
    BY <1>5, <1>t, <1>p, <1>e DEF StartAgentRun, AgentTypeOK
  <2>2. WorkOK /\ agentFaults' \in Nat
    BY <1>5, <1>s, <1>f, <1>n DEF StartAgentRun, AgentTypeOK
  <2>3. RunsOK
    BY <1>5, <1>r, <1>n DEF StartAgentRun, AgentTypeOK
  <2> QED BY <1>5, <2>1, <2>2, <2>3 DEF StartAgentRun, AgentTypeOK
<1>6. ASSUME NEW q \in 1..MaxAsks, ChooseTool(q) PROVE AgentTypeOK'
  <2>1. CASE Move(q, "save") /\ Emit(q, Event("evidence_assessed", "none"))
    <3>1. AsksOK /\ WorkOK
      BY <2>1, <1>s, <1>t, <1>n, <1>p, <1>e
    <3> QED BY <1>6, <3>1 DEF ChooseTool, AgentTypeOK
  <2>2. ASSUME NEW i \in NextAction(q), work' = [work EXCEPT ![q] = [at |-> "call", tool |-> i]],
               Emit(q, Event("tool_started", AgentTools[i]))
        PROVE  AgentTypeOK'
    <3>1. i \in Nat /\ AgentTools[i] \in ToolNames
      BY <2>2, <1>e DEF NextAction
    <3>2. AsksOK
      BY <2>2, <3>1, <1>t, <1>p
    <3>3. WorkOK
      BY <2>2, <3>1, <1>q, <1>n, WorkFields
    <3> QED BY <1>6, <3>2, <3>3 DEF ChooseTool, AgentTypeOK
  <2> QED BY <1>6, <2>1, <2>2 DEF ChooseTool
<1>7. ASSUME NEW q \in 1..MaxAsks, CallTool(q) PROVE AgentTypeOK'
  <2> DEFINE t == AgentTools[work[q].tool]
  <2>0. t \in ToolNames
    BY <1>7, <1>e DEF AsksRight, AskRight, CallTool, AtWork
  <2>a. AtWork(q, "call")
    BY <1>7 DEF CallTool
  <2>b. \/ /\ runs' = [runs EXCEPT ![q].plan = @ \/ t = PlanTool, ![q].calls = @ \cup {t}]
           /\ Emit(q, Event("tool_completed", t)) /\ Move(q, "choose") /\ UNCHANGED agentFaults
        \/ /\ Fault /\ Move(q, "fail save") /\ UNCHANGED asks
           /\ \E stored \in BOOLEAN : runs' = IF stored THEN [runs EXCEPT ![q].plan = @ \/ t = PlanTool] ELSE runs
    BY <1>7 DEF CallTool
  <2> HIDE DEF t
  <2>1. AsksOK
    BY <2>b, <1>t, <2>0, <1>p DEF AgentTypeOK
  <2>2. WorkOK /\ agentFaults' \in Nat
    BY <2>b, <1>s, <1>f, <1>n DEF AgentTypeOK
  <2>3. RunsOK
    <3> DEFINE b == runs[q].plan \/ t = PlanTool
               ts == runs[q].calls \cup {t}
    <3>1. b \in BOOLEAN /\ ts \in SUBSET ToolNames
      BY <2>0, <1>q, RunFields
    <3>2. \/ runs' = [runs EXCEPT ![q] = [runs[q] EXCEPT !.plan = b, !.calls = ts]]
          \/ runs' = [runs EXCEPT ![q] = [runs[q] EXCEPT !.plan = b]]
          \/ runs' = runs
      BY <2>b
    <3> HIDE DEF b, ts
    <3>3. [runs[q] EXCEPT !.plan = b, !.calls = ts] \in RunRecords /\ [runs[q] EXCEPT !.plan = b] \in RunRecords
      BY <3>1, <1>q, RunFields
    <3>4. runs \in [1..MaxAsks -> RunRecords]
      BY DEF AgentTypeOK
    <3> QED BY <3>2, <3>3, <3>4, <1>q
  <2> QED BY <1>7, <2>1, <2>2, <2>3 DEF CallTool, AgentTypeOK
<1>8. ASSUME NEW q \in 1..MaxAsks, SaveState(q) PROVE AgentTypeOK'
  <2>1. WorkOK /\ agentFaults' \in Nat
    BY <1>8, <1>s, <1>f, <1>n DEF SaveState, AgentTypeOK
  <2> QED BY <1>8, <2>1 DEF SaveState, AgentTypeOK
<1>9. ASSUME NEW q \in 1..MaxAsks, FinishRun(q) PROVE AgentTypeOK'
  <2>1. AsksOK
    BY <1>9, <1>t, <1>p, <1>e DEF FinishRun, AgentTypeOK
  <2>2. WorkOK /\ agentFaults' \in Nat
    BY <1>9, <1>s, <1>f, <1>n DEF FinishRun, AgentTypeOK
  <2>3. RunsOK
    BY <1>9, <1>r, <1>n DEF FinishRun, AgentTypeOK
  <2> QED BY <1>9, <2>1, <2>2, <2>3 DEF FinishRun, AgentTypeOK
<1>10. ASSUME NEW q \in 1..MaxAsks, FailRun(q) PROVE AgentTypeOK'
  <2>1. AsksOK
    BY <1>10, <1>t, <1>p, <1>e DEF FailRun, AgentTypeOK
  <2>2. WorkOK /\ agentFaults' \in Nat
    BY <1>10, <1>s, <1>f, <1>n DEF FailRun, AgentTypeOK
  <2>3. RunsOK
    BY <1>10, <1>r, <1>n DEF FailRun, AgentTypeOK
  <2> QED BY <1>10, <2>1, <2>2, <2>3 DEF FailRun, AgentTypeOK
<1>11. ASSUME NEW q \in 1..MaxAsks, InstanceStops(q) PROVE AgentTypeOK'
  <2>1. <<>> \in Seq(Told)
    OBVIOUS
  <2>2. asks' = [asks EXCEPT ![q] = [asks[q] EXCEPT !.stage = "broken", !.events = <<>>]]
    BY <1>11 DEF InstanceStops
  <2>3. AsksOK
    BY <2>1, <2>2, <1>q, <1>p, AskFields
  <2> QED BY <1>11, <2>3, <1>f DEF InstanceStops, AgentTypeOK
<1>12. ASSUME NEW q \in 1..MaxAsks, Take(q) PROVE AgentTypeOK'
  <2>1. asks[q].events \in Seq(Told)
    BY <1>q, AskFields
  <2>2. Head(asks[q].events) \in Told /\ Tail(asks[q].events) \in Seq(Told)
    BY <1>12, <2>1, HeadTailProperties DEF Take
  <2>3. AsksOK
    BY <1>12, <2>2, <1>q, AskFields DEF Take
  <2>4. page' \in Panels
    BY <1>12, <2>2, <1>k DEF Take, Panels
  <2> QED BY <1>12, <2>3, <2>4 DEF Take, AgentTypeOK
<1>13. ASSUME NEW q \in 1..MaxAsks, EndOfStream(q) PROVE AgentTypeOK'
  <2>1. page' \in Panels
    BY <1>13, <1>k DEF EndOfStream, Panels, PanelStates, PanelErrors
  <2> QED BY <1>13, <2>1 DEF EndOfStream, AgentTypeOK
<1>14. ASSUME NEW q \in 1..MaxAsks, Problem(q) PROVE AgentTypeOK'
  <2>1. asks[q].code \in Refusals \cup {"none"} /\ OffersSignUp(asks[q].code) \in BOOLEAN
    <3>1. asks[q].code \in Refusals \cup {"none"}
      BY <1>q, AskFields
    <3> QED BY <3>1 DEF OffersSignUp
  <2>2. page' \in Panels
    BY <1>14, <1>k, <2>1 DEF Problem, Panels, PanelStates, PanelErrors
  <2> QED BY <1>14, <2>2 DEF Problem, AgentTypeOK
<1>15. CASE LeavePanel
  BY <1>15, <1>k DEF LeavePanel, AgentTypeOK
<1>16. ASSUME NEW w \in {"member", "guest", "lapsed"}, Become(w) PROVE AgentTypeOK'
  BY <1>16 DEF Become, AgentTypeOK, Callers
<1>17. ASSUME NEW f \in BOOLEAN, GenerateReadiness(f) PROVE AgentTypeOK'
  <2>1. plan' \in PlanRecords
    BY <1>17 DEF GenerateReadiness, NoPlan, PlanRecords, Sayings, Answerers
  <2> QED BY <1>17, <2>1 DEF GenerateReadiness, AgentTypeOK
<1>18. ASSUME NEW u \in Upstreams, RequestReadinessPlan(u) PROVE AgentTypeOK'
  <2>1. u.by \in Answerers
    <3>1. \/ u \in ServiceAnswers \/ u \in FrontEndAnswers \/ u \in NoAnswers
      BY DEF Upstreams
    <3>2. u.by \in {"service", "front end", "nobody"}
      BY <3>1 DEF ServiceAnswers, FrontEndAnswers, NoAnswers
    <3> QED BY <3>2 DEF Answerers
  <2>2. plan' \in PlanRecords
    <3> DEFINE words == IF u.status = 200 THEN "built"
                       ELSE IF ~IsAgentVerdict(u) THEN "unavailable"
                       ELSE IF u.status = 403 THEN "not followed" ELSE "refused"
    <3>1. words \in Sayings
      BY DEF Sayings
    <3>2. plan' = [plan EXCEPT !.busy = FALSE, !.by = u.by, !.said = words]
      BY <1>18 DEF RequestReadinessPlan
    <3> HIDE DEF words
    <3>3. plan \in PlanRecords
      BY DEF AgentTypeOK
    <3> QED BY <2>1, <3>1, <3>2, <3>3 DEF PlanRecords
  <2>3. agentFaults' \in Nat
    BY <1>18 DEF RequestReadinessPlan, AgentTypeOK
  <2> QED BY <1>18, <2>2, <2>3 DEF RequestReadinessPlan, AgentTypeOK
<1>19. CASE UNCHANGED agentVars
  BY <1>19 DEF agentVars, AgentTypeOK
<1> QED
  BY <1>1, <1>2, <1>3, <1>4, <1>5, <1>6, <1>7, <1>8, <1>9, <1>10, <1>11, <1>12, <1>13, <1>14, <1>15, <1>16, <1>17, <1>18,
     <1>19 DEF AgentNext


\* What is heard of a question, when its events and the panel move.
LEMMA HeardMoves ==
    ASSUME NEW q
    PROVE  /\ /\ asks'[q].events = asks[q].events \/ asks'[q].events = <<>>
              /\ (page'.ask = page.ask /\ page'.seen = page.seen) \/ page'.ask # q \/ page'.seen = {}
              => Heard(q)' \subseteq Heard(q)
           /\ \A e \in Told :
                asks[q].events \in Seq(Told) /\ asks'[q].events = Append(asks[q].events, e) /\ UNCHANGED page
                => Heard(q)' = Heard(q) \cup {e}
<1>1. ASSUME NEW e \in Told, asks[q].events \in Seq(Told), asks'[q].events = Append(asks[q].events, e), UNCHANGED page
      PROVE  Heard(q)' = Heard(q) \cup {e}
  <2>1. ToSet(asks'[q].events) = ToSet(asks[q].events) \cup {e}
    BY <1>1, TellMore
  <2> QED BY <1>1, <2>1 DEF Heard
<1>2. ASSUME asks'[q].events = asks[q].events \/ asks'[q].events = <<>>,
             (page'.ask = page.ask /\ page'.seen = page.seen) \/ page'.ask # q \/ page'.seen = {}
      PROVE  Heard(q)' \subseteq Heard(q)
  BY <1>2 DEF Heard, ToSet
<1> QED BY <1>1, <1>2

\* A step of the run itself: the question stays, and what more is told of it is so.
RunStep(q, told) ==
    /\ asks[q].stage = "streaming" /\ work[q].at # "end" /\ UNCHANGED page
    /\ \A p \in 1..MaxAsks \ {q} : asks'[p] = asks[p] /\ work'[p] = work[p] /\ runs'[p] = runs[p]
    /\ asks'[q].stage = asks[q].stage /\ asks'[q].who = asks[q].who
    /\ asks'[q].audience = asks[q].audience /\ asks'[q].counted = asks[q].counted
    /\ Heard(q)' \subseteq Heard(q) \cup told
    /\ \A e \in told :
         /\ e.type = "tool_completed" => e.tool \in runs'[q].calls /\ (e.tool = PlanTool => runs'[q].plan)
         /\ e.type = "answer_completed" => runs'[q].status = "finished" /\ work'[q].at = "end"
    /\ runs[q].calls \subseteq runs'[q].calls /\ (runs[q].plan => runs'[q].plan)
    /\ runs'[q].plan => runs[q].plan \/ asks[q].audience = "member"
    /\ work'[q].at = "call" =>
         work'[q].tool \in DOMAIN AgentTools /\ (AgentTools[work'[q].tool] = PlanTool => asks[q].audience = "member")

LEMMA RunMoves ==
    ASSUME AsksRight, NEW q \in 1..MaxAsks, NEW told, RunStep(q, told)
    PROVE  AsksRight'
<1>1. AskRight(asks[q], work[q], runs[q], Heard(q)) /\ asks[q].stage = "streaming" /\ work[q].at # "end"
  BY DEF RunStep, AsksRight
<1>2. \A e \in Heard(q) :
        e.type # "answer_completed" /\ (e.type = "tool_completed" => e.tool \in runs[q].calls /\ (e.tool = PlanTool => runs[q].plan))
  BY <1>1 DEF AskRight
<1>3. \A e \in Heard(q)' :
        /\ e.type = "tool_completed" => e.tool \in runs'[q].calls /\ (e.tool = PlanTool => runs'[q].plan)
        /\ e.type = "answer_completed" => runs'[q].status = "finished" /\ work'[q].at = "end"
  BY <1>2 DEF RunStep
<1>4. \/ asks[q].audience = "member" /\ asks[q].who = "member"
      \/ asks[q].audience = "guest" /\ asks[q].counted /\ ~runs[q].plan
  BY <1>1 DEF AskRight
<1>5. AskRight(asks'[q], work'[q], runs'[q], Heard(q)')
  BY <1>1, <1>3, <1>4 DEF AskRight, RunStep
<1>6. \A p \in 1..MaxAsks \ {q} : Heard(p)' \subseteq Heard(p)
  BY HeardMoves DEF RunStep
<1> QED BY <1>5, <1>6, OneAskMoves DEF RunStep

\* An event reported with the facts it reports leaves the question right.
LEMMA AsksRightStep == AgentTypeOK /\ AsksRight /\ [AgentNext]_agentVars => AsksRight'
<1> SUFFICES ASSUME AgentTypeOK, AsksRight, [AgentNext]_agentVars PROVE AsksRight'
  OBVIOUS
<1>q. \A q \in 1..MaxAsks :
        /\ asks[q] \in AskRecords /\ work[q] \in WorkRecords /\ runs[q] \in RunRecords
        /\ asks[q].events \in Seq(Told) /\ runs[q].plan \in BOOLEAN
        /\ AskRight(asks[q], work[q], runs[q], Heard(q))
  BY DEF AgentTypeOK, AskRecords, RunRecords, AsksRight
<1>f. /\ DOMAIN asks = 1..MaxAsks /\ DOMAIN work = 1..MaxAsks /\ DOMAIN runs = 1..MaxAsks
      /\ \A q \in 1..MaxAsks : asks[q] = [asks[q] EXCEPT !.stage = @]
  BY DEF AgentTypeOK, AskRecords
<1>t. \A t \in EventTypes, s \in ToolNames : Event(t, s) \in Told /\ Event(t, s).type = t /\ Event(t, s).tool = s
  BY DEF Event, Told
<1>n. "none" \in ToolNames /\ \A i \in DOMAIN AgentTools : AgentTools[i] \in ToolNames /\ i \in Nat
  BY AgentAssumption DEF ToolNames, ToSet
<1>p. {"run_started", "tool_started", "tool_completed", "evidence_assessed", "answer_completed", "run_failed"} \subseteq EventTypes
  BY DEF EventTypes
<1>1. ASSUME NEW q \in 1..MaxAsks, AgentAsk(q) PROVE AsksRight'
  <2>1. AskRight(asks[q], work[q], runs[q], Heard(q)) /\ asks[q].stage = "free"
    BY <1>1, <1>q DEF AgentAsk
  <2>2. asks'[q].stage = "asked" /\ asks'[q].events = <<>> /\ page'.seen = {}
    BY <1>1, <1>f DEF AgentAsk, NoAsk, Idle
  <2>3. Heard(q)' = {}
    BY <2>2 DEF Heard, ToSet
  <2>4. AskRight(asks'[q], work'[q], runs'[q], Heard(q)')
    BY <1>1, <2>1, <2>2, <2>3 DEF AgentAsk, AskRight
  <2>5. \A p \in 1..MaxAsks \ {q} : asks'[p] = asks[p] /\ Heard(p)' \subseteq Heard(p)
    BY <1>1, <1>f, HeardMoves, <2>2 DEF AgentAsk
  <2> QED BY <1>1, <2>4, <2>5, OneAskMoves DEF AgentAsk
<1>2. ASSUME NEW q \in 1..MaxAsks, GuestAgentAllowance(q) \/ RecruitingAgentRoute(q) \/ Lapse(q) PROVE AsksRight'
  <2>1. AskRight(asks[q], work[q], runs[q], Heard(q)) /\ asks[q].stage \in {"asked", "route"}
    BY <1>2, <1>q DEF GuestAgentAllowance, RecruitingAgentRoute, Lapse
  <2>2. /\ \A p \in 1..MaxAsks : asks'[p].events = asks[p].events
        /\ \A p \in 1..MaxAsks \ {q} : asks'[p] = asks[p] /\ work'[p] = work[p]
        /\ UNCHANGED <<page, runs>>
    <3>a. \A c : Refuse(q, c) => asks' = [asks EXCEPT ![q] = [asks[q] EXCEPT !.stage = "refused", !.code = c]]
      BY DEF Refuse
    <3>1. \E v : asks' = [asks EXCEPT ![q] = v] /\ v.events = asks[q].events
      <4>0. asks[q] \in AskRecords
        BY <1>q
      <4>a. \A c, d : [asks[q] EXCEPT !.stage = c, !.code = d].events = asks[q].events
        BY <4>0 DEF AskRecords
      <4>b. \A c, d : [asks[q] EXCEPT !.stage = c, !.audience = d].events = asks[q].events
        BY <4>0 DEF AskRecords
      <4>c. \A c, d : [asks[q] EXCEPT !.stage = c, !.counted = d].events = asks[q].events
        BY <4>0 DEF AskRecords
      <4>d. \A c : [asks[q] EXCEPT !.stage = c].events = asks[q].events /\ [asks[q] EXCEPT !.who = c].events = asks[q].events
        BY <4>0 DEF AskRecords
      <4>1. CASE GuestAgentAllowance(q)
        <5>1. \/ asks' = [asks EXCEPT ![q] = [asks[q] EXCEPT !.stage = "refused", !.code = "guest_rate_limited"]]
              \/ asks' = [asks EXCEPT ![q] = [asks[q] EXCEPT !.stage = "route"]]
              \/ asks' = [asks EXCEPT ![q] = [asks[q] EXCEPT !.stage = "route", !.counted = TRUE]]
          BY <3>a, <4>1 DEF GuestAgentAllowance
        <5>2. CASE asks' = [asks EXCEPT ![q] = [asks[q] EXCEPT !.stage = "refused", !.code = "guest_rate_limited"]]
          BY <5>2, <4>a
        <5>3. CASE asks' = [asks EXCEPT ![q] = [asks[q] EXCEPT !.stage = "route"]]
          BY <5>3, <4>d
        <5>4. CASE asks' = [asks EXCEPT ![q] = [asks[q] EXCEPT !.stage = "route", !.counted = TRUE]]
          BY <5>4, <4>c
        <5> QED BY <5>1, <5>2, <5>3, <5>4
      <4>2. CASE RecruitingAgentRoute(q)
        <5>1. \/ \E c : asks' = [asks EXCEPT ![q] = [asks[q] EXCEPT !.stage = "refused", !.code = c]]
              \/ asks' = [asks EXCEPT ![q] = [asks[q] EXCEPT !.stage = "streaming", !.audience = Caller(q)]]
          BY <3>a, <4>2 DEF RecruitingAgentRoute
        <5>2. ASSUME NEW c, asks' = [asks EXCEPT ![q] = [asks[q] EXCEPT !.stage = "refused", !.code = c]]
              PROVE  \E v : asks' = [asks EXCEPT ![q] = v] /\ v.events = asks[q].events
          BY <5>2, <4>a
        <5>3. CASE asks' = [asks EXCEPT ![q] = [asks[q] EXCEPT !.stage = "streaming", !.audience = Caller(q)]]
          BY <5>3, <4>b
        <5> QED BY <5>1, <5>2, <5>3
      <4>3. CASE Lapse(q)
        <5>1. asks' = [asks EXCEPT ![q] = [asks[q] EXCEPT !.who = "lapsed"]]
          BY <4>3 DEF Lapse
        <5> QED BY <5>1, <4>d, Zenon
      <4> QED BY <1>2, <4>1, <4>2, <4>3
    <3>2. \A p \in 1..MaxAsks : asks'[p].events = asks[p].events /\ (p # q => asks'[p] = asks[p])
      BY <3>1, <1>f
    <3>3. UNCHANGED <<page, runs>> /\ (UNCHANGED work \/ work' = [work EXCEPT ![q].at = "begin"])
      BY <1>2 DEF GuestAgentAllowance, RecruitingAgentRoute, Lapse
    <3> QED BY <3>2, <3>3, <1>f
  <2>3. \A p \in 1..MaxAsks : Heard(p)' \subseteq Heard(p)
    BY HeardMoves, <2>2
  <2>4. \/ asks'[q].stage \notin {"streaming", "broken"} /\ work' = work
        \/ /\ asks'[q].stage = "streaming" /\ work'[q].at = "begin"
           /\ asks'[q].who = asks[q].who /\ asks'[q].counted = asks[q].counted
           /\ asks'[q].audience = Caller(q) /\ Caller(q) # "nobody"
    <3>1. CASE GuestAgentAllowance(q)
      <4>1. asks'[q].stage \in {"refused", "route"}
        <5>1. \/ asks' = [asks EXCEPT ![q] = [asks[q] EXCEPT !.stage = "refused", !.code = "guest_rate_limited"]]
              \/ asks' = [asks EXCEPT ![q] = [asks[q] EXCEPT !.stage = "route"]]
              \/ asks' = [asks EXCEPT ![q] = [asks[q] EXCEPT !.stage = "route", !.counted = TRUE]]
          BY <3>1 DEF GuestAgentAllowance, Refuse
        <5> QED BY <5>1, <1>f, <1>q DEF AskRecords
      <4> QED BY <3>1, <4>1 DEF GuestAgentAllowance
    <3>2. CASE Lapse(q)
      BY <3>2, <1>f DEF Lapse
    <3>3. CASE RecruitingAgentRoute(q)
      <4>1. CASE (\E c \in Refusals : Refuse(q, c)) /\ UNCHANGED work
        BY <4>1, <1>f DEF Refuse
      <4>2. CASE /\ asks' = [asks EXCEPT ![q].stage = "streaming", ![q].audience = Caller(q)]
                 /\ work' = [work EXCEPT ![q].at = "begin"] /\ Caller(q) # "nobody"
        <5>1. asks' = [asks EXCEPT ![q] = [asks[q] EXCEPT !.stage = "streaming", !.audience = Caller(q)]]
          BY <4>2
        <5>2. asks'[q] = [asks[q] EXCEPT !.stage = "streaming", !.audience = Caller(q)]
          BY <5>1, <1>f
        <5>3. work'[q].at = "begin"
          BY <4>2, <1>f, <1>q DEF WorkRecords
        <5>4. asks[q] \in AskRecords
          BY <1>q
        <5>5. asks'[q].stage = "streaming" /\ asks'[q].who = asks[q].who /\ asks'[q].counted = asks[q].counted
              /\ asks'[q].audience = Caller(q)
          BY <5>2, <5>4 DEF AskRecords
        <5> QED BY <4>2, <5>3, <5>5
      <4>3. {"sign_in_required", "agent_api_failed"} \subseteq Refusals
        BY DEF Refusals
      <4> QED BY <3>3, <4>1, <4>2, <4>3 DEF RecruitingAgentRoute
    <3> QED BY <1>2, <3>1, <3>2, <3>3
  <2>5. AskRight(asks'[q], work'[q], runs'[q], Heard(q)')
    <3>1. CASE asks'[q].stage \notin {"streaming", "broken"} /\ work' = work
      BY <2>1, <2>2, <2>3, <3>1 DEF AskRight
    <3>2. CASE /\ asks'[q].stage = "streaming" /\ work'[q].at = "begin"
               /\ asks'[q].who = asks[q].who /\ asks'[q].counted = asks[q].counted
               /\ asks'[q].audience = Caller(q) /\ Caller(q) # "nobody"
      <4>1. runs[q].status = "none" /\ ~runs[q].plan /\ work[q].at = "idle"
        BY <2>1 DEF AskRight
      <4>2. \A e \in Heard(q)' : e.type # "answer_completed" /\ (e.type = "tool_completed" => e.tool \in runs[q].calls /\ (e.tool = PlanTool => runs[q].plan))
        BY <2>1, <2>3, <4>1 DEF AskRight
      <4>3. \/ asks'[q].audience = "member" /\ asks'[q].who = "member"
            \/ asks'[q].audience = "guest" /\ asks'[q].counted /\ ~runs[q].plan
        BY <3>2, <4>1 DEF Caller
      <4> QED BY <3>2, <4>1, <4>2, <4>3, <2>2 DEF AskRight
    <3> QED BY <2>4, <3>1, <3>2
  <2> QED BY <2>2, <2>3, <2>5, OneAskMoves
\* The run's own steps.
<1>m. \A q \in 1..MaxAsks, s \in WorkPlaces :
        Move(q, s) => work'[q].at = s /\ work'[q].tool = work[q].tool /\ \A p \in 1..MaxAsks \ {q} : work'[p] = work[p]
  BY <1>f, <1>q DEF Move, WorkRecords
<1>d. \A q \in 1..MaxAsks, t \in EventTypes, s \in ToolNames :
        Emit(q, Event(t, s)) =>
          /\ asks'[q].stage = asks[q].stage /\ asks'[q].who = asks[q].who
          /\ asks'[q].audience = asks[q].audience /\ asks'[q].counted = asks[q].counted
          /\ \A p \in 1..MaxAsks \ {q} : asks'[p] = asks[p]
          /\ UNCHANGED page => Heard(q)' = Heard(q) \cup {Event(t, s)}
  <2> SUFFICES ASSUME NEW q \in 1..MaxAsks, NEW t \in EventTypes, NEW s \in ToolNames, Emit(q, Event(t, s))
               PROVE  /\ asks'[q].stage = asks[q].stage /\ asks'[q].who = asks[q].who
                      /\ asks'[q].audience = asks[q].audience /\ asks'[q].counted = asks[q].counted
                      /\ \A p \in 1..MaxAsks \ {q} : asks'[p] = asks[p]
                      /\ UNCHANGED page => Heard(q)' = Heard(q) \cup {Event(t, s)}
    OBVIOUS
  <2> DEFINE es == Append(asks[q].events, Event(t, s))
  <2>1. asks' = [asks EXCEPT ![q] = [asks[q] EXCEPT !.events = es]]
    BY DEF Emit
  <2>2. asks'[q] = [asks[q] EXCEPT !.events = es] /\ \A p \in 1..MaxAsks \ {q} : asks'[p] = asks[p]
    BY <2>1, <1>f
  <2> HIDE DEF es
  <2>3. asks[q] \in AskRecords
    BY <1>q
  <2>4. /\ asks'[q].stage = asks[q].stage /\ asks'[q].who = asks[q].who /\ asks'[q].events = es
        /\ asks'[q].audience = asks[q].audience /\ asks'[q].counted = asks[q].counted
    BY <2>2, <2>3 DEF AskRecords
  <2>5. Event(t, s) \in Told /\ asks[q].events \in Seq(Told)
    BY <1>t, <1>q
  <2> QED BY <2>2, <2>4, <2>5, HeardMoves DEF es
\* Of a failing statement nothing is told.
<1>u. \A q \in 1..MaxAsks : UNCHANGED <<asks, page>> => Heard(q)' \subseteq Heard(q) \cup {}
  BY HeardMoves
<1>g. {"begin", "choose", "call", "save", "finish", "fail save", "end"} \subseteq WorkPlaces
  BY DEF WorkPlaces
<1>3. ASSUME NEW q \in 1..MaxAsks, StartAgentRun(q) PROVE AsksRight'
  <2>0. AtWork(q, "begin") /\ UNCHANGED page
    BY <1>3 DEF StartAgentRun
  <2>1. CASE runs' = [runs EXCEPT ![q].status = "running"] /\ Emit(q, Event("run_started", "none")) /\ Move(q, "choose")
    <3>1. runs'[q].calls = runs[q].calls /\ runs'[q].plan = runs[q].plan /\ \A p \in 1..MaxAsks \ {q} : runs'[p] = runs[p]
      BY <2>1, <1>f, <1>q DEF RunRecords
    <3>2. Event("run_started", "none").type = "run_started" /\ "run_started" \in EventTypes
      BY <1>t, <1>p, <1>n
    <3>9. RunStep(q, {Event("run_started", "none")})
      BY <2>0, <2>1, <3>1, <3>2, <1>m, <1>d, <1>g, <1>n DEF RunStep, AtWork
    <3> QED BY <3>9, RunMoves
  <2>2. CASE Move(q, "end") /\ UNCHANGED <<runs, asks>>
    <3>9. RunStep(q, {})
      BY <2>0, <2>2, <1>m, <1>g, <1>u DEF RunStep, AtWork
    <3> QED BY <3>9, RunMoves
  <2> QED BY <1>3, <2>1, <2>2 DEF StartAgentRun
<1>4. ASSUME NEW q \in 1..MaxAsks, ChooseTool(q) PROVE AsksRight'
  <2>0. AtWork(q, "choose") /\ UNCHANGED <<page, runs>>
    BY <1>4 DEF ChooseTool
  <2>1. ASSUME NEW i \in NextAction(q), work' = [work EXCEPT ![q] = [at |-> "call", tool |-> i]],
               Emit(q, Event("tool_started", AgentTools[i]))
        PROVE  AsksRight'
    <3>1. i \in DOMAIN AgentTools /\ (AgentTools[i] = PlanTool => asks[q].audience = "member") /\ AgentTools[i] \in ToolNames
      BY <1>n DEF NextAction
    <3>2. Event("tool_started", AgentTools[i]).type = "tool_started" /\ "tool_started" \in EventTypes
      BY <1>t, <1>p, <3>1
    <3>3. work'[q].at = "call" /\ work'[q].tool = i /\ \A p \in 1..MaxAsks \ {q} : work'[p] = work[p]
      BY <2>1, <1>f
    <3>9. RunStep(q, {Event("tool_started", AgentTools[i])})
      BY <2>0, <2>1, <3>1, <3>2, <3>3, <1>d DEF RunStep, AtWork
    <3> QED BY <3>9, RunMoves
  <2>2. CASE Move(q, "save") /\ Emit(q, Event("evidence_assessed", "none"))
    <3>1. Event("evidence_assessed", "none").type = "evidence_assessed" /\ "evidence_assessed" \in EventTypes
      BY <1>t, <1>p, <1>n
    <3>9. RunStep(q, {Event("evidence_assessed", "none")})
      BY <2>0, <2>2, <3>1, <1>m, <1>d, <1>g, <1>n DEF RunStep, AtWork
    <3> QED BY <3>9, RunMoves
  <2> QED BY <1>4, <2>1, <2>2 DEF ChooseTool
<1>5. ASSUME NEW q \in 1..MaxAsks, CallTool(q) PROVE AsksRight'
  <2> DEFINE t == AgentTools[work[q].tool]
  <2>0. AtWork(q, "call") /\ UNCHANGED page
    BY <1>5 DEF CallTool
  <2>1. t \in ToolNames /\ (t = PlanTool => asks[q].audience = "member")
    BY <2>0, <1>q, <1>n DEF AskRight, AtWork
  <2>b. \/ /\ runs' = [runs EXCEPT ![q].plan = @ \/ t = PlanTool, ![q].calls = @ \cup {t}]
           /\ Emit(q, Event("tool_completed", t)) /\ Move(q, "choose")
        \/ /\ Move(q, "fail save") /\ UNCHANGED asks
           /\ \E stored \in BOOLEAN : runs' = IF stored THEN [runs EXCEPT ![q].plan = @ \/ t = PlanTool] ELSE runs
    BY <1>5 DEF CallTool
  <2> DEFINE b == runs[q].plan \/ t = PlanTool
             ts == runs[q].calls \cup {t}
  <2>c. /\ b \in BOOLEAN /\ runs[q].plan \in BOOLEAN /\ (runs[q].plan => b) /\ (b => runs[q].plan \/ asks[q].audience = "member")
        /\ t \in ts /\ runs[q].calls \subseteq ts /\ (t = PlanTool => b)
    BY <2>1, <1>q
  <2>d. \/ /\ runs' = [runs EXCEPT ![q] = [runs[q] EXCEPT !.plan = b, !.calls = ts]]
           /\ Emit(q, Event("tool_completed", t)) /\ Move(q, "choose")
        \/ /\ Move(q, "fail save") /\ UNCHANGED asks
           /\ runs' = [runs EXCEPT ![q] = [runs[q] EXCEPT !.plan = b]] \/ runs' = runs
    BY <2>b
  <2> HIDE DEF t, b, ts
  <2>2. CASE /\ runs' = [runs EXCEPT ![q] = [runs[q] EXCEPT !.plan = b, !.calls = ts]]
             /\ Emit(q, Event("tool_completed", t)) /\ Move(q, "choose")
    <3>1. runs'[q].calls = ts /\ runs'[q].plan = b /\ \A p \in 1..MaxAsks \ {q} : runs'[p] = runs[p]
      BY <2>2, <1>f, <1>q DEF RunRecords
    <3>2. Event("tool_completed", t).type = "tool_completed" /\ Event("tool_completed", t).tool = t /\ "tool_completed" \in EventTypes
      BY <1>t, <1>p, <2>1
    <3>3. work'[q].at = "choose" /\ \A p \in 1..MaxAsks \ {q} : work'[p] = work[p]
      BY <2>2, <1>m, <1>g
    <3>4. /\ asks'[q].stage = asks[q].stage /\ asks'[q].who = asks[q].who
          /\ asks'[q].audience = asks[q].audience /\ asks'[q].counted = asks[q].counted
          /\ \A p \in 1..MaxAsks \ {q} : asks'[p] = asks[p]
          /\ Heard(q)' = Heard(q) \cup {Event("tool_completed", t)}
      BY <2>0, <2>1, <2>2, <3>2, <1>d
    <3>9. RunStep(q, {Event("tool_completed", t)})
      BY <2>0, <2>c, <3>1, <3>2, <3>3, <3>4 DEF RunStep, AtWork
    <3> QED BY <3>9, RunMoves
  <2>3. CASE /\ Move(q, "fail save") /\ UNCHANGED asks
             /\ runs' = [runs EXCEPT ![q] = [runs[q] EXCEPT !.plan = b]] \/ runs' = runs
    <3>1. runs'[q].calls = runs[q].calls /\ runs'[q].plan \in {b, runs[q].plan} /\ \A p \in 1..MaxAsks \ {q} : runs'[p] = runs[p]
      BY <2>3, <1>f, <1>q DEF RunRecords
    <3>2. work'[q].at = "fail save" /\ \A p \in 1..MaxAsks \ {q} : work'[p] = work[p]
      BY <2>3, <1>m, <1>g
    <3>9. RunStep(q, {})
      BY <2>0, <2>c, <2>3, <3>1, <3>2, <1>u DEF RunStep, AtWork
    <3> QED BY <3>9, RunMoves
  <2> QED BY <2>d, <2>2, <2>3
<1>6. ASSUME NEW q \in 1..MaxAsks, SaveState(q) PROVE AsksRight'
  <2>1. AtWork(q, "save") /\ UNCHANGED <<page, runs, asks>> /\ (Move(q, "finish") \/ Move(q, "fail save"))
    BY <1>6 DEF SaveState
  <2>2. work'[q].at \in {"finish", "fail save"} /\ \A p \in 1..MaxAsks \ {q} : work'[p] = work[p]
    BY <2>1, <1>m, <1>g
  <2>9. RunStep(q, {})
    BY <2>1, <2>2, <1>u DEF RunStep, AtWork
  <2> QED BY <2>9, RunMoves
<1>r. \A q \in 1..MaxAsks, s \in RunStates :
        runs' \in {[runs EXCEPT ![q].status = s], runs} =>
          /\ runs'[q].calls = runs[q].calls /\ runs'[q].plan = runs[q].plan
          /\ \A p \in 1..MaxAsks \ {q} : runs'[p] = runs[p]
          /\ runs' = [runs EXCEPT ![q].status = s] => runs'[q].status = s
  BY <1>f, <1>q DEF RunRecords
<1>s. {"finished", "failed"} \subseteq RunStates
  BY DEF RunStates
<1>7. ASSUME NEW q \in 1..MaxAsks, FinishRun(q) PROVE AsksRight'
  <2>0. AtWork(q, "finish") /\ UNCHANGED page
    BY <1>7 DEF FinishRun
  <2>1. CASE runs' = [runs EXCEPT ![q].status = "finished"] /\ Emit(q, Event("answer_completed", "none")) /\ Move(q, "end")
    <3>1. /\ runs'[q].calls = runs[q].calls /\ runs'[q].plan = runs[q].plan /\ runs'[q].status = "finished"
          /\ \A p \in 1..MaxAsks \ {q} : runs'[p] = runs[p]
      BY <2>1, <1>r, <1>s
    <3>2. Event("answer_completed", "none").type = "answer_completed" /\ "answer_completed" \in EventTypes
      BY <1>t, <1>p, <1>n
    <3>3. work'[q].at = "end" /\ \A p \in 1..MaxAsks \ {q} : work'[p] = work[p]
      BY <2>1, <1>m, <1>g
    <3>9. RunStep(q, {Event("answer_completed", "none")})
      BY <2>0, <2>1, <3>1, <3>2, <3>3, <1>d, <1>n DEF RunStep, AtWork
    <3> QED BY <3>9, RunMoves
  <2>2. CASE Move(q, "fail save") /\ UNCHANGED asks /\ runs' \in {[runs EXCEPT ![q].status = "finished"], runs}
    <3>1. runs'[q].calls = runs[q].calls /\ runs'[q].plan = runs[q].plan /\ \A p \in 1..MaxAsks \ {q} : runs'[p] = runs[p]
      BY <2>2, <1>r, <1>s
    <3>2. work'[q].at = "fail save" /\ \A p \in 1..MaxAsks \ {q} : work'[p] = work[p]
      BY <2>2, <1>m, <1>g
    <3>9. RunStep(q, {})
      BY <2>0, <2>2, <3>1, <3>2, <1>u DEF RunStep, AtWork
    <3> QED BY <3>9, RunMoves
  <2> QED BY <1>7, <2>1, <2>2 DEF FinishRun
<1>8. ASSUME NEW q \in 1..MaxAsks, FailRun(q) PROVE AsksRight'
  <2>0. AtWork(q, "fail save") /\ UNCHANGED page
    BY <1>8 DEF FailRun
  <2>1. Move(q, "end") /\ runs' \in {[runs EXCEPT ![q].status = "failed"], runs}
    BY <1>8 DEF FailRun
  <2>2. runs'[q].calls = runs[q].calls /\ runs'[q].plan = runs[q].plan /\ \A p \in 1..MaxAsks \ {q} : runs'[p] = runs[p]
    BY <2>1, <1>r, <1>s
  <2>3. work'[q].at = "end" /\ \A p \in 1..MaxAsks \ {q} : work'[p] = work[p]
    BY <2>1, <1>m, <1>g
  <2>4. CASE Emit(q, Event("run_failed", "none"))
    <3>1. Event("run_failed", "none").type = "run_failed" /\ "run_failed" \in EventTypes
      BY <1>t, <1>p, <1>n
    <3>9. RunStep(q, {Event("run_failed", "none")})
      BY <2>0, <2>2, <2>3, <2>4, <3>1, <1>d, <1>n DEF RunStep, AtWork
    <3> QED BY <3>9, RunMoves
  <2>5. CASE UNCHANGED asks
    <3>9. RunStep(q, {})
      BY <2>0, <2>2, <2>3, <2>5, <1>u DEF RunStep, AtWork
    <3> QED BY <3>9, RunMoves
  <2> QED BY <1>8, <2>4, <2>5 DEF FailRun
<1>9. ASSUME NEW q \in 1..MaxAsks, InstanceStops(q) PROVE AsksRight'
  <2>1. asks' = [asks EXCEPT ![q] = [asks[q] EXCEPT !.stage = "broken", !.events = <<>>]] /\ asks[q].stage = "streaming"
    BY <1>9 DEF InstanceStops
  <2>2. /\ \A p \in 1..MaxAsks \ {q} : asks'[p] = asks[p]
        /\ asks'[q] = [asks[q] EXCEPT !.stage = "broken", !.events = <<>>]
    BY <2>1, <1>f
  <2>3. asks[q] \in AskRecords
    BY <1>q
  <2>4. /\ asks'[q].stage = "broken" /\ asks'[q].who = asks[q].who /\ asks'[q].events = <<>>
        /\ asks'[q].audience = asks[q].audience /\ asks'[q].counted = asks[q].counted
    BY <2>2, <2>3 DEF AskRecords
  <2>5. UNCHANGED <<page, work, runs>>
    BY <1>9 DEF InstanceStops
  <2>6. \A p \in 1..MaxAsks : Heard(p)' \subseteq Heard(p)
    BY <2>2, <2>4, <2>5, HeardMoves
  <2>7. AskRight(asks[q], work[q], runs[q], Heard(q))
    BY <1>q
  <2>8. AskRight(asks'[q], work'[q], runs'[q], Heard(q)')
    BY <2>1, <2>4, <2>5, <2>6, <2>7 DEF AskRight
  <2> QED BY <2>2, <2>5, <2>6, <2>8, OneAskMoves
\* The panel reads and leaves; nothing new is said.
<1>z. (\A q \in 1..MaxAsks : asks'[q] = asks[q] /\ Heard(q)' \subseteq Heard(q)) /\ UNCHANGED <<work, runs>> => AsksRight'
  BY <1>q DEF AsksRight, AskRight
<1>10. ASSUME NEW q \in 1..MaxAsks, Take(q) PROVE AsksRight'
  <2>1. /\ asks' = [asks EXCEPT ![q] = [asks[q] EXCEPT !.events = Tail(asks[q].events)]]
        /\ page.ask = q /\ page' = [page EXCEPT !.seen = @ \cup {Head(asks[q].events)}] /\ asks[q].events # <<>>
        /\ UNCHANGED <<work, runs>>
    BY <1>10 DEF Take
  <2>2. asks[q] \in AskRecords /\ page \in Panels
    BY <1>q DEF AgentTypeOK
  <2>3. /\ \A p \in 1..MaxAsks \ {q} : asks'[p] = asks[p]
        /\ asks'[q] = [asks[q] EXCEPT !.events = Tail(asks[q].events)]
    BY <2>1, <1>f
  <2>4. /\ asks'[q].stage = asks[q].stage /\ asks'[q].who = asks[q].who /\ asks'[q].events = Tail(asks[q].events)
        /\ asks'[q].audience = asks[q].audience /\ asks'[q].counted = asks[q].counted
    BY <2>2, <2>3 DEF AskRecords
  <2>5. page'.ask = q /\ page'.seen = page.seen \cup {Head(asks[q].events)}
    BY <2>1, <2>2 DEF Panels
  <2>6. Event("run_failed", "none") \in Told
    BY <1>t, <1>p, <1>n
  <2>7. Head(asks[q].events) \in ToSet(asks[q].events) /\ ToSet(Tail(asks[q].events)) \subseteq ToSet(asks[q].events)
    BY <2>1, <2>6, <1>q, TellMore
  <2>8. Heard(q)' \subseteq Heard(q)
    BY <2>1, <2>4, <2>5, <2>7 DEF Heard
  <2>9. \A p \in 1..MaxAsks \ {q} : Heard(p)' \subseteq Heard(p)
    BY <2>3, <2>5, HeardMoves
  <2>10. AskRight(asks[q], work[q], runs[q], Heard(q))
    BY <1>q
  <2>11. AskRight(asks'[q], work'[q], runs'[q], Heard(q)')
    BY <2>1, <2>4, <2>8, <2>10 DEF AskRight
  <2> QED BY <2>1, <2>3, <2>9, <2>11, OneAskMoves
<1>11. ASSUME NEW q \in 1..MaxAsks, EndOfStream(q) \/ Problem(q) PROVE AsksRight'
  <2>1. page'.ask = page.ask /\ page'.seen = page.seen /\ UNCHANGED <<asks, work, runs>>
    BY <1>11 DEF EndOfStream, Problem, AgentTypeOK, Panels
  <2> QED BY <2>1, <1>z, HeardMoves
<1>12. CASE LeavePanel
  <2>1. page'.seen = {} /\ UNCHANGED <<asks, work, runs>>
    BY <1>12 DEF LeavePanel, Idle
  <2> QED BY <2>1, <1>z, HeardMoves
<1>13. ASSUME \/ \E w \in {"member", "guest", "lapsed"} : Become(w)
              \/ \E f \in BOOLEAN : GenerateReadiness(f)
              \/ \E u \in Upstreams : RequestReadinessPlan(u)
              \/ UNCHANGED agentVars
       PROVE  AsksRight'
  <2>1. UNCHANGED <<page, asks, work, runs>>
    BY <1>13 DEF Become, GenerateReadiness, RequestReadinessPlan, agentVars
  <2> QED BY <2>1, <1>z, HeardMoves
<1> QED
  BY <1>1, <1>2, <1>3, <1>4, <1>5, <1>6, <1>7, <1>8, <1>9, <1>10, <1>11, <1>12, <1>13 DEF AgentNext

\* A question is counted when, and only when, one of the allowance is used.
LEMMA CountsStep == AgentTypeOK /\ CountsRight /\ [AgentNext]_agentVars => CountsRight'
<1> SUFFICES ASSUME AgentTypeOK, CountsRight, [AgentNext]_agentVars PROVE CountsRight'
  OBVIOUS
<1>a. MaxAsks \in Nat \ {0} /\ Allowance \in Nat /\ allowance \in Nat
  BY AgentAssumption DEF AgentTypeOK
<1>f. IsFiniteSet(CountedAsks) /\ Cardinality(CountedAsks) \in Nat
  <2>1. IsFiniteSet(1..MaxAsks)
    BY <1>a, FS_Interval
  <2> QED BY <2>1, FS_Subset, FS_CardinalityType DEF CountedAsks
<1>k. CountedAsks' \subseteq CountedAsks /\ UNCHANGED allowance => CountsRight'
  <2> SUFFICES ASSUME CountedAsks' \subseteq CountedAsks, UNCHANGED allowance PROVE CountsRight'
    OBVIOUS
  <2>1. Cardinality(CountedAsks') <= Cardinality(CountedAsks) /\ Cardinality(CountedAsks') \in Nat
    BY <1>f, FS_Subset, FS_CardinalityType
  <2> QED BY <1>a, <1>f, <2>1 DEF CountsRight
<1>q. \A q \in 1..MaxAsks : asks[q] \in AskRecords
  BY DEF AgentTypeOK
<1>d. DOMAIN asks = 1..MaxAsks
  BY DEF AgentTypeOK
<1>v. \A q \in 1..MaxAsks : \A v :
        asks' = [asks EXCEPT ![q] = v] /\ (v.counted => asks[q].counted) => CountedAsks' \subseteq CountedAsks
  BY <1>d DEF CountedAsks
<1>u. UNCHANGED asks => CountedAsks' \subseteq CountedAsks
  BY DEF CountedAsks
<1>1. ASSUME NEW q \in 1..MaxAsks, AgentAsk(q) PROVE CountsRight'
  BY <1>1, <1>v, <1>k DEF AgentAsk, NoAsk
<1>2. ASSUME NEW q \in 1..MaxAsks, GuestAgentAllowance(q) PROVE CountsRight'
  <2>0. asks[q] \in AskRecords
    BY <1>q
  <2>1. CASE asks[q].who # "guest" \/ allowance = 0
    <3>1. UNCHANGED allowance
          /\ \/ asks' = [asks EXCEPT ![q] = [asks[q] EXCEPT !.stage = "route"]]
             \/ asks' = [asks EXCEPT ![q] = [asks[q] EXCEPT !.stage = "refused", !.code = "guest_rate_limited"]]
      BY <1>2, <2>1 DEF GuestAgentAllowance, Refuse
    <3>2. [asks[q] EXCEPT !.stage = "route"].counted = asks[q].counted
          /\ [asks[q] EXCEPT !.stage = "refused", !.code = "guest_rate_limited"].counted = asks[q].counted
      BY <2>0 DEF AskRecords
    <3> QED BY <3>1, <3>2, <1>v, <1>k
  <2>2. CASE asks[q].who = "guest" /\ allowance # 0
    <3>1. allowance' = allowance - 1 /\ asks' = [asks EXCEPT ![q] = [asks[q] EXCEPT !.stage = "route", !.counted = TRUE]]
      BY <1>2, <2>2 DEF GuestAgentAllowance
    <3>2. CountedAsks' \subseteq CountedAsks \cup {q}
      BY <3>1, <1>d DEF CountedAsks
    <3>3. IsFiniteSet(CountedAsks \cup {q}) /\ Cardinality(CountedAsks \cup {q}) <= Cardinality(CountedAsks) + 1
          /\ Cardinality(CountedAsks \cup {q}) \in Nat
      BY <1>f, FS_AddElement, FS_CardinalityType
    <3>4. Cardinality(CountedAsks') <= Cardinality(CountedAsks \cup {q}) /\ Cardinality(CountedAsks') \in Nat
      BY <3>2, <3>3, FS_Subset, FS_CardinalityType
    <3>5. allowance <= Allowance /\ Cardinality(CountedAsks) <= Allowance - allowance
      BY DEF CountsRight
    <3>6. allowance' <= Allowance /\ Cardinality(CountedAsks') <= Allowance - allowance'
      BY <1>a, <1>f, <2>2, <3>1, <3>3, <3>4, <3>5
    <3> QED BY <3>6 DEF CountsRight
  <2> QED BY <2>1, <2>2
<1>3. ASSUME NEW q \in 1..MaxAsks, RecruitingAgentRoute(q) PROVE CountsRight'
  <2>0. asks[q] \in AskRecords
    BY <1>q
  <2>1. \/ \E c : asks' = [asks EXCEPT ![q] = [asks[q] EXCEPT !.stage = "refused", !.code = c]]
        \/ asks' = [asks EXCEPT ![q] = [asks[q] EXCEPT !.stage = "streaming", !.audience = Caller(q)]]
    BY <1>3 DEF RecruitingAgentRoute, Refuse
  <2>2. /\ \A c : [asks[q] EXCEPT !.stage = "refused", !.code = c].counted = asks[q].counted
        /\ [asks[q] EXCEPT !.stage = "streaming", !.audience = Caller(q)].counted = asks[q].counted
    BY <2>0 DEF AskRecords
  <2>3. UNCHANGED allowance
    BY <1>3 DEF RecruitingAgentRoute
  <2> QED BY <2>1, <2>2, <2>3, <1>v, <1>k
<1>4. ASSUME NEW q \in 1..MaxAsks, Lapse(q) \/ Take(q) \/ InstanceStops(q) PROVE CountsRight'
  <2>0. asks[q] \in AskRecords
    BY <1>q
  <2>1. \/ asks' = [asks EXCEPT ![q] = [asks[q] EXCEPT !.who = "lapsed"]]
        \/ asks' = [asks EXCEPT ![q] = [asks[q] EXCEPT !.events = Tail(asks[q].events)]]
        \/ asks' = [asks EXCEPT ![q] = [asks[q] EXCEPT !.stage = "broken", !.events = <<>>]]
    BY <1>4 DEF Lapse, Take, InstanceStops
  <2>2. /\ [asks[q] EXCEPT !.who = "lapsed"].counted = asks[q].counted
        /\ [asks[q] EXCEPT !.events = Tail(asks[q].events)].counted = asks[q].counted
        /\ [asks[q] EXCEPT !.stage = "broken", !.events = <<>>].counted = asks[q].counted
    BY <2>0 DEF AskRecords
  <2>3. UNCHANGED allowance
    BY <1>4 DEF Lapse, Take, InstanceStops
  <2> QED BY <2>1, <2>2, <2>3, <1>v, <1>k
<1>5. ASSUME NEW q \in 1..MaxAsks,
             StartAgentRun(q) \/ ChooseTool(q) \/ CallTool(q) \/ SaveState(q) \/ FinishRun(q) \/ FailRun(q)
      PROVE  CountsRight'
  <2>1. UNCHANGED allowance /\ (UNCHANGED asks \/ \E e : Emit(q, e))
    BY <1>5 DEF StartAgentRun, ChooseTool, CallTool, SaveState, FinishRun, FailRun
  <2>2. \A e : Emit(q, e) => CountedAsks' \subseteq CountedAsks
    <3> SUFFICES ASSUME NEW e, Emit(q, e) PROVE CountedAsks' \subseteq CountedAsks
      OBVIOUS
    <3> DEFINE es == Append(asks[q].events, e)
    <3>1. asks' = [asks EXCEPT ![q] = [asks[q] EXCEPT !.events = es]]
      BY DEF Emit
    <3> HIDE DEF es
    <3>2. [asks[q] EXCEPT !.events = es].counted = asks[q].counted
      BY <1>q DEF AskRecords
    <3> QED BY <3>1, <3>2, <1>v
  <2> QED BY <2>1, <2>2, <1>u, <1>k
<1>6. ASSUME \/ \E q \in 1..MaxAsks : EndOfStream(q) \/ Problem(q)
             \/ LeavePanel
             \/ \E w \in {"member", "guest", "lapsed"} : Become(w)
             \/ \E f \in BOOLEAN : GenerateReadiness(f)
             \/ \E u \in Upstreams : RequestReadinessPlan(u)
             \/ UNCHANGED agentVars
      PROVE  CountsRight'
  <2>1. UNCHANGED <<asks, allowance>>
    BY <1>6 DEF EndOfStream, Problem, LeavePanel, Become, GenerateReadiness, RequestReadinessPlan, agentVars
  <2> QED BY <2>1, <1>u, <1>k
<1> QED
  BY <1>1, <1>2, <1>3, <1>4, <1>5, <1>6 DEF AgentNext

\* The button says a verdict of the service, and nobody else's.
LEMMA VerdictStep == AgentTypeOK /\ VerdictIsTheServices /\ [AgentNext]_agentVars => VerdictIsTheServices'
<1> SUFFICES ASSUME AgentTypeOK, VerdictIsTheServices, [AgentNext]_agentVars PROVE VerdictIsTheServices'
  OBVIOUS
<1>1. ASSUME NEW u \in Upstreams, RequestReadinessPlan(u) PROVE VerdictIsTheServices'
  <2> DEFINE words == IF u.status = 200 THEN "built"
                     ELSE IF ~IsAgentVerdict(u) THEN "unavailable"
                     ELSE IF u.status = 403 THEN "not followed" ELSE "refused"
  <2>1. plan' = [plan EXCEPT !.busy = FALSE, !.by = u.by, !.said = words] /\ (u.by = "service" /\ u.status = 403 => ~plan.followed)
    BY <1>1 DEF RequestReadinessPlan
  <2>2. words \in {"not followed", "refused"} => u.error
    BY DEF IsAgentVerdict
  <2>3. words = "not followed" => u.status = 403
    OBVIOUS
  <2>4. u.error => u.by = "service"
    <3>1. u \in ServiceAnswers \/ u \in FrontEndAnswers \/ u \in NoAnswers
      BY DEF Upstreams
    <3> QED BY <3>1 DEF ServiceAnswers, FrontEndAnswers, NoAnswers
  <2> HIDE DEF words
  <2>5. plan'.said = words /\ plan'.by = u.by /\ plan'.followed = plan.followed
    BY <2>1 DEF AgentTypeOK, PlanRecords
  <2> QED BY <2>1, <2>2, <2>3, <2>4, <2>5 DEF VerdictIsTheServices
<1>2. ASSUME NEW f \in BOOLEAN, GenerateReadiness(f) PROVE VerdictIsTheServices'
  BY <1>2 DEF GenerateReadiness, NoPlan, VerdictIsTheServices
<1>3. CASE UNCHANGED plan
  BY <1>3 DEF VerdictIsTheServices
<1>4. ASSUME NEW q \in 1..MaxAsks,
             \/ AgentAsk(q) \/ GuestAgentAllowance(q) \/ RecruitingAgentRoute(q) \/ Lapse(q)
             \/ StartAgentRun(q) \/ ChooseTool(q) \/ CallTool(q) \/ SaveState(q) \/ FinishRun(q) \/ FailRun(q)
             \/ InstanceStops(q) \/ Take(q) \/ EndOfStream(q) \/ Problem(q)
      PROVE  UNCHANGED plan
  BY <1>4 DEF AgentAsk, GuestAgentAllowance, RecruitingAgentRoute, Lapse, StartAgentRun, ChooseTool, CallTool, SaveState,
              FinishRun, FailRun, InstanceStops, Take, EndOfStream, Problem
<1>5. LeavePanel \/ (\E w \in {"member", "guest", "lapsed"} : Become(w)) \/ UNCHANGED agentVars => UNCHANGED plan
  BY DEF LeavePanel, Become, agentVars
<1> QED
  BY <1>1, <1>2, <1>3, <1>4, <1>5 DEF AgentNext

LEMMA AgentRight == AgentInv => AnswersAreOnRecord
<1> SUFFICES ASSUME AgentInv PROVE AnswersAreOnRecord
  OBVIOUS
<1>1. ShownIsStored
  <2> SUFFICES ASSUME page.ask # 0
               PROVE  LET run == runs[page.ask] IN
                      /\ \A t \in ToSet(AgentTools) : StepState(t) = "done" => t \in run.calls /\ (t = PlanTool => run.plan)
                      /\ Answer => run.status = "finished"
    BY DEF ShownIsStored
  <2>1. page.ask \in 1..MaxAsks /\ page.seen \subseteq Heard(page.ask)
    BY AgentAssumption DEF AgentInv, AgentTypeOK, Panels, Heard
  <2>2. AskRight(asks[page.ask], work[page.ask], runs[page.ask], Heard(page.ask))
    BY <2>1 DEF AgentInv, AsksRight
  <2>3. \A t : StepState(t) = "done" => Event("tool_completed", t) \in page.seen
    BY DEF StepState
  <2>4. \A t, s : Event(t, s).type = t /\ Event(t, s).tool = s
    BY DEF Event
  <2>5. \A e \in page.seen :
          /\ e.type = "tool_completed" => e.tool \in runs[page.ask].calls /\ (e.tool = PlanTool => runs[page.ask].plan)
          /\ e.type = "answer_completed" => runs[page.ask].status = "finished"
    BY <2>1, <2>2 DEF AskRight
  <2> QED BY <2>3, <2>4, <2>5 DEF Answer
<1>2. GuestRunsAreCounted
  <2> DEFINE unnamed == {q \in 1..MaxAsks : runs[q].status # "none" /\ asks[q].who # "member"}
  <2>1. ASSUME NEW q \in unnamed PROVE asks[q].counted /\ ~runs[q].plan
    <3>1. AskRight(asks[q], work[q], runs[q], Heard(q))
      BY DEF AgentInv, AsksRight
    <3> QED BY <3>1 DEF AskRight
  <2>2. unnamed \subseteq CountedAsks
    BY <2>1 DEF CountedAsks
  <2>3. IsFiniteSet(CountedAsks)
    <3>1. IsFiniteSet(1..MaxAsks)
      BY AgentAssumption, FS_Interval
    <3> QED BY <3>1, FS_Subset DEF CountedAsks
  <2>4. Cardinality(unnamed) <= Cardinality(CountedAsks) /\ Cardinality(unnamed) \in Nat /\ Cardinality(CountedAsks) \in Nat
    BY <2>2, <2>3, FS_Subset, FS_CardinalityType
  <2>5. Cardinality(CountedAsks) <= Allowance - allowance /\ Allowance \in Nat /\ allowance \in Nat
    BY AgentAssumption DEF AgentInv, CountsRight, AgentTypeOK
  <2>6. Cardinality(unnamed) <= Allowance - allowance
    BY <2>4, <2>5
  <2> QED BY <2>1, <2>6 DEF GuestRunsAreCounted
<1> QED BY <1>1, <1>2 DEF AnswersAreOnRecord, AgentInv

\* Whatever fails, breaks off, is left or asked again, for any tools, allowance and
\* number of questions: what the panel shows is stored, no run answers a visitor
\* without a session but a counted one, and none of those writes a plan.
THEOREM AnswersStayOnRecord == AgentSpec => []AnswersAreOnRecord
<1>1. AgentInit => AgentInv
  BY AgentStarts
<1>2. AgentInv /\ [AgentNext]_agentVars => AgentInv'
  BY AgentTypeStep, AsksRightStep, CountsStep, VerdictStep DEF AgentInv
<1>3. AgentInv => AnswersAreOnRecord
  BY AgentRight
<1> QED BY <1>1, <1>2, <1>3, PTL DEF AgentSpec

(***************************************************************************)
(* Forecast Replay.                                                        *)
(***************************************************************************)
\* What a page can hold, of the openings recorded.
Holdable ==
    [role : {e.role : e \in recorded}, year : {YearOf(e.on) : e \in recorded}, on : {e.on : e \in recorded}, cutoff : Int]

\* A run on its way, and one that was answered.
AskedRuns == [stage : {"asked"}, ask : Holdable, overtaken : BOOLEAN]
AnsweredRuns ==
    [stage : {"answered", "taken"}, ask : Holdable, overtaken : BOOLEAN, answer : UNION {Answers(ask) : ask \in Holdable}]

\* A run asks about what the page holds until a change overtakes it, and is
\* answered about what it asked.
AttemptRight(a) ==
    \/ a = NotAsked
    \/ a \in AskedRuns /\ (a.overtaken \/ a.ask = held)
    \/ a \in AnsweredRuns /\ a.answer \in Answers(a.ask) /\ (a.stage = "answered" => a.overtaken \/ a.ask = held)

AttemptsRight == DOMAIN attempts = 1..MaxRuns /\ \A q \in 1..MaxRuns : AttemptRight(attempts[q])

\* What the page says came of a run that was asked.
VerdictGiven == verdict.status \in {"idle", "running"} \/ \E ask \in Holdable : verdict \in Answers(ask)

ReplayInv ==
    /\ recorded \in Histories
    /\ held = NoTarget \/ held \in Holdable
    /\ AttemptsRight /\ VerdictGiven /\ VerdictIsForTheTarget

\* The evaluator's results are leak-safe, as the schema says it, and so the schema
\* refuses none of them.
LEMMA ReplaysAreSafe ==
    ASSUME recorded \in Histories, NEW ask \in Holdable, Replay(ask).status = "result"
    PROVE  LeakSafe(Replay(ask)) /\ Replay(ask).target.on \in Int /\ Replay(ask).cutoff \in Int
<1> DEFINE target == CHOOSE e \in Targets(ask.role, ask.year) : TRUE
           evidence == CollapseEventCycles({e \in recorded : KnownEvent(e, ask.cutoff, target)})
<1>1. Refusal(ask) = "none"
  BY DEF Replay
<1>2. /\ Replay(ask).cutoff = ask.cutoff /\ Replay(ask).target = target /\ Replay(ask).evidence = evidence
  BY <1>1 DEF Replay
<1>3. Cardinality(Targets(ask.role, ask.year)) = 1 /\ ~(ask.cutoff >= target.on)
  BY <1>1 DEF Refusal
<1>4. Targets(ask.role, ask.year) # {}
  BY <1>3, FS_EmptySet
<1>5. target \in recorded
  <2>1. target \in Targets(ask.role, ask.year)
    BY <1>4
  <2>2. Targets(ask.role, ask.year) \subseteq recorded
    BY DEF Targets, CollapseEventCycles, EventsOf
  <2> QED BY <2>1, <2>2
<1>6. \A e \in evidence : KnownEvent(e, ask.cutoff, target)
  BY DEF CollapseEventCycles
<1>7. ask.cutoff \in Int
  BY DEF Holdable
<1> HIDE DEF target, evidence
<1>8. target.on \in Int /\ target.from <= target.on
  BY <1>5, ReplayAssumption
<1>9. ask.cutoff < target.on
  BY <1>3, <1>7, <1>8
<1> QED BY <1>2, <1>6, <1>7, <1>8, <1>9 DEF LeakSafe, KnownEvent

\* So an answer is the evaluator's, or says that none came.
LEMMA AnswersAreReplays ==
    ASSUME recorded \in Histories, NEW ask \in Holdable, NEW answer \in Answers(ask)
    PROVE  /\ answer.status # "invalid response"
           /\ answer.status \in {"result", "not_evaluable"} => answer = Replay(ask)
<1>1. Replay(ask).status \in {"result", "not_evaluable"}
  BY DEF Replay
<1>2. Replay(ask).status = "result" => LeakSafe(Replay(ask))
  BY ReplaysAreSafe
<1>3. answer \in {Said("signed out"), Said("unavailable"), Said("invalid request"), Replay(ask)}
  BY <1>2 DEF Answers
<1>4. \A s : Said(s).status = s
  BY DEF Said
<1>5. answer \notin {Replay(ask)} => answer.status \in {"signed out", "unavailable", "invalid request"}
  BY <1>3, <1>4
<1> QED BY <1>1, <1>5

LEMMA ReplayStarts == ReplayInit => ReplayInv
<1> SUFFICES ASSUME ReplayInit PROVE ReplayInv
  OBVIOUS
<1>1. recorded \in Histories
  BY DEF ReplayInit
<1>2. held = NoTarget \/ held \in Holdable
  <2>1. \A e \in ReplayCandidates : CandidateOf(e) \in Holdable
    <3> SUFFICES ASSUME NEW e \in ReplayCandidates PROVE CandidateOf(e) \in Holdable
      OBVIOUS
    <3>1. e \in recorded /\ e.on - Lead \in Int
      BY <1>1, ReplayAssumption DEF ReplayCandidates
    <3> QED BY <3>1 DEF CandidateOf, Holdable
  <2> QED BY <2>1 DEF ReplayInit
<1>3. AttemptsRight
  BY DEF ReplayInit, AttemptsRight, AttemptRight
<1>4. VerdictGiven /\ VerdictIsForTheTarget
  BY DEF ReplayInit, VerdictGiven, VerdictIsForTheTarget, Said
<1> QED BY <1>1, <1>2, <1>3, <1>4 DEF ReplayInv

LEMMA AttemptFields ==
    ASSUME NEW a
    PROVE  /\ NotAsked.stage = "not asked"
           /\ a \in AskedRuns =>
                /\ a.stage = "asked" /\ a.ask \in Holdable /\ a.overtaken \in BOOLEAN
                /\ [a EXCEPT !.overtaken = TRUE] \in AskedRuns
                /\ [a EXCEPT !.overtaken = TRUE].overtaken
                /\ \A answer \in Answers(a.ask) :
                     [stage |-> "answered", ask |-> a.ask, overtaken |-> a.overtaken, answer |-> answer] \in AnsweredRuns
           /\ a \in AnsweredRuns =>
                /\ a.stage \in {"answered", "taken"} /\ a.ask \in Holdable /\ a.overtaken \in BOOLEAN
                /\ [a EXCEPT !.overtaken = TRUE] \in AnsweredRuns
                /\ [a EXCEPT !.overtaken = TRUE].overtaken /\ [a EXCEPT !.overtaken = TRUE].ask = a.ask
                /\ [a EXCEPT !.overtaken = TRUE].answer = a.answer
                /\ [a EXCEPT !.stage = "taken"] \in AnsweredRuns
                /\ [a EXCEPT !.stage = "taken"].stage = "taken" /\ [a EXCEPT !.stage = "taken"].ask = a.ask
                /\ [a EXCEPT !.stage = "taken"].answer = a.answer /\ [a EXCEPT !.stage = "taken"].overtaken = a.overtaken
<1> DEFINE Given == UNION {Answers(ask) : ask \in Holdable}
<1>1. AnsweredRuns = [stage : {"answered", "taken"}, ask : Holdable, overtaken : BOOLEAN, answer : Given]
  BY DEF AnsweredRuns
<1>2. \A ask \in Holdable : Answers(ask) \subseteq Given
  OBVIOUS
<1> HIDE DEF Given
<1>3. NotAsked.stage = "not asked"
  BY DEF NotAsked
<1>4. ASSUME a \in AskedRuns
      PROVE  /\ a.stage = "asked" /\ a.ask \in Holdable /\ a.overtaken \in BOOLEAN
             /\ [a EXCEPT !.overtaken = TRUE] \in AskedRuns
             /\ [a EXCEPT !.overtaken = TRUE].overtaken
             /\ \A answer \in Answers(a.ask) :
                  [stage |-> "answered", ask |-> a.ask, overtaken |-> a.overtaken, answer |-> answer] \in AnsweredRuns
  BY <1>1, <1>2, <1>4 DEF AskedRuns
<1>5. ASSUME a \in AnsweredRuns
      PROVE  /\ a.stage \in {"answered", "taken"} /\ a.ask \in Holdable /\ a.overtaken \in BOOLEAN
             /\ [a EXCEPT !.overtaken = TRUE] \in AnsweredRuns
             /\ [a EXCEPT !.overtaken = TRUE].overtaken /\ [a EXCEPT !.overtaken = TRUE].ask = a.ask
             /\ [a EXCEPT !.overtaken = TRUE].answer = a.answer
             /\ [a EXCEPT !.stage = "taken"] \in AnsweredRuns
             /\ [a EXCEPT !.stage = "taken"].stage = "taken" /\ [a EXCEPT !.stage = "taken"].ask = a.ask
             /\ [a EXCEPT !.stage = "taken"].answer = a.answer /\ [a EXCEPT !.stage = "taken"].overtaken = a.overtaken
  BY <1>1, <1>5
<1> QED BY <1>3, <1>4, <1>5

\* What was recorded stays, and with it what the evaluator says.
LEMMA RecordedStays ==
    ASSUME UNCHANGED recorded
    PROVE  /\ Holdable' = Holdable /\ ReplayCandidates' = ReplayCandidates
           /\ \A ask : Replay(ask)' = Replay(ask) /\ Answers(ask)' = Answers(ask)
<1>1. Holdable' = Holdable /\ ReplayCandidates' = ReplayCandidates
  BY DEF Holdable, ReplayCandidates
<1>2. ASSUME NEW ask PROVE Replay(ask)' = Replay(ask) /\ Answers(ask)' = Answers(ask)
  <2>1. recorded' = recorded
    OBVIOUS
  <2>2. Targets(ask.role, ask.year)' = Targets(ask.role, ask.year)
    BY <2>1 DEF Targets
  <2>3. Refusal(ask)' = Refusal(ask)
    BY <2>1, <2>2, Zenon DEF Refusal
  <2>4. Replay(ask)' = Replay(ask)
    BY <2>1, <2>2, <2>3, Zenon DEF Replay
  <2>5. LeakSafe(Replay(ask))' = LeakSafe(Replay(ask))
    BY <2>4, Zenon DEF LeakSafe
  <2>6. Answers(ask)' = Answers(ask)
    BY <2>4, <2>5, Zenon DEF Answers, Said
  <2> QED BY <2>4, <2>6
<1> QED BY <1>1, <1>2

LEMMA RunsStay ==
    ASSUME UNCHANGED recorded
    PROVE  /\ Holdable' = Holdable /\ \A ask : Answers(ask)' = Answers(ask)
           /\ AskedRuns' = AskedRuns /\ AnsweredRuns' = AnsweredRuns
<1>1. Holdable' = Holdable /\ \A ask : Answers(ask)' = Answers(ask)
  BY RecordedStays
<1>2. AskedRuns' = AskedRuns
  BY <1>1 DEF AskedRuns
<1>3. (UNION {Answers(ask) : ask \in Holdable})' = UNION {Answers(ask) : ask \in Holdable}
  BY <1>1
<1>4. AnsweredRuns' = AnsweredRuns
  BY <1>1, <1>3 DEF AnsweredRuns
<1> QED BY <1>1, <1>2, <1>4

\* A run overtaken is right whatever the page holds by then.
LEMMA OvertakenAreRight ==
    ASSUME AttemptsRight, attempts' = Overtaken, UNCHANGED recorded
    PROVE  AttemptsRight'
<1>1. DOMAIN attempts' = 1..MaxRuns
  BY DEF Overtaken, AttemptsRight
<1> SUFFICES ASSUME NEW q \in 1..MaxRuns PROVE AttemptRight(attempts[q])'
  BY <1>1 DEF AttemptsRight
<1>2. attempts'[q] = IF attempts[q].stage \in {"asked", "answered"} THEN [attempts[q] EXCEPT !.overtaken = TRUE] ELSE attempts[q]
  BY DEF Overtaken, AttemptsRight
<1>3. AttemptRight(attempts[q])
  BY DEF AttemptsRight
<1>s. Holdable' = Holdable /\ (\A ask : Answers(ask)' = Answers(ask)) /\ AskedRuns' = AskedRuns /\ AnsweredRuns' = AnsweredRuns
  BY RunsStay
<1>4. CASE attempts[q] = NotAsked
  BY <1>2, <1>4, AttemptFields DEF AttemptRight
<1>5. CASE attempts[q] \in AskedRuns
  <2>1. attempts'[q] \in AskedRuns /\ attempts'[q].overtaken
    <3>1. attempts[q].stage = "asked" /\ [attempts[q] EXCEPT !.overtaken = TRUE] \in AskedRuns
          /\ [attempts[q] EXCEPT !.overtaken = TRUE].overtaken
      BY <1>5, AttemptFields
    <3>2. attempts'[q] = [attempts[q] EXCEPT !.overtaken = TRUE]
      BY <1>2, <3>1
    <3> QED BY <3>1, <3>2, Zenon
  <2> QED BY <1>s, <2>1 DEF AttemptRight
<1>6. CASE attempts[q] \in AnsweredRuns
  <2>1. attempts[q].answer \in Answers(attempts[q].ask)
    BY <1>3, <1>6, AttemptFields DEF AttemptRight
  <2>2. CASE attempts[q].stage = "answered"
    <3>1. /\ attempts'[q] \in AnsweredRuns /\ attempts'[q].overtaken
          /\ attempts'[q].answer = attempts[q].answer /\ attempts'[q].ask = attempts[q].ask
      <4>1. /\ [attempts[q] EXCEPT !.overtaken = TRUE] \in AnsweredRuns /\ [attempts[q] EXCEPT !.overtaken = TRUE].overtaken
            /\ [attempts[q] EXCEPT !.overtaken = TRUE].answer = attempts[q].answer
            /\ [attempts[q] EXCEPT !.overtaken = TRUE].ask = attempts[q].ask
        BY <1>6, AttemptFields
      <4>2. attempts'[q] = [attempts[q] EXCEPT !.overtaken = TRUE]
        BY <1>2, <2>2
      <4> QED BY <4>1, <4>2, Zenon
    <3> QED BY <1>s, <2>1, <3>1 DEF AttemptRight
  <2>3. CASE attempts[q].stage = "taken"
    <3>1. attempts'[q] = attempts[q]
      BY <1>2, <2>3
    <3> QED BY <1>6, <1>s, <2>1, <2>3, <3>1 DEF AttemptRight
  <2> QED BY <1>6, <2>2, <2>3, AttemptFields
<1> QED BY <1>3, <1>4, <1>5, <1>6 DEF AttemptRight

LEMMA ReplaySteps == ReplayInv /\ [ReplayNext]_replayVars => ReplayInv'
<1> SUFFICES ASSUME ReplayInv, [ReplayNext]_replayVars PROVE ReplayInv'
  OBVIOUS
<1>i. /\ recorded \in Histories /\ (held = NoTarget \/ held \in Holdable)
      /\ AttemptsRight /\ VerdictGiven /\ VerdictIsForTheTarget
  BY DEF ReplayInv
<1>a. DOMAIN attempts = 1..MaxRuns /\ \A q \in 1..MaxRuns : AttemptRight(attempts[q])
  BY <1>i DEF AttemptsRight
<1>r. UNCHANGED recorded
  BY DEF ReplayNext, Choose, ChangeCutoff, RunReplay, ReplayRoute, TakeAnswer, ToggleOutcome, replayVars
<1>s. /\ Holdable' = Holdable /\ \A ask : Replay(ask)' = Replay(ask) /\ Answers(ask)' = Answers(ask)
      /\ AskedRuns' = AskedRuns /\ AnsweredRuns' = AnsweredRuns
  BY <1>r, RecordedStays, RunsStay
\* The other attempts stay right while the page holds what it held.
<1>o. ASSUME UNCHANGED held, NEW q \in 1..MaxRuns, NEW a, attempts' = [attempts EXCEPT ![q] = a], AttemptRight(a)
      PROVE  AttemptsRight'
  <2> SUFFICES ASSUME NEW p \in 1..MaxRuns PROVE AttemptRight(attempts[p])'
    BY <1>a, <1>o DEF AttemptsRight
  <2>1. attempts'[p] = IF p = q THEN a ELSE attempts[p]
    BY <1>a, <1>o
  <2>2. AttemptRight(attempts'[p])
    BY <1>a, <1>o, <2>1
  <2> QED BY <1>o, <1>s, <2>2 DEF AttemptRight
<1>1. ASSUME NEW e \in ReplayCandidates, Choose(e) PROVE ReplayInv'
  <2>1. e \in recorded /\ e.on - Lead \in Int
    BY <1>i, ReplayAssumption DEF ReplayCandidates
  <2>2. held' \in Holdable
    BY <1>1, <2>1 DEF Choose, CandidateOf, Holdable
  <2>3. AttemptsRight'
    BY <1>1, <1>i, OvertakenAreRight DEF Choose
  <2>4. VerdictGiven' /\ VerdictIsForTheTarget'
    BY <1>1 DEF Choose, VerdictGiven, VerdictIsForTheTarget, Said
  <2> QED BY <1>i, <1>r, <1>s, <2>2, <2>3, <2>4 DEF ReplayInv
<1>2. ASSUME NEW day \in Cutoffs \cup {Blank}, ChangeCutoff(day) PROVE ReplayInv'
  <2>1. held \in Holdable /\ day \in Int
    BY <1>2, <1>i, ReplayAssumption DEF ChangeCutoff, Blank
  <2>2. held' \in Holdable
    BY <1>2, <2>1 DEF ChangeCutoff, Holdable
  <2>3. AttemptsRight'
    BY <1>2, <1>i, OvertakenAreRight DEF ChangeCutoff
  <2>4. VerdictGiven' /\ VerdictIsForTheTarget'
    BY <1>2 DEF ChangeCutoff, VerdictGiven, VerdictIsForTheTarget, Said
  <2> QED BY <1>i, <1>r, <1>s, <2>2, <2>3, <2>4 DEF ReplayInv
<1>3. ASSUME NEW q \in 1..MaxRuns, RunReplay(q) PROVE ReplayInv'
  <2>1. held \in Holdable
    BY <1>3, <1>i DEF RunReplay
  <2> DEFINE a == [stage |-> "asked", ask |-> held, overtaken |-> FALSE]
  <2>2. a \in AskedRuns /\ a.ask = held
    BY <2>1 DEF AskedRuns
  <2>3. AttemptsRight'
    <3>1. attempts' = [attempts EXCEPT ![q] = a] /\ UNCHANGED held
      BY <1>3 DEF RunReplay
    <3>2. AttemptRight(a)
      BY <2>2 DEF AttemptRight
    <3> QED BY <1>o, <3>1, <3>2
  <2>4. VerdictGiven' /\ VerdictIsForTheTarget'
    BY <1>3 DEF RunReplay, VerdictGiven, VerdictIsForTheTarget, Said
  <2> QED BY <1>3, <1>i, <1>r, <1>s, <2>3, <2>4 DEF ReplayInv, RunReplay
<1>4. ASSUME NEW q \in 1..MaxRuns, ReplayRoute(q) PROVE ReplayInv'
  <2>1. attempts[q] \in AskedRuns /\ (attempts[q].overtaken \/ attempts[q].ask = held)
    <3>1. attempts[q].stage = "asked" /\ AttemptRight(attempts[q])
      BY <1>4, <1>a DEF ReplayRoute
    <3> QED BY <3>1, AttemptFields DEF AttemptRight
  <2>2. PICK answer \in Answers(attempts[q].ask) :
          attempts' = [attempts EXCEPT ![q] =
              [stage |-> "answered", ask |-> attempts[q].ask, overtaken |-> attempts[q].overtaken, answer |-> answer]]
    BY <1>4 DEF ReplayRoute
  <2> DEFINE a == [stage |-> "answered", ask |-> attempts[q].ask, overtaken |-> attempts[q].overtaken, answer |-> answer]
  <2>3. a \in AnsweredRuns /\ a.answer \in Answers(a.ask) /\ (a.overtaken \/ a.ask = held)
    BY <2>1, <2>2, AttemptFields
  <2>4. UNCHANGED <<held, verdict>> /\ attempts' = [attempts EXCEPT ![q] = a]
    BY <1>4, <2>2 DEF ReplayRoute
  <2> HIDE DEF a
  <2>5. AttemptsRight'
    <3>1. AttemptRight(a)
      BY <2>3 DEF AttemptRight
    <3> QED BY <1>o, <2>4, <3>1
  <2>6. \A p \in 1..MaxRuns : attempts[p].stage = "taken" => attempts'[p] = attempts[p]
    <3>1. attempts[q].stage # "taken"
      BY <2>1, AttemptFields
    <3> QED BY <1>a, <2>4, <3>1
  <2>7. VerdictIsForTheTarget' /\ VerdictGiven'
    BY <1>i, <1>s, <2>4, <2>6 DEF VerdictIsForTheTarget, VerdictGiven
  <2> QED BY <1>i, <1>r, <1>s, <2>4, <2>5, <2>7 DEF ReplayInv
<1>5. ASSUME NEW q \in 1..MaxRuns, TakeAnswer(q) PROVE ReplayInv'
  <2>1. /\ attempts[q] \in AnsweredRuns /\ attempts[q].answer \in Answers(attempts[q].ask)
        /\ attempts[q].overtaken \/ attempts[q].ask = held
    <3>1. attempts[q].stage = "answered" /\ AttemptRight(attempts[q])
      BY <1>5, <1>a DEF TakeAnswer
    <3> QED BY <3>1, AttemptFields DEF AttemptRight
  <2> DEFINE a == [attempts[q] EXCEPT !.stage = "taken"]
  <2>2. attempts' = [attempts EXCEPT ![q] = a] /\ verdict' = attempts[q].answer /\ UNCHANGED held
    BY <1>5 DEF TakeAnswer
  <2>3. /\ a \in AnsweredRuns /\ a.stage = "taken" /\ a.ask = attempts[q].ask
        /\ a.answer = attempts[q].answer /\ a.overtaken = attempts[q].overtaken
    BY <2>1, AttemptFields
  <2> HIDE DEF a
  <2>4. AttemptsRight'
    <3>1. AttemptRight(a)
      BY <2>1, <2>3 DEF AttemptRight
    <3> QED BY <1>o, <2>2, <3>1
  <2>5. attempts[q].ask \in Holdable
    BY <2>1, AttemptFields
  <2>6. VerdictGiven'
    BY <1>s, <2>1, <2>2, <2>5 DEF VerdictGiven
  <2>7. verdict'.status \in {"result", "not_evaluable"} => verdict' = Replay(attempts[q].ask)
    BY <1>i, <2>1, <2>2, <2>5, AnswersAreReplays
  <2>8. attempts'[q] = a
    BY <1>a, <2>2
  <2>9. VerdictIsForTheTarget'
    BY <1>s, <2>1, <2>2, <2>3, <2>7, <2>8 DEF VerdictIsForTheTarget
  <2> QED BY <1>i, <1>r, <1>s, <2>2, <2>4, <2>6, <2>9 DEF ReplayInv
<1>6. CASE ToggleOutcome \/ UNCHANGED replayVars
  <2>1. UNCHANGED <<recorded, held, verdict, attempts>>
    BY <1>6 DEF ToggleOutcome, replayVars
  <2>2. AttemptsRight'
    BY <1>a, <1>s, <2>1 DEF AttemptsRight, AttemptRight
  <2>3. VerdictGiven' /\ VerdictIsForTheTarget'
    BY <1>i, <1>s, <2>1 DEF VerdictGiven, VerdictIsForTheTarget
  <2> QED BY <1>i, <1>s, <2>1, <2>2, <2>3 DEF ReplayInv
<1> QED BY <1>1, <1>2, <1>3, <1>4, <1>5, <1>6 DEF ReplayNext

LEMMA ReplayRight == ReplayInv => ReplayIsHonest
<1> SUFFICES ASSUME ReplayInv PROVE ReplayIsHonest
  OBVIOUS
<1>1. CASE verdict.status \in {"idle", "running"}
  BY <1>1 DEF ReplayInv, ReplayIsHonest, NothingLeaks
<1>2. ASSUME NEW ask \in Holdable, verdict \in Answers(ask) PROVE ReplayIsHonest
  <2>1. /\ verdict.status # "invalid response"
        /\ verdict.status = "result" => verdict = Replay(ask) /\ LeakSafe(Replay(ask))
    BY <1>2, AnswersAreReplays, ReplaysAreSafe DEF ReplayInv
  <2>2. ASSUME verdict.status = "result", NEW check \in DOMAIN LeakChecks(verdict) PROVE LeakChecks(verdict)[check]
    <3>1. LeakSafe(verdict)
      BY <2>1, <2>2
    <3>2. check \in {"target", "evidence", "known", "opening"}
      BY DEF LeakChecks
    <3>3. /\ LeakChecks(verdict)["target"] = \A e \in verdict.evidence : e.id # verdict.target.id
          /\ LeakChecks(verdict)["evidence"] = \A e \in verdict.evidence : e.on <= verdict.cutoff
          /\ LeakChecks(verdict)["known"] = \A e \in verdict.evidence : e.known <= verdict.cutoff
          /\ LeakChecks(verdict)["opening"] = (verdict.cutoff < verdict.target.on)
      BY Zenon DEF LeakChecks
    <3> QED BY <3>1, <3>2, <3>3 DEF LeakSafe
  <2> QED BY <2>1, <2>2 DEF ReplayInv, ReplayIsHonest, NothingLeaks
<1> QED BY <1>1, <1>2 DEF ReplayInv, VerdictGiven

\* For any openings on record and any order of choices, typed days, runs and
\* answers: a replay on show is the evaluator's of what it stands under, unless it
\* was overtaken, and nothing it was given came after the cutoff.
THEOREM ReplayStaysHonest == ReplaySpec => []ReplayIsHonest
<1>1. ReplayInit => ReplayInv
  BY ReplayStarts
<1>2. ReplayInv /\ [ReplayNext]_replayVars => ReplayInv'
  BY ReplaySteps
<1>3. ReplayInv => ReplayIsHonest
  BY ReplayRight
<1> QED BY <1>1, <1>2, <1>3, PTL DEF ReplaySpec

----------------------------------------------------------------------------
(***************************************************************************)
(* A program's pages and the recruiting calendar.                          *)
(***************************************************************************)

Version == [at : Nat, moved : BOOLEAN]
StepsKept == [program : Programs, version : Nat]

ProgramTypeOK ==
    /\ programs \in [Programs -> [listed : BOOLEAN, refusedAt : Nat]]
    /\ versions \in [Programs -> Seq(Version)]
    /\ \A p \in Programs : Len(versions[p]) <= MaxVersions /\ programs[p].refusedAt <= stamp
    /\ revisions \in [Programs -> SUBSET (Nat \ {0, 1})]
    /\ openings \in [Programs -> Nat]
    /\ follows \subseteq Programs /\ steps \subseteq StepsKept
    /\ stamp \in Nat
    /\ during \in [Programs -> SUBSET Nat]
    /\ knew \in [Programs -> SUBSET (Nat \ {0, 1})]

\* The version in force is one the page may show.
InSight(p) == CurrentOf(versions[p], programs[p].refusedAt) \in during[p]

\* A page under way, by how far it has come.
ProgramRoles == [kind : {"program"}, at : {"role"}, program : Programs, asked : {1, 2}]
ProgramEvidence == [kind : {"program"}, at : {"evidence"}, program : Programs, asked : {1, 2}, refusedAt : Nat]
ProgramDetails ==
    [kind : {"program"}, at : {"details"}, program : Programs, asked : {1, 2}, list : Seq(Version), window : 0..MaxVersions,
     declined : BOOLEAN, left : SUBSET DetailReads, receipts : Nat, revised : SUBSET Nat, plan : SUBSET Nat, isFollowed : BOOLEAN]
CalendarRoles == [kind : {"calendar"}, at : {"role"}, watched : SUBSET Programs]
OfWatched(S) == UNION {[w -> S] : w \in SUBSET Programs}
CalendarDated ==
    [kind : {"calendar"}, at : {"dated"}, watched : SUBSET Programs, left : SUBSET CalendarReads, refusedAt : OfWatched(Nat),
     list : OfWatched(Seq(Version)), plan : SUBSET StepsKept, confirmed : SUBSET Programs, cycles : OfWatched(Nat)]

AtRole == load \in ProgramRoles /\ InSight(load.program)
AtEvidence ==
    /\ load \in ProgramEvidence /\ load.refusedAt <= stamp
    /\ CurrentOf(versions[load.program], load.refusedAt) \in during[load.program]
AtDetails ==
    /\ load \in ProgramDetails /\ load.window \in during[load.program]
    /\ "receipts" \in load.left => load.window # NoVersion
    /\ "revisions" \notin load.left => knew[load.program] \cap DOMAIN load.list \subseteq load.revised
AtShown ==
    /\ load.kind = "program" /\ load.at = "shown" /\ load.program \in Programs /\ load.asked \in {1, 2}
    /\ load.window \in during[load.program]
    /\ \A v \in knew[load.program] : v \in ShownVersions(load.list) /\ load.list[v].moved => v \in load.notes
    /\ load.receipts > 0 => load.rows # {}
AtMissing == load.kind = "program" /\ load.at = "missing"
AtFollows == load = [kind |-> "calendar", at |-> "follows"] /\ \A p \in Programs : InSight(p)
AtWatched == load \in CalendarRoles /\ \A p \in Programs : InSight(p)
AtDated ==
    /\ load \in CalendarDated /\ load.refusedAt \in [load.watched -> Nat] /\ load.list \in [load.watched -> Seq(Version)]
    /\ load.cycles \in [load.watched -> Nat] /\ load.confirmed \subseteq load.watched
    /\ \A p \in load.watched : /\ load.refusedAt[p] <= stamp
                               /\ CurrentOf(IF "forecasts" \in load.left THEN versions[p] ELSE load.list[p], load.refusedAt[p]) \in during[p]
    /\ "openings" \in load.left => load.confirmed = {}
    /\ \A p \in load.confirmed : openings[p] > 0
    /\ "cycles" \notin load.left => DatedReads \cap load.left = {} /\ \A p \in load.confirmed : load.cycles[p] > 0
AtCalendar ==
    /\ load.kind = "calendar" /\ load.at = "shown" /\ load.watched \subseteq Programs
    /\ \A p \in load.watched : (IF p \in DOMAIN load.predicted THEN load.predicted[p] ELSE NoVersion) \in during[p]
    /\ DOMAIN load.predicted \cup load.undated = load.watched /\ DOMAIN load.predicted \cap load.undated = {}
    /\ load.unseen \cap load.confirmed = {}

LoadIsRight ==
    \/ load = NoLoad \/ AtRole \/ AtEvidence \/ AtDetails \/ AtShown \/ AtMissing
    \/ AtFollows \/ AtWatched \/ AtDated \/ AtCalendar

ProgramInv == ProgramTypeOK /\ LoadIsRight /\ \A p \in Programs : knew[p] \subseteq revisions[p]

----------------------------------------------------------------------------

LEMMA CurrentIsAPlace ==
  ASSUME NEW q \in Seq(Version), NEW r \in Nat
  PROVE  CurrentOf(q, r) \in 0..Len(q) /\ (CurrentOf(q, r) = Len(q) \/ CurrentOf(q, r) = NoVersion)
  BY DEF CurrentOf, NoVersion

\* The migration's words for the version in force are the page's.
LEMMA InForceIsCurrent ==
  ASSUME NEW q \in Seq(Version), NEW r
  PROVE  InForce(q, r) = CurrentOf(q, r)
<1>1. DOMAIN q = 1..Len(q) /\ Len(q) \in Nat /\ (q # <<>> <=> Len(q) # 0)
  OBVIOUS
<1> DEFINE now == {v \in DOMAIN q : v = Len(q) /\ q[v].at > r}
<1>2. now = {} <=> ~(q # <<>> /\ q[Len(q)].at > r)
  BY <1>1
<1> QED BY <1>2 DEF InForce, CurrentOf, ForecastIsCurrent, Last

\* A version just stored is later than any stamp before, and so is in force.
LEMMA StoredIsCurrent ==
  ASSUME NEW q \in Seq(Version), NEW b \in BOOLEAN, NEW n \in Nat, NEW r \in Nat, r <= n
  PROVE  /\ Append(q, [at |-> n + 1, moved |-> b]) \in Seq(Version)
         /\ Len(Append(q, [at |-> n + 1, moved |-> b])) = Len(q) + 1
         /\ CurrentOf(Append(q, [at |-> n + 1, moved |-> b]), r) = Len(q) + 1
<1> DEFINE x == [at |-> n + 1, moved |-> b]
           s == Append(q, x)
<1>1. x \in Version /\ x.at = n + 1
  BY DEF Version
<1> HIDE DEF x
<1>2. s \in Seq(Version) /\ Len(s) = Len(q) + 1 /\ s[Len(q) + 1] = x /\ s # <<>> /\ Len(q) \in Nat
  BY <1>1
<1>3. CurrentOf(s, r) = Len(q) + 1
  BY <1>1, <1>2 DEF CurrentOf, ForecastIsCurrent, Last
<1> QED BY <1>2, <1>3 DEF x

----------------------------------------------------------------------------

\* The world's steps, beside the page: it is not moved, and nothing it has read so
\* far, or could read now, stops being a thing it may show.
WorldStep ==
    \E p \in Programs :
        \/ \E moved \in BOOLEAN : StoreVersion(p, moved)
        \/ StoreRevision(p) \/ PlanForWatchers(p) \/ Decline(p) \/ Withdraw(p) \/ RecordOpening(p) \/ FollowElsewhere(p)

WorldMoved ==
    /\ ProgramTypeOK' /\ load' = load /\ knew' = knew
    /\ \A p \in Programs : revisions[p] \subseteq revisions'[p] /\ openings[p] <= openings'[p]
    /\ stamp <= stamp'
    /\ Idling => during' = during
    /\ ~Idling => \A p \in Programs : /\ during[p] \subseteq during'[p]
                                      /\ InSight(p) => InSight(p)'
                                      /\ \A r \in Nat : r <= stamp /\ CurrentOf(versions[p], r) \in during[p]
                                                        => CurrentOf(versions'[p], r) \in during'[p]

LEMMA WorldMoves == ProgramTypeOK /\ WorldStep => WorldMoved
<1> SUFFICES ASSUME ProgramTypeOK, NEW p \in Programs, 
                    \/ \E moved \in BOOLEAN : StoreVersion(p, moved)
                    \/ StoreRevision(p) \/ PlanForWatchers(p) \/ Decline(p) \/ Withdraw(p) \/ RecordOpening(p) \/ FollowElsewhere(p)
             PROVE WorldMoved
  BY DEF WorldStep
<1> USE DEF ProgramTypeOK
<1>0. \A q \in Programs : /\ versions[q] \in Seq(Version) /\ programs[q].refusedAt \in Nat /\ programs[q].listed \in BOOLEAN
                          /\ programs[q] \in [listed : BOOLEAN, refusedAt : Nat]
                          /\ Len(versions[q]) \in Nat /\ programs[q].refusedAt <= stamp
  OBVIOUS
<1>1. ASSUME NEW moved \in BOOLEAN, StoreVersion(p, moved) PROVE WorldMoved
  <2>1. PICK b \in BOOLEAN : b = (moved /\ versions[p] # <<>>)
    OBVIOUS
  <2>2. versions' = [versions EXCEPT ![p] = Append(versions[p], [at |-> stamp + 1, moved |-> b])]
    BY <1>1, <2>1 DEF StoreVersion
  <2> DEFINE s == Append(versions[p], [at |-> stamp + 1, moved |-> b])
  <2>3. s \in Seq(Version) /\ Len(s) = Len(versions[p]) + 1 /\ \A r \in Nat : r <= stamp => CurrentOf(s, r) = Len(versions[p]) + 1
    BY <1>0, StoredIsCurrent
  <2>4. versions'[p] = s /\ \A q \in Programs \ {p} : versions'[q] = versions[q]
    BY <2>2
  <2> HIDE DEF s
  <2>5. UNCHANGED <<programs, revisions, openings, steps, follows, load, knew>> /\ stamp' = stamp + 1 /\ Len(versions[p]) < MaxVersions
    BY <1>1 DEF StoreVersion
  <2>6. \A q \in Programs : versions'[q] \in Seq(Version) /\ Len(versions'[q]) <= MaxVersions
    <3>1. MaxVersions \in Nat
      BY PagesAssumption
    <3>2. versions'[p] \in Seq(Version) /\ Len(versions'[p]) <= MaxVersions
      BY <1>0, <2>3, <2>4, <2>5, <3>1
    <3>3. ASSUME NEW q \in Programs \ {p} PROVE versions'[q] \in Seq(Version) /\ Len(versions'[q]) <= MaxVersions
      BY <1>0, <2>4
    <3> QED BY <3>2, <3>3
  <2>7. versions' \in [Programs -> Seq(Version)]
    BY <2>2, <2>6
  <2>8. ~Idling => during' = [q \in Programs |-> during[q] \cup {InForce(versions'[q], programs'[q].refusedAt)}]
    BY <1>1 DEF StoreVersion, Witness
  <2>9. \A q \in Programs : InForce(versions'[q], programs[q].refusedAt) = CurrentOf(versions'[q], programs[q].refusedAt)
                            /\ CurrentOf(versions'[q], programs[q].refusedAt) \in Nat
    <3> SUFFICES ASSUME NEW q \in Programs
                 PROVE  InForce(versions'[q], programs[q].refusedAt) = CurrentOf(versions'[q], programs[q].refusedAt)
                        /\ CurrentOf(versions'[q], programs[q].refusedAt) \in Nat
      OBVIOUS
    <3>1. versions'[q] \in Seq(Version) /\ programs[q].refusedAt \in Nat /\ Len(versions'[q]) \in Nat
      BY <1>0, <2>6
    <3>2. CurrentOf(versions'[q], programs[q].refusedAt) \in 0..Len(versions'[q])
      BY <3>1, CurrentIsAPlace
    <3> QED BY <3>1, <3>2, InForceIsCurrent
  <2>10. Idling => during' = during
    BY <1>1 DEF StoreVersion, Witness
  <2>11. during' \in [Programs -> SUBSET Nat]
    BY <2>5, <2>8, <2>9, <2>10
  <2>12. ProgramTypeOK'
    BY <1>0, <2>5, <2>6, <2>7, <2>11
  <2>13. ASSUME ~Idling, NEW q \in Programs
         PROVE  /\ during[q] \subseteq during'[q] /\ InSight(q)'
                /\ \A r \in Nat : r <= stamp /\ CurrentOf(versions[q], r) \in during[q] => CurrentOf(versions'[q], r) \in during'[q]
    <3>1. during'[q] = during[q] \cup {CurrentOf(versions'[q], programs[q].refusedAt)}
      BY <2>5, <2>8, <2>9, <2>13
    <3>2. InSight(q)'
      BY <2>5, <3>1 DEF InSight
    <3>3. ASSUME NEW r \in Nat, r <= stamp, CurrentOf(versions[q], r) \in during[q] PROVE CurrentOf(versions'[q], r) \in during'[q]
      BY <1>0, <2>3, <2>4, <3>1, <3>3
    <3> QED BY <3>1, <3>2, <3>3
  <2> QED BY <2>5, <2>10, <2>12, <2>13 DEF WorldMoved
<1>2. CASE Decline(p)
  <2>1. /\ UNCHANGED <<versions, revisions, openings, steps, follows, load, knew>> /\ stamp' = stamp + 1
        /\ programs' = [programs EXCEPT ![p].refusedAt = stamp + 1]
    BY <1>2 DEF Decline
  <2>2. programs' \in [Programs -> [listed : BOOLEAN, refusedAt : Nat]] /\ \A q \in Programs : programs'[q].refusedAt <= stamp'
    <3> DEFINE x == [programs[p] EXCEPT !.refusedAt = stamp + 1]
    <3>1. x \in [listed : BOOLEAN, refusedAt : Nat] /\ x.refusedAt = stamp + 1
      <4>1. stamp + 1 \in Nat
        OBVIOUS
      <4> HIDE DEF ProgramTypeOK
      <4> QED BY <1>0, <4>1
    <3>2. programs' = [programs EXCEPT ![p] = x]
      BY <2>1
    <3> HIDE DEF x
    <3>3. programs'[p] = x /\ \A q \in Programs \ {p} : programs'[q] = programs[q]
      BY <3>2
    <3>4. programs' \in [Programs -> [listed : BOOLEAN, refusedAt : Nat]]
      BY <3>1, <3>2
    <3> QED BY <1>0, <2>1, <3>1, <3>3, <3>4
  <2>3. Idling => during' = during
    BY <1>2 DEF Decline, Witness
  <2>4. ~Idling => during' = [q \in Programs |-> during[q] \cup {InForce(versions'[q], programs'[q].refusedAt)}]
    BY <1>2 DEF Decline, Witness
  <2>5. \A q \in Programs : /\ programs'[q].refusedAt \in Nat
                            /\ InForce(versions'[q], programs'[q].refusedAt) = CurrentOf(versions'[q], programs'[q].refusedAt)
                            /\ CurrentOf(versions'[q], programs'[q].refusedAt) \in Nat
    <3> SUFFICES ASSUME NEW q \in Programs
                 PROVE  /\ programs'[q].refusedAt \in Nat
                        /\ InForce(versions'[q], programs'[q].refusedAt) = CurrentOf(versions'[q], programs'[q].refusedAt)
                        /\ CurrentOf(versions'[q], programs'[q].refusedAt) \in Nat
      OBVIOUS
    <3>1. versions'[q] \in Seq(Version) /\ programs'[q].refusedAt \in Nat /\ Len(versions'[q]) \in Nat
      BY <1>0, <2>1, <2>2
    <3>2. CurrentOf(versions'[q], programs'[q].refusedAt) \in 0..Len(versions'[q])
      BY <3>1, CurrentIsAPlace
    <3> QED BY <3>1, <3>2, InForceIsCurrent
  <2>6. ProgramTypeOK'
    <3>1. during' \in [Programs -> SUBSET Nat]
      BY <2>3, <2>4, <2>5
    <3> QED BY <1>0, <2>1, <2>2, <3>1
  <2>7. ASSUME ~Idling, NEW q \in Programs
        PROVE  during'[q] = during[q] \cup {CurrentOf(versions'[q], programs'[q].refusedAt)}
    BY <2>4, <2>5, <2>7
  <2> QED BY <2>1, <2>3, <2>6, <2>7 DEF WorldMoved, InSight
<1>3. CASE StoreRevision(p)
  <2>1. Len(versions[p]) \in Nat \ {0, 1}
    <3>1. Len(versions[p]) \in Nat /\ Len(versions[p]) > 1
      BY <1>0, <1>3 DEF StoreRevision
    <3>2. \A n \in Nat : n > 1 => n \in Nat \ {0, 1}
      OBVIOUS
    <3> QED BY <3>1, <3>2, Zenon
  <2> QED BY <1>3, <2>1 DEF StoreRevision, WorldMoved, InSight, Idling
<1>4. CASE PlanForWatchers(p)
  <2> DEFINE v == CurrentOf(versions[p], programs[p].refusedAt)
  <2>1. v \in Nat
    <3>1. versions[p] \in Seq(Version) /\ programs[p].refusedAt \in Nat /\ Len(versions[p]) \in Nat
      BY <1>0
    <3>2. v \in 0..Len(versions[p])
      BY <3>1, CurrentIsAPlace
    <3> QED BY <3>1, <3>2
  <2>2. [program |-> p, version |-> v] \in StepsKept
    BY <2>1 DEF StepsKept
  <2> HIDE DEF v
  <2>3. steps' = steps \cup {[program |-> p, version |-> v]}
    BY <1>4 DEF PlanForWatchers, v
  <2> QED BY <1>4, <2>2, <2>3 DEF PlanForWatchers, WorldMoved, InSight, Idling
<1>5. CASE Withdraw(p)
  <2>1. programs' = [programs EXCEPT ![p].listed = FALSE] /\ follows' = follows \ {p}
        /\ UNCHANGED <<versions, revisions, openings, steps, stamp, load, during, knew>>
    BY <1>5 DEF Withdraw
  <2>2. programs' \in [Programs -> [listed : BOOLEAN, refusedAt : Nat]] /\ \A q \in Programs : programs'[q].refusedAt = programs[q].refusedAt
    BY <1>0, <2>1
  <2> QED BY <2>1, <2>2 DEF WorldMoved, InSight, Idling
<1>6. CASE RecordOpening(p)
  BY <1>6 DEF RecordOpening, WorldMoved, InSight, Idling
<1>7. CASE FollowElsewhere(p)
  BY <1>7 DEF FollowElsewhere, WorldMoved, InSight, Idling
<1> QED BY <1>1, <1>2, <1>3, <1>4, <1>5, <1>6, <1>7

\* The world moves no page off its course.
LEMMA WorldKeepsTheLoad ==
  ASSUME ProgramTypeOK, LoadIsRight, WorldMoved
  PROVE  LoadIsRight'
<1> USE DEF WorldMoved
<1>0. load' = load /\ knew' = knew /\ stamp \in Nat /\ stamp' \in Nat /\ stamp <= stamp' /\ (Idling => during' = during)
  BY DEF ProgramTypeOK
<1>1. CASE load = NoLoad
  BY <1>0, <1>1 DEF LoadIsRight
<1>2. CASE AtRole
  <2>1. ~Idling /\ load.program \in Programs
    BY <1>2 DEF AtRole, ProgramRoles, Idling
  <2>2. InSight(load.program)'
    BY <1>0, <1>2, <2>1 DEF AtRole, InSight
  <2> QED BY <1>0, <1>2, <2>2 DEF AtRole, LoadIsRight
<1>3. CASE AtEvidence
  <2>1. ~Idling /\ load.program \in Programs /\ load.refusedAt \in Nat
    BY <1>3 DEF AtEvidence, ProgramEvidence, Idling
  <2>2. CurrentOf(versions'[load.program], load.refusedAt) \in during'[load.program]
    BY <1>3, <2>1 DEF AtEvidence
  <2>3. AtEvidence'
    BY <1>0, <1>3, <2>1, <2>2 DEF AtEvidence
  <2> QED BY <2>3 DEF LoadIsRight
<1>4. CASE AtDetails
  <2>1. ~Idling /\ load.program \in Programs
    BY <1>4 DEF AtDetails, ProgramDetails, Idling
  <2>2. AtDetails'
    BY <1>0, <1>4, <2>1 DEF AtDetails
  <2> QED BY <2>2 DEF LoadIsRight
<1>5. CASE AtShown
  <2>1. during' = during
    BY <1>0, <1>5 DEF AtShown, Idling
  <2>2. AtShown'
    BY <1>0, <1>5, <2>1 DEF AtShown
  <2> QED BY <2>2 DEF LoadIsRight
<1>6. CASE AtMissing
  BY <1>0, <1>6 DEF AtMissing, LoadIsRight
<1>7. CASE AtFollows
  <2>1. ~Idling
    BY <1>7 DEF AtFollows, Idling
  <2>2. \A p \in Programs : InSight(p)'
    BY <1>7, <2>1 DEF AtFollows
  <2> QED BY <1>0, <1>7, <2>2 DEF AtFollows, LoadIsRight
<1>8. CASE AtWatched
  <2>1. ~Idling
    BY <1>8 DEF AtWatched, CalendarRoles, Idling
  <2>2. \A p \in Programs : InSight(p)'
    BY <1>8, <2>1 DEF AtWatched
  <2> QED BY <1>0, <1>8, <2>2 DEF AtWatched, LoadIsRight
<1>9. CASE AtDated
  <2>1. ~Idling /\ load.watched \subseteq Programs
    BY <1>9 DEF AtDated, CalendarDated, Idling
  <2>2. ASSUME NEW p \in load.watched
        PROVE  load.refusedAt[p] <= stamp' /\ CurrentOf(IF "forecasts" \in load.left THEN versions'[p] ELSE load.list[p], load.refusedAt[p]) \in during'[p]
    <3>1. p \in Programs /\ load.refusedAt[p] \in Nat /\ load.refusedAt[p] <= stamp
      BY <1>9, <2>1, <2>2 DEF AtDated
    <3>2. CurrentOf(IF "forecasts" \in load.left THEN versions[p] ELSE load.list[p], load.refusedAt[p]) \in during[p]
      BY <1>9, <2>2 DEF AtDated
    <3>3. CASE "forecasts" \in load.left
      BY <2>1, <3>1, <3>2, <3>3, <1>0
    <3>4. CASE "forecasts" \notin load.left
      BY <2>1, <3>1, <3>2, <3>4, <1>0
    <3> QED BY <3>3, <3>4
  <2>3. \A p \in load.confirmed : openings'[p] > 0
    <3> SUFFICES ASSUME NEW p \in load.confirmed PROVE openings'[p] > 0
      OBVIOUS
    <3>1. p \in Programs /\ openings[p] > 0
      BY <1>9, <2>1 DEF AtDated
    <3>2. openings[p] \in Nat /\ openings'[p] \in Nat /\ openings[p] <= openings'[p]
      BY <3>1 DEF ProgramTypeOK
    <3> QED BY <3>1, <3>2
  <2>4. AtDated'
    BY <1>0, <1>9, <2>2, <2>3 DEF AtDated
  <2> QED BY <2>4 DEF LoadIsRight
<1>10. CASE AtCalendar
  <2>1. during' = during
    BY <1>0, <1>10 DEF AtCalendar, Idling
  <2>2. AtCalendar'
    BY <1>0, <1>10, <2>1 DEF AtCalendar
  <2> QED BY <2>2 DEF LoadIsRight
<1> QED BY <1>1, <1>2, <1>3, <1>4, <1>5, <1>6, <1>7, <1>8, <1>9, <1>10 DEF LoadIsRight

\* The kind of a page and how far it has come say what is known of it.
LEMMA StageOf ==
  ASSUME LoadIsRight
  PROVE  /\ IsProgram /\ load.at = "role" => AtRole
         /\ IsProgram /\ load.at = "evidence" => AtEvidence
         /\ IsProgram /\ load.at = "details" => AtDetails
         /\ IsProgram /\ load.at = "shown" => AtShown
         /\ IsCalendar /\ load.at = "follows" => AtFollows
         /\ IsCalendar /\ load.at = "role" => AtWatched
         /\ IsCalendar /\ load.at = "dated" => AtDated
         /\ IsCalendar /\ load.at = "shown" => AtCalendar
<1>1. AtRole => load.kind = "program" /\ load.at = "role"
  BY DEF AtRole, ProgramRoles
<1>2. AtEvidence => load.kind = "program" /\ load.at = "evidence"
  BY DEF AtEvidence, ProgramEvidence
<1>3. AtDetails => load.kind = "program" /\ load.at = "details"
  BY DEF AtDetails, ProgramDetails
<1>4. (AtShown => load.kind = "program" /\ load.at = "shown") /\ (AtMissing => load.kind = "program" /\ load.at = "missing")
  BY DEF AtShown, AtMissing
<1>5. AtFollows => load.kind = "calendar" /\ load.at = "follows"
  BY DEF AtFollows
<1>6. AtWatched => load.kind = "calendar" /\ load.at = "role"
  BY DEF AtWatched, CalendarRoles
<1>7. AtDated => load.kind = "calendar" /\ load.at = "dated"
  BY DEF AtDated, CalendarDated
<1>8. AtCalendar => load.kind = "calendar" /\ load.at = "shown"
  BY DEF AtCalendar
<1>9. load = NoLoad => load.at = "none"
  BY DEF NoLoad
<1> QED BY <1>1, <1>2, <1>3, <1>4, <1>5, <1>6, <1>7, <1>8, <1>9 DEF LoadIsRight, IsProgram, IsCalendar

\* A page starts with what is in force in its sight.
LEMMA PagesBegin ==
  ASSUME ProgramInv, \/ \E p \in Programs, receipts \in {1, 2} : OpenProgram(p, receipts)
                     \/ OpenCalendar
  PROVE  ProgramInv'
<1>0. ProgramTypeOK
  BY DEF ProgramInv
<1>1. /\ during' = [p \in Programs |-> {InForce(versions[p], programs[p].refusedAt)}] /\ knew' = revisions
      /\ UNCHANGED <<programs, versions, revisions, openings, steps, follows, stamp, followed>>
  BY DEF OpenProgram, OpenCalendar, Begin
<1>2. ASSUME NEW p \in Programs
      PROVE  /\ InForce(versions[p], programs[p].refusedAt) = CurrentOf(versions[p], programs[p].refusedAt)
             /\ CurrentOf(versions[p], programs[p].refusedAt) \in Nat
  <2>1. versions[p] \in Seq(Version) /\ programs[p].refusedAt \in Nat /\ Len(versions[p]) \in Nat
    BY <1>0 DEF ProgramTypeOK
  <2>2. CurrentOf(versions[p], programs[p].refusedAt) \in 0..Len(versions[p])
    BY <2>1, CurrentIsAPlace
  <2> QED BY <2>1, <2>2, InForceIsCurrent
<1>3. during' \in [Programs -> SUBSET Nat] /\ \A p \in Programs : InSight(p)'
  BY <1>1, <1>2 DEF InSight
<1>4. ProgramTypeOK'
  BY <1>0, <1>1, <1>3 DEF ProgramTypeOK
<1>5. LoadIsRight'
  <2>1. ASSUME NEW p \in Programs, NEW receipts \in {1, 2}, OpenProgram(p, receipts) PROVE AtRole'
    <3>1. load' = [kind |-> "program", at |-> "role", program |-> p, asked |-> receipts]
      BY <2>1 DEF OpenProgram, Begin
    <3>2. load' \in ProgramRoles /\ load'.program = p
      BY <3>1 DEF ProgramRoles
    <3>3. InSight(p)'
      BY <1>3
    <3> QED BY <3>2, <3>3 DEF AtRole, InSight
  <2>2. ASSUME OpenCalendar PROVE AtFollows'
    BY <1>3, <2>2 DEF OpenCalendar, Begin, AtFollows
  <2> QED BY <2>1, <2>2 DEF LoadIsRight
<1> QED BY <1>1, <1>4, <1>5 DEF ProgramInv

LEMMA ProgramReads ==
  ASSUME ProgramInv, ReadProgram \/ ReadEvidence
  PROVE  ProgramInv'
<1>0. ProgramTypeOK /\ LoadIsRight /\ Reading
  BY DEF ProgramInv, ReadProgram, ReadEvidence
<1>1. ProgramTypeOK'
  BY <1>0 DEF ProgramTypeOK, Reading
<1>2. ASSUME ReadProgram PROVE LoadIsRight'
  <2>1. AtRole
    BY <1>0, <1>2, StageOf DEF ReadProgram
  <2>2. load.program \in Programs /\ load.asked \in {1, 2} /\ programs[load.program].refusedAt \in Nat /\ programs[load.program].refusedAt <= stamp
    BY <1>0, <2>1 DEF AtRole, ProgramRoles, ProgramTypeOK
  <2>3. CASE programs[load.program].listed
    <3>1. load' = [kind |-> "program", at |-> "evidence", program |-> load.program, asked |-> load.asked,
                   refusedAt |-> programs[load.program].refusedAt]
      BY <1>2, <2>3 DEF ReadProgram
    <3>2. load' \in ProgramEvidence /\ load'.program = load.program /\ load'.refusedAt = programs[load.program].refusedAt
      BY <2>2, <3>1 DEF ProgramEvidence
    <3>3. AtEvidence'
      BY <1>0, <2>1, <2>2, <3>2 DEF AtEvidence, AtRole, InSight, Reading
    <3> QED BY <3>3 DEF LoadIsRight
  <2>4. CASE ~programs[load.program].listed
    BY <1>2, <2>4 DEF ReadProgram, AtMissing, LoadIsRight
  <2> QED BY <2>3, <2>4
<1>3. ASSUME ReadEvidence PROVE LoadIsRight'
  <2>1. AtEvidence
    BY <1>0, <1>3, StageOf DEF ReadEvidence
  <2> DEFINE p == load.program
             list == versions[p]
             latest == CurrentOf(list, load.refusedAt)
             rest == {"steps", "follow"} \cup (IF list # <<>> THEN {"revisions"} ELSE {})
                                         \cup (IF latest # NoVersion THEN {"receipts"} ELSE {})
             declined == list # <<>> /\ latest = NoVersion
  <2>2. p \in Programs /\ load.asked \in {1, 2} /\ load.refusedAt \in Nat /\ list \in Seq(Version) /\ Len(list) \in Nat /\ Len(list) <= MaxVersions
    BY <1>0, <2>1 DEF AtEvidence, ProgramEvidence, ProgramTypeOK
  <2>3. latest \in 0..Len(list) /\ latest \in during[p]
    BY <2>1, <2>2, CurrentIsAPlace DEF AtEvidence
  <2>4. load' = [kind |-> "program", at |-> "details", program |-> p, asked |-> load.asked,
                 list |-> list, window |-> latest, declined |-> declined, left |-> rest,
                 receipts |-> 0, revised |-> {}, plan |-> {}, isFollowed |-> FALSE]
    BY <1>3 DEF ReadEvidence
  <2>5. rest \in SUBSET DetailReads /\ ("receipts" \in rest => latest # NoVersion) /\ ("revisions" \notin rest => list = <<>>)
    BY DEF DetailReads
  <2>6. latest \in 0..MaxVersions
    BY <2>2, <2>3, PagesAssumption
  <2>7. PICK b \in BOOLEAN : b = declined
    OBVIOUS
  <2>8. PICK a \in {1, 2} : a = load.asked
    BY <2>2
  <2> HIDE DEF latest, rest, declined, list
  <2>9. load' \in ProgramDetails
    BY <2>2, <2>4, <2>5, <2>6, <2>7, <2>8 DEF ProgramDetails
  <2>10. /\ load'.program = p /\ load'.window = latest /\ load'.left = rest /\ load'.list = list
    BY <2>4
  <2>11. "revisions" \notin rest => DOMAIN list = {}
    BY <2>5
  <2>12. AtDetails'
    BY <1>0, <2>3, <2>5, <2>9, <2>10, <2>11 DEF AtDetails, Reading
  <2> QED BY <2>12 DEF LoadIsRight
<1>4. LoadIsRight'
  BY <1>2, <1>3
<1> QED BY <1>0, <1>1, <1>4 DEF ProgramInv, Reading

LEMMA DetailSteps ==
  ASSUME ProgramInv, NEW r \in DetailReads, ReadDetail(r)
  PROVE  ProgramInv'
<1> DEFINE p == load.program
<1>0. ProgramTypeOK /\ LoadIsRight /\ Reading /\ r \in load.left /\ (\A q \in Programs : knew[q] \subseteq revisions[q])
  BY DEF ProgramInv, ReadDetail
<1>1. AtDetails /\ load \in ProgramDetails /\ p \in Programs /\ load.window \in 0..MaxVersions
  BY <1>0, StageOf DEF ReadDetail, AtDetails, ProgramDetails
<1> DEFINE rest == load.left \ {r}
           receipts == IF r = "receipts" THEN Receipts[load.window] ELSE load.receipts
           revised == IF r = "revisions" THEN revisions[p] \cap DOMAIN load.list ELSE load.revised
           planned == IF r = "steps" THEN {s.version : s \in {s \in steps : s.program = p}} ELSE load.plan
           isFollowed == IF r = "follow" THEN p \in follows ELSE load.isFollowed
<1>2. load' = [load EXCEPT !.left = rest, !.receipts = receipts, !.revised = revised, !.plan = planned, !.isFollowed = isFollowed]
  BY DEF ReadDetail
<1>3. rest \subseteq load.left /\ receipts \in Nat /\ revised \subseteq Nat /\ planned \subseteq Nat /\ \E b \in BOOLEAN : isFollowed = b
  <2>1. r = "receipts" => load.window \in 1..MaxVersions
    BY <1>0, <1>1, PagesAssumption DEF AtDetails, NoVersion
  <2>2. receipts \in Nat
    BY <1>1, <2>1, PagesAssumption DEF ProgramDetails
  <2>3. revisions[p] \subseteq Nat /\ load.revised \subseteq Nat
    BY <1>0, <1>1 DEF ProgramTypeOK, ProgramDetails
  <2>4. \A s \in steps : s.version \in Nat
    BY <1>0 DEF ProgramTypeOK, StepsKept
  <2>5. planned \subseteq Nat
    BY <1>1, <2>4 DEF ProgramDetails
  <2>6. \E b \in BOOLEAN : isFollowed = b
    <3>1. CASE r = "follow"
      <4>1. CASE p \in follows
        BY <3>1, <4>1
      <4>2. CASE p \notin follows
        <5>1. isFollowed = FALSE
          BY <3>1, <4>2
        <5> QED BY <5>1
      <4> QED BY <4>1, <4>2
    <3>2. CASE r # "follow"
      <4>1. load.isFollowed \in BOOLEAN
        BY <1>1 DEF ProgramDetails
      <4> QED BY <3>2, <4>1
    <3> QED BY <3>1, <3>2
  <2> QED BY <2>2, <2>3, <2>5, <2>6
<1>4. "revisions" \notin rest => knew[p] \cap DOMAIN load.list \subseteq revised
  BY <1>0, <1>1 DEF AtDetails
<1> HIDE DEF rest, receipts, revised, planned, isFollowed
<1>5. load' \in ProgramDetails
  <2>1. PICK b \in BOOLEAN : isFollowed = b
    BY <1>3
  <2>2. rest \in SUBSET DetailReads /\ revised \in SUBSET Nat /\ planned \in SUBSET Nat
    BY <1>1, <1>3 DEF ProgramDetails
  <2> QED BY <1>1, <1>2, <1>3, <2>1, <2>2 DEF ProgramDetails
<1>6. /\ load'.program = p /\ load'.left = rest /\ load'.window = load.window /\ load'.list = load.list /\ load'.revised = revised
  BY <1>1, <1>2 DEF ProgramDetails
<1>7. AtDetails'
  BY <1>0, <1>1, <1>3, <1>4, <1>5, <1>6 DEF AtDetails, Reading
<1>8. ProgramTypeOK'
  BY <1>0 DEF ProgramTypeOK, Reading
<1> QED BY <1>0, <1>7, <1>8 DEF ProgramInv, LoadIsRight, Reading

----------------------------------------------------------------------------

\* The page of contributions shown is never empty when there are any.
LEMMA WholePages ==
  ASSUME NEW k \in Nat, NEW b \in Nat \ {0}
  PROVE  k * b \in Nat /\ (k * b) \div b = k
<1>1. k * b \in Nat
  OBVIOUS
<1>2. k * b >= 0 /\ k * b < k * b + b
  BY <1>1
<1> QED BY <1>1, <1>2

LEMMA Division ==
  ASSUME NEW a \in Nat, NEW b \in Nat \ {0}
  PROVE  a \div b \in Nat /\ (a \div b) * b \in Nat /\ (a \div b) * b <= a /\ a < (a \div b) * b + b
  OBVIOUS

LEMMA TimesIsMonotone == ASSUME NEW k \in Nat, NEW n \in Nat, k <= n, NEW b \in Nat \ {0} PROVE k * b <= n * b
<1>1. (n - k) * b >= 0 OBVIOUS
<1>2. (n - k) * b = n * b - k * b OBVIOUS
<1> QED BY <1>1, <1>2

LEMMA PageIsNotBlank ==
  ASSUME NEW wanted \in Nat \ {0}, NEW rows \in Nat \ {0}
  PROVE  ReceiptsOn(wanted, rows) # {}
<1> DEFINE b == ReceiptPage
           last == (rows + b - 1) \div b
           k == Least(wanted, last) - 1
           q == k * b + 1
<1>0. b \in Nat \ {0} /\ rows + b - 1 \in Nat
  BY PagesAssumption
<1>1. last \in Nat /\ last * b \in Nat /\ last * b <= rows + b - 1 /\ rows + b - 1 < last * b + b
  BY <1>0, Division
<1>2. last = Pages(rows)
  BY DEF Pages
<1> HIDE DEF last
<1>3. last >= 1
  <2>1. last # 0
    <3> SUFFICES ASSUME last = 0 PROVE FALSE
      OBVIOUS
    <3>1. last * b = 0
      BY <1>0
    <3> QED BY <1>0, <1>1, <3>1
  <2> QED BY <1>1, <2>1
<1>4. k \in Nat /\ k + 1 <= last /\ k = Least(wanted, Pages(rows)) - 1
  BY <1>1, <1>2, <1>3 DEF Least
<1> HIDE DEF k
<1>5. k * b \in Nat /\ (k * b) \div b = k
  BY <1>0, <1>4, WholePages
<1>6. (k + 1) * b <= last * b /\ (k + 1) * b = k * b + b
  BY <1>0, <1>1, <1>4, TimesIsMonotone
<1>7. q \in 1..rows /\ q - 1 = k * b
  BY <1>0, <1>1, <1>5, <1>6
<1>8. q \in ReceiptsOn(wanted, rows)
  BY <1>4, <1>5, <1>7 DEF ReceiptsOn
<1> QED BY <1>8

LEMMA ShowProgramSteps ==
  ASSUME ProgramInv, ShowProgram
  PROVE  ProgramInv'
<1> DEFINE p == load.program
           rows == ReceiptsOn(load.asked, load.receipts)
           notes == Noted(load.list, load.revised)
<1>0. ProgramTypeOK /\ LoadIsRight /\ Reading /\ load.left = {} /\ (\A q \in Programs : knew[q] \subseteq revisions[q])
  BY DEF ProgramInv, ShowProgram
<1>1. AtDetails
  BY <1>0, StageOf DEF ShowProgram
<1>2. p \in Programs /\ load.asked \in {1, 2} /\ load.receipts \in Nat /\ load.list \in Seq(Version) /\ load.window \in during[p]
  BY <1>1 DEF AtDetails, ProgramDetails
<1>3. load' = [kind |-> "program", at |-> "shown", program |-> p, asked |-> load.asked,
                window |-> load.window, declined |-> load.declined, list |-> load.list,
                receipts |-> load.receipts, rows |-> rows, notes |-> notes, plan |-> load.plan, isFollowed |-> load.isFollowed,
                canPlan |-> CanPlan(load.isFollowed, load.window)]
  BY DEF ShowProgram
<1>4. load.receipts > 0 => rows # {}
  BY <1>2, PageIsNotBlank
<1>5. ASSUME NEW v \in knew[p], v \in ShownVersions(load.list), load.list[v].moved PROVE v \in notes
  <2>1. knew[p] \subseteq Nat \ {0, 1}
    BY <1>0, <1>2 DEF ProgramTypeOK
  <2>2. v \in DOMAIN load.list /\ v \in 1..Len(load.list) /\ v # 1 /\ Len(load.list) \in Nat
    BY <1>2, <1>5, <2>1 DEF ShownVersions
  <2>3. v - 1 \in DOMAIN load.list
    BY <1>2, <2>2
  <2>4. v \in load.revised
    BY <1>0, <1>1, <1>5, <2>2 DEF AtDetails
  <2> QED BY <1>5, <2>3, <2>4 DEF Noted
<1> HIDE DEF rows, notes
<1>6. /\ load'.kind = "program" /\ load'.at = "shown" /\ load'.program = p /\ load'.asked = load.asked /\ load'.window = load.window
      /\ load'.list = load.list /\ load'.receipts = load.receipts /\ load'.rows = rows /\ load'.notes = notes
  BY <1>3
<1>7. AtShown'
  BY <1>0, <1>2, <1>4, <1>5, <1>6 DEF AtShown, Reading
<1>8. ProgramTypeOK'
  BY <1>0 DEF ProgramTypeOK, Reading
<1> QED BY <1>0, <1>7, <1>8 DEF ProgramInv, LoadIsRight, Reading

\* The button plans from the version in force, and the page is put together again.
LEMMA BuildSteps ==
  ASSUME ProgramInv, BuildPlan
  PROVE  ProgramInv'
<1> DEFINE p == load.program
           v == CurrentOf(versions[p], programs[p].refusedAt)
           planned == p \in follows /\ v # NoVersion
<1>0. /\ ProgramTypeOK /\ LoadIsRight /\ (\A q \in Programs : knew[q] \subseteq revisions[q])
      /\ UNCHANGED <<programs, versions, revisions, openings, follows, stamp, followed>>
  BY DEF ProgramInv, BuildPlan
<1>1. AtShown
  BY <1>0, StageOf DEF BuildPlan
<1>2. p \in Programs /\ load.asked \in {1, 2}
  BY <1>1 DEF AtShown
<1>3. v \in Nat
  <2>1. versions[p] \in Seq(Version) /\ programs[p].refusedAt \in Nat /\ Len(versions[p]) \in Nat
    BY <1>0, <1>2 DEF ProgramTypeOK
  <2>2. v \in 0..Len(versions[p])
    BY <2>1, CurrentIsAPlace
  <2> QED BY <2>1, <2>2
<1>4. CASE planned
  <2>1. /\ steps' = steps \cup {[program |-> p, version |-> v]} /\ during' = [during EXCEPT ![p] = {v}] /\ knew' = revisions
        /\ load' = [kind |-> "program", at |-> "role", program |-> p, asked |-> load.asked]
    BY <1>4 DEF BuildPlan
  <2>2. [program |-> p, version |-> v] \in StepsKept
    BY <1>2, <1>3 DEF StepsKept
  <2>3. during' \in [Programs -> SUBSET Nat] /\ v \in during'[p]
    BY <1>0, <1>2, <1>3, <2>1 DEF ProgramTypeOK
  <2> HIDE DEF v
  <2>4. ProgramTypeOK'
    BY <1>0, <2>1, <2>2, <2>3 DEF ProgramTypeOK
  <2>5. load' \in ProgramRoles /\ load'.program = p
    BY <1>2, <2>1 DEF ProgramRoles
  <2>6. AtRole'
    BY <1>0, <2>3, <2>5 DEF AtRole, InSight, v
  <2> QED BY <1>0, <2>1, <2>4, <2>6 DEF ProgramInv, LoadIsRight
<1>5. CASE ~planned
  <2>1. load' = [load EXCEPT !.canPlan = FALSE] /\ UNCHANGED <<steps, during, knew>>
    BY <1>5 DEF BuildPlan
  <2>2. AtShown'
    BY <1>0, <1>1, <2>1 DEF AtShown
  <2>3. ProgramTypeOK'
    BY <1>0, <2>1 DEF ProgramTypeOK
  <2> QED BY <1>0, <2>1, <2>2, <2>3 DEF ProgramInv, LoadIsRight
<1> QED BY <1>4, <1>5

----------------------------------------------------------------------------

LEMMA CalendarStarts ==
  ASSUME ProgramInv, ReadFollows \/ ReadWatched
  PROVE  ProgramInv'
<1>0. ProgramTypeOK /\ LoadIsRight /\ Reading /\ (\A q \in Programs : knew[q] \subseteq revisions[q])
  BY DEF ProgramInv, ReadFollows, ReadWatched
<1>1. ProgramTypeOK'
  BY <1>0 DEF ProgramTypeOK, Reading
<1>2. ASSUME ReadFollows PROVE LoadIsRight'
  <2>1. AtFollows
    BY <1>0, <1>2, StageOf DEF ReadFollows
  <2>2. CASE follows = {}
    <3>1. load' = [kind |-> "calendar", at |-> "shown", watched |-> {}, predicted |-> [p \in {} |-> 0],
                     plan |-> {}, confirmed |-> {}, undated |-> {}, unseen |-> {}]
      BY <1>2, <2>2 DEF ReadFollows
    <3>2. /\ load'.kind = "calendar" /\ load'.at = "shown" /\ load'.watched = {} /\ load'.predicted = [p \in {} |-> 0]
          /\ load'.confirmed = {} /\ load'.undated = {} /\ load'.unseen = {}
      BY <3>1
    <3>3. AtCalendar'
      BY <3>2 DEF AtCalendar
    <3> QED BY <3>3 DEF LoadIsRight
  <2>3. CASE follows # {}
    <3>1. load' = [kind |-> "calendar", at |-> "role", watched |-> follows]
      BY <1>2, <2>3 DEF ReadFollows
    <3>2. load' \in CalendarRoles
      BY <1>0, <3>1 DEF CalendarRoles, ProgramTypeOK
    <3>3. AtWatched'
      BY <1>0, <2>1, <3>2 DEF AtFollows, AtWatched, InSight, Reading
    <3> QED BY <3>3 DEF LoadIsRight
  <2> QED BY <2>2, <2>3
<1>3. ASSUME ReadWatched PROVE LoadIsRight'
  <2>1. AtWatched
    BY <1>0, <1>3, StageOf DEF ReadWatched
  <2>2. load.watched \subseteq Programs
    BY <2>1 DEF AtWatched, CalendarRoles
  <2> DEFINE w == load.watched
             refused == [p \in w |-> programs[p].refusedAt]
             list == [p \in w |-> <<>>]
             cycles == [p \in w |-> 0]
  <2>3. load' = [kind |-> "calendar", at |-> "dated", watched |-> w, left |-> CalendarReads,
                 refusedAt |-> refused, list |-> list, plan |-> {}, confirmed |-> {}, cycles |-> cycles]
    BY <1>3 DEF ReadWatched
  <2>4. refused \in [w -> Nat] /\ list \in [w -> Seq(Version)] /\ cycles \in [w -> Nat] /\ \A p \in w : refused[p] <= stamp
    BY <1>0, <2>2 DEF ProgramTypeOK
  <2>5. \A p \in w : refused[p] = programs[p].refusedAt
    OBVIOUS
  <2>6. "forecasts" \in CalendarReads /\ "openings" \in CalendarReads /\ "cycles" \in CalendarReads
    BY DEF CalendarReads, DatedReads
  <2> HIDE DEF refused, list, cycles
  <2>7. refused \in OfWatched(Nat) /\ list \in OfWatched(Seq(Version)) /\ cycles \in OfWatched(Nat)
    BY <2>2, <2>4 DEF OfWatched
  <2>8. load' \in CalendarDated
    BY <2>2, <2>3, <2>7 DEF CalendarDated
  <2>9. /\ load'.watched = w /\ load'.left = CalendarReads /\ load'.refusedAt = refused /\ load'.list = list /\ load'.confirmed = {}
        /\ load'.cycles = cycles
    BY <2>3
  <2>10. \A p \in w : CurrentOf(versions[p], refused[p]) \in during[p]
    BY <2>1, <2>2, <2>5 DEF AtWatched, InSight
  <2>11. AtDated'
    BY <1>0, <2>4, <2>6, <2>8, <2>9, <2>10 DEF AtDated, Reading
  <2> QED BY <2>11 DEF LoadIsRight
<1> QED BY <1>0, <1>1, <1>2, <1>3 DEF ProgramInv, Reading

LEMMA DatedSteps ==
  ASSUME ProgramInv, NEW r \in CalendarReads, ReadDated(r)
  PROVE  ProgramInv'
<1> DEFINE w == load.watched
<1>0. /\ ProgramTypeOK /\ LoadIsRight /\ Reading /\ r \in load.left /\ ReadAfter(r) \cap load.left = {}
      /\ (\A q \in Programs : knew[q] \subseteq revisions[q])
  BY DEF ProgramInv, ReadDated
<1>1. AtDated /\ load \in CalendarDated /\ w \subseteq Programs
  BY <1>0, StageOf DEF ReadDated, AtDated, CalendarDated
<1> DEFINE rest == load.left \ {r}
           list == IF r = "forecasts" THEN [p \in w |-> versions[p]] ELSE load.list
           planned == IF r = "steps" THEN {s \in steps : s.program \in w} ELSE load.plan
           confirmed == IF r = "openings" THEN {p \in w : openings[p] > 0} ELSE load.confirmed
           cycles == IF r = "cycles" THEN [p \in w |-> openings[p]] ELSE load.cycles
<1>2. load' = [load EXCEPT !.left = rest, !.list = list, !.plan = planned, !.confirmed = confirmed, !.cycles = cycles]
  BY DEF ReadDated
<1>3. list \in [w -> Seq(Version)] /\ cycles \in [w -> Nat] /\ confirmed \subseteq w /\ planned \subseteq StepsKept /\ load.refusedAt \in [w -> Nat]
  <2>1. list \in [w -> Seq(Version)]
    BY <1>0, <1>1 DEF AtDated, ProgramTypeOK
  <2>2. cycles \in [w -> Nat]
    BY <1>0, <1>1 DEF AtDated, ProgramTypeOK
  <2>3. planned \subseteq StepsKept
    BY <1>0, <1>1 DEF CalendarDated, ProgramTypeOK
  <2>4. confirmed \subseteq w
    BY <1>1 DEF AtDated
  <2> QED BY <1>1, <2>1, <2>2, <2>3, <2>4 DEF AtDated
<1>4. \A p \in w : CurrentOf(IF "forecasts" \in rest THEN versions[p] ELSE list[p], load.refusedAt[p]) \in during[p]
  <2> SUFFICES ASSUME NEW p \in w PROVE CurrentOf(IF "forecasts" \in rest THEN versions[p] ELSE list[p], load.refusedAt[p]) \in during[p]
    OBVIOUS
  <2>1. CurrentOf(IF "forecasts" \in load.left THEN versions[p] ELSE load.list[p], load.refusedAt[p]) \in during[p]
    BY <1>1 DEF AtDated
  <2>2. CASE r = "forecasts"
    <3>1. list[p] = versions[p] /\ "forecasts" \notin rest /\ "forecasts" \in load.left
      BY <1>0, <2>2
    <3> QED BY <2>1, <3>1
  <2>3. CASE r # "forecasts"
    <3>1. list = load.list /\ ("forecasts" \in rest <=> "forecasts" \in load.left)
      BY <2>3
    <3> QED BY <2>1, <3>1
  <2> QED BY <2>2, <2>3
<1>5. "openings" \in rest => confirmed = {}
  <2> SUFFICES ASSUME "openings" \in rest PROVE confirmed = {}
    OBVIOUS
  <2>1. r # "openings" /\ "openings" \in load.left
    OBVIOUS
  <2> QED BY <1>1, <2>1 DEF AtDated
<1>6. \A p \in confirmed : openings[p] > 0
  BY <1>1 DEF AtDated
<1>7. ASSUME "cycles" \notin rest PROVE DatedReads \cap rest = {} /\ \A p \in confirmed : cycles[p] > 0
  <2>1. CASE r = "cycles"
    <3>1. DatedReads \cap load.left = {}
      BY <1>0, <2>1 DEF ReadAfter
    <3>2. \A p \in w : cycles[p] = openings[p]
      BY <2>1
    <3> QED BY <1>3, <1>6, <3>1, <3>2
  <2>2. CASE r # "cycles"
    <3>1. "cycles" \notin load.left
      BY <1>7, <2>2
    <3>2. DatedReads \cap load.left = {} /\ r \in DatedReads
      BY <1>1, <2>2, <3>1 DEF AtDated, CalendarReads
    <3> QED BY <1>0, <3>2
  <2> QED BY <2>1, <2>2
<1>8. rest \in SUBSET CalendarReads /\ list \in OfWatched(Seq(Version)) /\ cycles \in OfWatched(Nat) /\ confirmed \in SUBSET Programs
  BY <1>1, <1>3 DEF CalendarDated, OfWatched
<1> HIDE DEF rest, list, planned, confirmed, cycles
<1>9. load' \in CalendarDated
  BY <1>1, <1>2, <1>3, <1>8 DEF CalendarDated
<1>10. /\ load'.watched = w /\ load'.left = rest /\ load'.refusedAt = load.refusedAt /\ load'.list = list /\ load'.confirmed = confirmed
       /\ load'.cycles = cycles
  BY <1>1, <1>2 DEF CalendarDated
<1>11. \A p \in w : load.refusedAt[p] <= stamp
  BY <1>1 DEF AtDated
<1>12. AtDated'
  BY <1>0, <1>3, <1>4, <1>5, <1>6, <1>7, <1>9, <1>10, <1>11 DEF AtDated, Reading
<1>13. ProgramTypeOK'
  BY <1>0 DEF ProgramTypeOK, Reading
<1> QED BY <1>0, <1>12, <1>13 DEF ProgramInv, LoadIsRight, Reading

LEMMA ShowCalendarSteps ==
  ASSUME ProgramInv, ShowCalendar
  PROVE  ProgramInv'
<1> DEFINE w == load.watched
           latest == [p \in w |-> LatestForecast(load.list[p], load.refusedAt[p])]
           dated == {p \in w : latest[p] # NoVersion}
           undated == Undated(w, load.list, latest)
           predicted == [p \in dated |-> latest[p]]
           unseen == {p \in undated : load.cycles[p] = 0}
<1>0. ProgramTypeOK /\ LoadIsRight /\ Reading /\ load.left = {} /\ (\A q \in Programs : knew[q] \subseteq revisions[q])
  BY DEF ProgramInv, ShowCalendar
<1>1. AtDated /\ w \subseteq Programs
  BY <1>0, StageOf DEF ShowCalendar, AtDated, CalendarDated
<1>2. load' = [kind |-> "calendar", at |-> "shown", watched |-> w, predicted |-> predicted,
                plan |-> load.plan, confirmed |-> load.confirmed, undated |-> undated, unseen |-> unseen]
  BY DEF ShowCalendar
<1>3. \A p \in w : latest[p] \in during[p]
  BY <1>0, <1>1 DEF AtDated, LatestForecast
<1>4. undated = w \ dated
  BY DEF Undated
<1>5. \A p \in w : (IF p \in DOMAIN predicted THEN predicted[p] ELSE NoVersion) \in during[p]
  BY <1>3
<1>6. DOMAIN predicted = dated /\ dated \subseteq w
  OBVIOUS
<1>7. unseen \cap load.confirmed = {}
  <2>1. \A p \in load.confirmed : load.cycles[p] > 0
    BY <1>0, <1>1 DEF AtDated
  <2> QED BY <2>1
<1> HIDE DEF latest, dated, undated, predicted, unseen
<1>8. /\ load'.kind = "calendar" /\ load'.at = "shown" /\ load'.watched = w /\ load'.predicted = predicted
      /\ load'.confirmed = load.confirmed /\ load'.undated = undated /\ load'.unseen = unseen
  BY <1>2
<1>9. AtCalendar'
  BY <1>0, <1>1, <1>4, <1>5, <1>6, <1>7, <1>8 DEF AtCalendar, Reading
<1>10. ProgramTypeOK'
  BY <1>0 DEF ProgramTypeOK, Reading
<1> QED BY <1>0, <1>9, <1>10 DEF ProgramInv, LoadIsRight, Reading

----------------------------------------------------------------------------

LEMMA ProgramStarts == ProgramsInit => ProgramInv
<1> SUFFICES ASSUME ProgramsInit PROVE ProgramInv
  OBVIOUS
<1>1. \A p \in Programs : Len(versions[p]) = 0 /\ versions[p] \in Seq(Version) /\ programs[p].refusedAt = 0
  BY DEF ProgramsInit
<1>2. knew = [p \in Programs |-> {}] /\ revisions = [p \in Programs |-> {}] /\ during = [p \in Programs |-> {0}]
  BY DEF ProgramsInit, NoVersion
<1>3. ProgramTypeOK
  <2>1. programs \in [Programs -> [listed : BOOLEAN, refusedAt : Nat]] /\ versions \in [Programs -> Seq(Version)]
    BY DEF ProgramsInit
  <2>2. openings \in [Programs -> Nat] /\ follows = {} /\ steps = {} /\ stamp = 0
    BY DEF ProgramsInit
  <2>3. \A p \in Programs : Len(versions[p]) <= MaxVersions /\ programs[p].refusedAt <= stamp
    BY <1>1, <2>2, PagesAssumption
  <2> QED BY <1>2, <2>1, <2>2, <2>3 DEF ProgramTypeOK
<1> QED BY <1>2, <1>3 DEF ProgramInv, LoadIsRight, ProgramsInit

LEMMA ProgramSteps == ProgramInv /\ [ProgramsNext]_programVars => ProgramInv'
<1> SUFFICES ASSUME ProgramInv, ProgramsNext \/ UNCHANGED programVars PROVE ProgramInv'
  OBVIOUS
<1>1. CASE WorldStep
  <2>1. WorldMoved
    BY <1>1, WorldMoves DEF ProgramInv
  <2>2. LoadIsRight'
    BY <2>1, WorldKeepsTheLoad DEF ProgramInv
  <2> QED BY <2>1, <2>2 DEF WorldMoved, ProgramInv
<1>2. CASE UNCHANGED programVars
  BY <1>2 DEF programVars, ProgramInv, ProgramTypeOK, LoadIsRight, AtRole, AtEvidence, AtDetails, AtShown, AtMissing, AtFollows,
     AtWatched, AtDated, AtCalendar, InSight
<1> QED BY <1>1, <1>2, PagesBegin, ProgramReads, DetailSteps, ShowProgramSteps, BuildSteps, CalendarStarts, DatedSteps, ShowCalendarSteps
        DEF ProgramsNext, WorldStep

LEMMA ProgramRight == ProgramsSpec => []ProgramInv
  BY ProgramStarts, ProgramSteps, PTL DEF ProgramsSpec

\* Whatever is stored, declined, withdrawn, recorded and followed between the reads
\* of a page: a window it shows was in force during the load, every watched program
\* is on the calendar or listed as undated, and no count contradicts a date.
THEOREM PagesStayTrue == ProgramsSpec => []PagesAgree
<1>1. ProgramInv => PagesAgree
  <2> SUFFICES ASSUME ProgramInv PROVE PagesAgree
    OBVIOUS
  <2>1. (Shows("program") => AtShown) /\ (Shows("calendar") => AtCalendar)
    BY StageOf DEF ProgramInv, Shows, IsProgram, IsCalendar
  <2> QED BY <2>1 DEF PagesAgree, WindowWasCurrent, WatchedIsAccountedFor, ReasonAgreesWithDates, MovesAreNoted,
             ReceiptsAreNeverBlank, AtShown, AtCalendar
<1> QED BY <1>1, ProgramRight, PTL

----------------------------------------------------------------------------
(***************************************************************************)
(* The roles list.                                                         *)
(***************************************************************************)

AllRoles == ToSet(Roles)

LEMMA RolesAreFinite ==
  /\ IsFiniteSet(AllRoles)
  /\ \A c \in SUBSET AllRoles : IsFiniteSet(c) /\ Cardinality(c) \in Nat
<1>1. DOMAIN Roles = 1..Len(Roles) /\ Len(Roles) \in Nat
  BY RolesAssumption
<1>2. IsFiniteSet(DOMAIN Roles)
  BY <1>1, FS_Interval
<1> DEFINE f == [i \in DOMAIN Roles |-> Roles[i]]
<1>3. f \in Surjection(DOMAIN Roles, AllRoles)
  BY Fun_IsSurj DEF AllRoles, ToSet
<1>4. IsFiniteSet(AllRoles)
  BY <1>2, <1>3, FS_Surjection
<1> QED BY <1>4, FS_Subset, FS_CardinalityType

IdOf(r) == CHOOSE i \in DOMAIN Roles : Roles[i] = r

LEMMA IdsDiffer ==
  /\ \A r \in AllRoles : IdOf(r) \in Int
  /\ \A p, q \in AllRoles : IdOf(p) = IdOf(q) => p = q
<1>1. \A r \in AllRoles : IdOf(r) \in DOMAIN Roles /\ Roles[IdOf(r)] = r
  BY DEF AllRoles, ToSet, IdOf
<1>2. DOMAIN Roles \subseteq Int
  BY RolesAssumption
<1> QED BY <1>1, <1>2

\* The keys a role is sorted by are eight numbers, the last its own.
LEMMA KeysAreNumbers ==
  ASSUME NEW sort, NEW r \in AllRoles
  PROVE  SortKey(sort, r) \in [1..8 -> Int] /\ SortKey(sort, r)[8] = IdOf(r)
<1>1. /\ Facts[r].company \in Int /\ Facts[r].days \in Int /\ Facts[r].score \in Int
      /\ Facts[r].history \in Int /\ Facts[r].events \in Int
  BY RolesAssumption DEF AllRoles
<1> DEFINE a == IF sort = "company" THEN Facts[r].company ELSE 0
           b == IF Facts[r].forecastable THEN 0 ELSE 1
           c == IF sort = "confidence" /\ Facts[r].forecastable THEN 100 - Facts[r].score ELSE 0
           h == IF sort = "evidence" /\ Facts[r].forecastable THEN 0 - Facts[r].history ELSE 0
           v == IF sort = "evidence" THEN 0 - Facts[r].events ELSE 0
           d == IF Facts[r].forecastable THEN Facts[r].days ELSE 0
           e == Facts[r].company
           g == IdOf(r)
<1>2. a \in Int /\ b \in Int /\ c \in Int /\ h \in Int /\ v \in Int /\ d \in Int /\ e \in Int /\ g \in Int
  BY <1>1, IdsDiffer
<1>3. SortKey(sort, r) = <<a, b, c, h, v, d, e, g>>
  BY DEF SortKey, IdOf
<1> HIDE DEF a, b, c, h, v, d, e, g
<1>4. <<a, b, c, h, v, d, e, g>> \in [1..8 -> Int] /\ <<a, b, c, h, v, d, e, g>>[8] = g
  BY <1>2
<1> QED BY <1>3, <1>4 DEF g

Less(a, b) == \E i \in 1..8 : a[i] < b[i] /\ \A j \in 1..8 : j < i => a[j] = b[j]

LEMMA LessOrders ==
  ASSUME NEW a \in [1..8 -> Int], NEW b \in [1..8 -> Int]
  PROVE  /\ ~Less(a, a) /\ ~(Less(a, b) /\ Less(b, a))
         /\ a[8] # b[8] => Less(a, b) \/ Less(b, a)
         /\ \A c \in [1..8 -> Int] : Less(a, b) /\ Less(b, c) => Less(a, c)
<1>1. ~Less(a, a)
  BY DEF Less
<1>2. ASSUME Less(a, b), Less(b, a) PROVE FALSE
  <2>1. PICK i \in 1..8 : a[i] < b[i] /\ \A j \in 1..8 : j < i => a[j] = b[j]
    BY <1>2 DEF Less
  <2>2. PICK k \in 1..8 : b[k] < a[k] /\ \A j \in 1..8 : j < k => b[j] = a[j]
    BY <1>2 DEF Less
  <2>3. i < k \/ k < i \/ i = k
    OBVIOUS
  <2> QED BY <2>1, <2>2, <2>3
<1>3. ASSUME a[8] # b[8] PROVE Less(a, b) \/ Less(b, a)
  <2>1. ASSUME NEW i \in 1..8, a[i] # b[i], \A j \in 1..8 : j < i => a[j] = b[j] PROVE Less(a, b) \/ Less(b, a)
    <3>1. a[i] < b[i] \/ b[i] < a[i]
      BY <2>1
    <3> QED BY <2>1, <3>1 DEF Less
  <2>2. \E i \in 1..8 : a[i] # b[i] /\ \A j \in 1..8 : j < i => a[j] = b[j]
    <3>1. CASE a[1] # b[1]
      BY <3>1
    <3>2. CASE a[1] = b[1] /\ a[2] # b[2]
      BY <3>2
    <3>3. CASE a[1] = b[1] /\ a[2] = b[2] /\ a[3] # b[3]
      BY <3>3
    <3>4. CASE a[1] = b[1] /\ a[2] = b[2] /\ a[3] = b[3] /\ a[4] # b[4]
      BY <3>4
    <3>5. CASE a[1] = b[1] /\ a[2] = b[2] /\ a[3] = b[3] /\ a[4] = b[4] /\ a[5] # b[5]
      BY <3>5
    <3>6. CASE a[1] = b[1] /\ a[2] = b[2] /\ a[3] = b[3] /\ a[4] = b[4] /\ a[5] = b[5] /\ a[6] # b[6]
      BY <3>6
    <3>7. CASE a[1] = b[1] /\ a[2] = b[2] /\ a[3] = b[3] /\ a[4] = b[4] /\ a[5] = b[5] /\ a[6] = b[6] /\ a[7] # b[7]
      BY <3>7
    <3>8. CASE a[1] = b[1] /\ a[2] = b[2] /\ a[3] = b[3] /\ a[4] = b[4] /\ a[5] = b[5] /\ a[6] = b[6] /\ a[7] = b[7]
      BY <1>3, <3>8
    <3> QED BY <3>1, <3>2, <3>3, <3>4, <3>5, <3>6, <3>7, <3>8
  <2> QED BY <2>1, <2>2
<1>4. ASSUME NEW c \in [1..8 -> Int], Less(a, b), Less(b, c) PROVE Less(a, c)
  <2>1. PICK i \in 1..8 : a[i] < b[i] /\ \A j \in 1..8 : j < i => a[j] = b[j]
    BY <1>4 DEF Less
  <2>2. PICK k \in 1..8 : b[k] < c[k] /\ \A j \in 1..8 : j < k => b[j] = c[j]
    BY <1>4 DEF Less
  <2>3. CASE i <= k
    <3>1. a[i] < c[i] /\ \A j \in 1..8 : j < i => a[j] = c[j]
      BY <2>1, <2>2, <2>3
    <3> QED BY <3>1 DEF Less
  <2>4. CASE k < i
    <3>1. a[k] < c[k] /\ \A j \in 1..8 : j < k => a[j] = c[j]
      BY <2>1, <2>2, <2>4
    <3> QED BY <3>1 DEF Less
  <2> QED BY <2>3, <2>4
<1> QED BY <1>1, <1>2, <1>3, <1>4

\* The sort leaves no ties.
LEMMA SortOrders ==
  ASSUME NEW sort
  PROVE  /\ \A p \in AllRoles : ~Before(sort, p, p)
         /\ \A p, q \in AllRoles : p # q => Before(sort, p, q) \/ Before(sort, q, p)
         /\ \A p, q, r \in AllRoles : Before(sort, p, q) /\ Before(sort, q, r) => Before(sort, p, r)
<1>1. \A p, q : Before(sort, p, q) <=> Less(SortKey(sort, p), SortKey(sort, q))
  BY DEF Before, Less
<1>2. \A p, q \in AllRoles : p # q => SortKey(sort, p)[8] # SortKey(sort, q)[8]
  BY KeysAreNumbers, IdsDiffer
<1> QED BY <1>1, <1>2, KeysAreNumbers, LessOrders

-----------------------------------------------------------------------------

LEMMA RankBounds ==
  ASSUME NEW sort, NEW S \in SUBSET AllRoles, NEW r \in S
  PROVE  RankIn(sort, S, r) \in 1..Cardinality(S)
<1> DEFINE A == {q \in S : Before(sort, q, r)}
<1>1. IsFiniteSet(S) /\ Cardinality(S) \in Nat
  BY RolesAreFinite
<1>2. IsFiniteSet(S \ {r}) /\ Cardinality(S \ {r}) = Cardinality(S) - 1
  BY <1>1, FS_RemoveElement
<1>3. A \in SUBSET (S \ {r})
  BY SortOrders
<1>4. Cardinality(A) \in Nat /\ Cardinality(A) <= Cardinality(S \ {r})
  BY <1>2, <1>3, FS_Subset, FS_CardinalityType
<1> QED BY <1>1, <1>2, <1>4 DEF RankIn

LEMMA RankFollowsSort ==
  ASSUME NEW sort, NEW S \in SUBSET AllRoles, NEW p \in S, NEW q \in S, Before(sort, p, q)
  PROVE  RankIn(sort, S, p) < RankIn(sort, S, q)
<1> DEFINE A == {r \in S : Before(sort, r, p)}
           B == {r \in S : Before(sort, r, q)}
<1>1. A \in SUBSET (B \ {p}) /\ p \in B
  BY SortOrders
<1>2. IsFiniteSet(B) /\ Cardinality(B) \in Nat
  BY RolesAreFinite
<1>3. IsFiniteSet(B \ {p}) /\ Cardinality(B \ {p}) = Cardinality(B) - 1
  BY <1>1, <1>2, FS_RemoveElement
<1>4. Cardinality(A) \in Nat /\ Cardinality(A) <= Cardinality(B \ {p})
  BY <1>1, <1>3, FS_Subset, FS_CardinalityType
<1> QED BY <1>2, <1>3, <1>4 DEF RankIn

LEMMA RanksDiffer ==
  ASSUME NEW sort, NEW S \in SUBSET AllRoles, NEW p \in S, NEW q \in S, RankIn(sort, S, p) = RankIn(sort, S, q)
  PROVE  p = q
<1>1. RankIn(sort, S, p) \in Int
  BY RankBounds
<1>2. ~Before(sort, p, q) /\ ~Before(sort, q, p)
  BY <1>1, RankFollowsSort
<1> QED BY <1>2, SortOrders

\* Every rank up to the number of roles is a role's.
LEMMA RanksAreTaken ==
  ASSUME NEW sort, NEW S \in SUBSET AllRoles, NEW n \in 1..Cardinality(S)
  PROVE  \E r \in S : RankIn(sort, S, r) = n
<1> DEFINE f == [r \in S |-> RankIn(sort, S, r)]
           T == 1..Cardinality(S)
<1>1. IsFiniteSet(S) /\ Cardinality(S) \in Nat
  BY RolesAreFinite
<1>2. f \in [S -> T]
  BY RankBounds
<1>3. \A p, q \in S : f[p] = f[q] => p = q
  BY RanksDiffer
<1> HIDE DEF f
<1>4. f \in Injection(S, T)
  BY <1>2, <1>3 DEF Injection, IsInjective
<1>5. IsFiniteSet(T) /\ Cardinality(T) = Cardinality(S)
  BY <1>1, FS_Interval
<1>6. f \in Surjection(S, T)
  BY <1>4, <1>5, FS_Injection
<1>7. \E r \in S : f[r] = n
  BY <1>6 DEF Surjection
<1> QED BY <1>7 DEF f

-----------------------------------------------------------------------------

LEMMA PartsOfTheList ==
  ASSUME NEW c \in SUBSET AllRoles, NEW u
  PROVE  /\ Matching(c, u) \in SUBSET AllRoles /\ ListedRoles(c, u) \in SUBSET Matching(c, u)
         /\ ListedRoles(c, u) \in SUBSET AllRoles
         /\ \A k : Peers(c, u, k) \in SUBSET AllRoles
         /\ \A r \in Matching(c, u) : r \in Peers(c, u, Facts[r].company)
  BY DEF Matching, ListedRoles, Peers

RowsOf(c, u) == {Row(c, u, r) : r \in Matching(c, u)}

LEMMA ShownIsAList ==
  ASSUME NEW c \in SUBSET AllRoles, NEW u
  PROVE  /\ Shown(c, u) \in Seq(RowsOf(c, u)) /\ Len(Shown(c, u)) = Cardinality(ListedRoles(c, u))
         /\ Len(Shown(c, u)) \in Nat
<1> DEFINE N == Cardinality(ListedRoles(c, u))
           L == [n \in 1..N |-> Row(c, u, CHOOSE r \in ListedRoles(c, u) : RankIn(u.sort, ListedRoles(c, u), r) = n)]
<1>1. N \in Nat
  BY PartsOfTheList, RolesAreFinite
<1>2. Shown(c, u) = L
  BY DEF Shown
<1>3. ASSUME NEW n \in 1..N PROVE L[n] \in RowsOf(c, u)
  <2> DEFINE r == CHOOSE q \in ListedRoles(c, u) : RankIn(u.sort, ListedRoles(c, u), q) = n
  <2>1. r \in ListedRoles(c, u)
    BY PartsOfTheList, RanksAreTaken
  <2>2. r \in Matching(c, u)
    BY <2>1, PartsOfTheList
  <2>3. L[n] = Row(c, u, r)
    OBVIOUS
  <2> QED BY <2>2, <2>3 DEF RowsOf
<1> HIDE DEF N
<1>4. L \in [1..N -> RowsOf(c, u)]
  BY <1>3
<1> HIDE DEF L
<1> QED BY <1>1, <1>2, <1>4, SeqDef, LenProperties DEF N

\* Counted by company or ranked one by one, the list is as long, and the rest is folded.
LEMMA CountsAddUpAlways ==
  ASSUME NEW c \in SUBSET AllRoles, NEW u
  PROVE  /\ Cardinality(Matching(c, u)) \in Nat
         /\ Summary(c, u).matching = Cardinality(Matching(c, u))
         /\ Summary(c, u).shown = Cardinality(ListedRoles(c, u))
         /\ Summary(c, u).matching = Summary(c, u).shown + Summary(c, u).collapsed
         /\ PerCompanyLimit(u) = 0 => ListedRoles(c, u) = Matching(c, u) /\ Summary(c, u).collapsed = 0
<1> DEFINE M == Matching(c, u)
           P == Places(c, u)
           D == ListedRoles(c, u)
           U == {p \in P : Unfolded(u, p[2])}
           F == {p \in P : ~Unfolded(u, p[2])}
           rank(r) == RankIn(u.sort, Peers(c, u, Facts[r].company), r)
           f == [r \in M |-> <<Facts[r].company, rank(r)>>]
<1>1. IsFiniteSet(M) /\ Cardinality(M) \in Nat /\ D \in SUBSET M /\ IsFiniteSet(D)
  BY PartsOfTheList, RolesAreFinite
<1>2. \A r \in M : f[r] \in P /\ (r \in D <=> Unfolded(u, f[r][2]))
  <2> TAKE r \in M
  <2>1. rank(r) \in 1..Cardinality(Peers(c, u, Facts[r].company))
    BY PartsOfTheList, RankBounds
  <2>2. Row(c, u, r).rank = rank(r)
    BY DEF Row
  <2>3. f[r] \in P
    BY <2>1 DEF Places
  <2>4. r \in D <=> Unfolded(u, rank(r))
    BY <2>2 DEF ListedRoles
  <2> QED BY <2>3, <2>4
<1>3. \A q, r \in M : f[q] = f[r] => q = r
  <2> SUFFICES ASSUME NEW q \in M, NEW r \in M, f[q] = f[r] PROVE q = r
    OBVIOUS
  <2>1. Facts[q].company = Facts[r].company /\ rank(q) = rank(r)
    OBVIOUS
  <2>2. q \in Peers(c, u, Facts[r].company) /\ r \in Peers(c, u, Facts[r].company)
    BY <2>1, PartsOfTheList
  <2> QED BY <2>1, <2>2, PartsOfTheList, RanksDiffer
<1>4. \A p \in P : \E r \in M : f[r] = p
  <2> TAKE p \in P
  <2>1. PICK k \in {Facts[r].company : r \in M} : p \in {<<k, n>> : n \in 1..Cardinality(Peers(c, u, k))}
    BY DEF Places
  <2>2. PICK n \in 1..Cardinality(Peers(c, u, k)) : p = <<k, n>>
    BY <2>1
  <2>3. PICK r \in Peers(c, u, k) : RankIn(u.sort, Peers(c, u, k), r) = n
    BY PartsOfTheList, RanksAreTaken
  <2>4. r \in M /\ Facts[r].company = k
    BY <2>3 DEF Peers
  <2> QED BY <2>2, <2>3, <2>4
<1> HIDE DEF f, P, M, D
<1>4a. DOMAIN f = M
  BY DEF f
<1>4b. f \in [M -> P]
  BY <1>2, <1>4a DEF f
<1>5. f \in Bijection(M, P)
  BY <1>3, <1>4, <1>4b DEF Bijection, Injection, Surjection, IsInjective
<1>6. IsFiniteSet(P) /\ Cardinality(P) = Cardinality(M)
  BY <1>1, <1>5, FS_Bijection DEF ExistsBijection
<1> DEFINE g == [r \in D |-> f[r]]
<1>7. g \in [D -> U] /\ (\A q, r \in D : g[q] = g[r] => q = r) /\ \A p \in U : \E r \in D : g[r] = p
  BY <1>1, <1>2, <1>3, <1>4
<1> HIDE DEF g, U
<1>8. g \in Bijection(D, U)
  BY <1>7 DEF Bijection, Injection, Surjection, IsInjective
<1>9. Cardinality(U) = Cardinality(D)
  BY <1>1, <1>8, FS_Bijection DEF ExistsBijection
<1>10. F = P \ U /\ U \subseteq P /\ P \cap U = U
  BY DEF U
<1> HIDE DEF F
<1>11. Cardinality(F) = Cardinality(P) - Cardinality(U)
  <2>1. Cardinality(P \ U) = Cardinality(P) - Cardinality(P \cap U)
    BY <1>6, FS_Difference
  <2> QED BY <1>10, <2>1
<1>12. Cardinality(D) \in Nat
  BY <1>1, FS_CardinalityType
<1>13. /\ Summary(c, u).matching = Cardinality(M) /\ Summary(c, u).shown = Cardinality(U)
       /\ Summary(c, u).collapsed = Cardinality(F)
  BY DEF Summary, M, P, U, F
<1>14. ASSUME PerCompanyLimit(u) = 0 PROVE D = M /\ Cardinality(F) = 0
  <2>1. \A n : Unfolded(u, n)
    BY <1>14 DEF Unfolded
  <2>2. D = M
    BY <1>1, <1>2, <2>1
  <2>3. F = {}
    BY <2>1 DEF F
  <2> QED BY <2>2, <2>3, FS_EmptySet
<1>15. Summary(c, u).matching = Summary(c, u).shown + Summary(c, u).collapsed
  BY <1>1, <1>6, <1>9, <1>11, <1>12, <1>13
<1> QED BY <1>1, <1>9, <1>13, <1>14, <1>15 DEF M, D

\* What is listed and how it is sorted is all the list depends on.
LEMMA SameList ==
  ASSUME NEW c, NEW u, NEW v, u.want = v.want, u.sort = v.sort
  PROVE  Matching(c, u) = Matching(c, v) /\ Shown(c, u) = Shown(c, v) /\ PerCompanyLimit(u) = PerCompanyLimit(v)
<1>1. Matching(c, u) = Matching(c, v)
  BY DEF Matching, MatchesAllBut, Matches
<1>2. PerCompanyLimit(u) = PerCompanyLimit(v)
  BY DEF PerCompanyLimit
<1>3. \A r : Row(c, u, r) = Row(c, v, r)
  BY <1>1 DEF Row, Peers
<1>4. ListedRoles(c, u) = ListedRoles(c, v)
  BY <1>1, <1>2, <1>3 DEF ListedRoles, Unfolded
<1> QED BY <1>1, <1>2, <1>3, <1>4 DEF Shown

-----------------------------------------------------------------------------

\* A view as the server reads it from a URL.
IsView(v) ==
  /\ v \in Urls /\ v.page >= 1
  /\ \A f \in Facets : v.want[f] \subseteq Values[f] /\ (f \in Withheld => v.want[f] = {})

LEMMA ChangedViews ==
  ASSUME NEW u, u = [want |-> u.want, sort |-> u.sort, page |-> u.page]
  PROVE  /\ \A w, p : [u EXCEPT !.want = w, !.page = p] = [want |-> w, sort |-> u.sort, page |-> p]
         /\ \A n : [u EXCEPT !.page = n] = [want |-> u.want, sort |-> u.sort, page |-> n]
         /\ \A f, vs, p : [u EXCEPT !.want[f] = vs, !.page = p]
                              = [want |-> [u.want EXCEPT ![f] = vs], sort |-> u.sort, page |-> p]
<1>1. \A w, p : [u EXCEPT !.want = w, !.page = p] = [[u EXCEPT !.want = w] EXCEPT !.page = p]
  OBVIOUS
<1>2. \A w : [u EXCEPT !.want = w] = [want |-> w, sort |-> u.sort, page |-> u.page]
  OBVIOUS
<1>3. \A w, p : [[want |-> w, sort |-> u.sort, page |-> u.page] EXCEPT !.page = p] = [want |-> w, sort |-> u.sort, page |-> p]
  OBVIOUS
<1>4. \A n : [u EXCEPT !.page = n] = [want |-> u.want, sort |-> u.sort, page |-> n]
  OBVIOUS
<1>5. \A w, p : [u EXCEPT !.want = w, !.page = p] = [want |-> w, sort |-> u.sort, page |-> p]
  BY <1>1, <1>2, <1>3
<1>6. \A f, vs, p : [u EXCEPT !.want[f] = vs, !.page = p] = [u EXCEPT !.want = [u.want EXCEPT ![f] = vs], !.page = p]
  OBVIOUS
<1> QED BY <1>4, <1>5, <1>6

Kept(f, vs) == IF f \in Withheld THEN {} ELSE vs \cap Values[f]

LEMMA ParsedIsAView ==
  ASSUME NEW W, NEW u \in [want : W, sort : Sorts, page : Int]
  PROVE  LET v == ParseDashboardFilters(u) IN
         /\ IsView(v)
         /\ v.want = [f \in Facets |-> Kept(f, u.want[f])]
         /\ v.sort = u.sort /\ v.page = IF u.page < 1 THEN 1 ELSE u.page
<1> DEFINE w == [f \in Facets |-> Kept(f, u.want[f])]
           p == IF u.page < 1 THEN 1 ELSE u.page
           v == [want |-> w, sort |-> u.sort, page |-> p]
<1>1. u = [want |-> u.want, sort |-> u.sort, page |-> u.page] /\ u.sort \in Sorts /\ u.page \in Int
  OBVIOUS
<1>2. w = [f \in Facets |-> IF f \in Withheld THEN {} ELSE u.want[f] \cap Values[f]]
  BY DEF Kept
<1>3. p \in Int /\ p >= 1
  BY <1>1
<1>4. w \in [Facets -> SUBSET UNION {Values[f] : f \in Facets}]
  BY DEF Kept
<1>5. \A f \in Facets : w[f] \subseteq Values[f] /\ (f \in Withheld => w[f] = {})
  BY DEF Kept
<1> HIDE DEF w, p
<1>6. [u EXCEPT !.want = w, !.page = p] = v
  BY <1>1, ChangedViews, Zenon
<1>7. ParseDashboardFilters(u) = [u EXCEPT !.want = w, !.page = p]
  BY <1>2 DEF ParseDashboardFilters, p
<1>8. v \in Urls /\ v.want = w /\ v.sort = u.sort /\ v.page = p
  BY <1>1, <1>3, <1>4 DEF Urls
<1> HIDE DEF v
<1>9. IsView(v)
  BY <1>3, <1>5, <1>8 DEF IsView
<1> QED BY <1>6, <1>7, <1>8, <1>9 DEF w, p

\* The links of a view.
LEMMA LinksOfAView ==
  ASSUME NEW u, IsView(u)
  PROVE  /\ \A f \in Facets : \A vs :
              /\ Href(u, f, vs) \in [want : {[u.want EXCEPT ![f] = vs]}, sort : Sorts, page : Int]
              /\ Href(u, f, vs).want = [u.want EXCEPT ![f] = vs] /\ Href(u, f, vs).sort = u.sort
         /\ \A n \in Int :
              /\ HrefPage(u, n) \in [want : {u.want}, sort : Sorts, page : Int]
              /\ HrefPage(u, n).want = u.want /\ HrefPage(u, n).sort = u.sort /\ HrefPage(u, n).page = n
<1>1. u = [want |-> u.want, sort |-> u.sort, page |-> u.page] /\ u.sort \in Sorts /\ u.page \in Int
  BY DEF IsView, Urls
<1>4. \A f, vs : Href(u, f, vs) = [want |-> [u.want EXCEPT ![f] = vs], sort |-> u.sort, page |-> 1]
  <2>1. \A f, vs, p : [u EXCEPT !.want[f] = vs, !.page = p]
                        = [want |-> [u.want EXCEPT ![f] = vs], sort |-> u.sort, page |-> p]
    BY <1>1, ChangedViews, Zenon
  <2> TAKE f, vs
  <2> DEFINE changed == [u EXCEPT !.want[f] = vs, !.page = 1]
  <2>2. changed = [want |-> [u.want EXCEPT ![f] = vs], sort |-> u.sort, page |-> 1]
    BY <2>1, Zenon
  <2>3. Href(u, f, vs) = changed
    BY Zenon DEF Href
  <2> HIDE DEF changed
  <2> QED BY <2>2, <2>3, Zenon
<1>5. \A n \in Int : HrefPage(u, n) = [want |-> u.want, sort |-> u.sort, page |-> n]
  BY <1>1, ChangedViews, Zenon DEF HrefPage
<1>6. \A f, vs : /\ Href(u, f, vs) \in [want : {[u.want EXCEPT ![f] = vs]}, sort : Sorts, page : Int]
                 /\ Href(u, f, vs).want = [u.want EXCEPT ![f] = vs] /\ Href(u, f, vs).sort = u.sort
  BY <1>1, <1>4
<1> QED BY <1>1, <1>5, <1>6

\* Without a filter the roles are as many as the summary counts without it.
LEMMA WithoutAFilter ==
  ASSUME NEW c, NEW u, IsView(u), NEW f \in Facets
  PROVE  Matching(c, ParseDashboardFilters(Href(u, f, {}))) = {r \in c : MatchesAllBut(r, u, {f})}
<1> DEFINE v == ParseDashboardFilters(Href(u, f, {}))
<1>1. u.want \in [Facets -> SUBSET UNION {Values[g] : g \in Facets}]
  BY DEF IsView, Urls
<1>2. v.want = [g \in Facets |-> Kept(g, [u.want EXCEPT ![f] = {}][g])]
  <2>1. Href(u, f, {}) \in [want : {[u.want EXCEPT ![f] = {}]}, sort : Sorts, page : Int]
        /\ Href(u, f, {}).want = [u.want EXCEPT ![f] = {}]
    BY LinksOfAView
  <2>2. v.want = [g \in Facets |-> Kept(g, Href(u, f, {}).want[g])]
    BY <2>1, ParsedIsAView
  <2> QED BY <2>1, <2>2
<1>3. \A g \in Facets : v.want[g] = IF g = f THEN {} ELSE u.want[g]
  BY <1>1, <1>2 DEF IsView, Kept
<1> HIDE DEF v
<1>4. \A r : MatchesAllBut(r, v, {}) <=> MatchesAllBut(r, u, {f})
  BY <1>3 DEF MatchesAllBut, Matches
<1> QED BY <1>4 DEF Matching, v

\* At a company, the roles are the ones the company's rows count, and none is folded.
LEMMA AtACompany ==
  ASSUME NEW c \in SUBSET AllRoles, NEW u, IsView(u), PerCompanyLimit(u) # 0, NEW r \in AllRoles
  PROVE  LET v == ParseDashboardFilters(Href(u, "company", {Facts[r].company})) IN
         Matching(c, v) = Peers(c, u, Facts[r].company) /\ PerCompanyLimit(v) = 0
<1> DEFINE k == Facts[r].company
           v == ParseDashboardFilters(Href(u, "company", {k}))
<1>1. u.want \in [Facets -> SUBSET UNION {Values[g] : g \in Facets}]
  BY DEF IsView, Urls
<1>2. /\ "company" \in Facets /\ "company" \notin Withheld /\ k \in Values["company"]
      /\ \A q \in AllRoles : Facts[q].meets["company"] = {Facts[q].company}
  BY RolesAssumption DEF AllRoles
<1>3. u.want["company"] = {}
  BY DEF PerCompanyLimit
<1> HIDE DEF k
<1>4. v.want = [g \in Facets |-> Kept(g, [u.want EXCEPT !["company"] = {k}][g])]
  <2> DEFINE h == Href(u, "company", {k})
  <2>0. \A g \in Facets : \A vs : Href(u, g, vs) \in [want : {[u.want EXCEPT ![g] = vs]}, sort : Sorts, page : Int]
                                   /\ Href(u, g, vs).want = [u.want EXCEPT ![g] = vs]
    BY LinksOfAView
  <2>1. h \in [want : {[u.want EXCEPT !["company"] = {k}]}, sort : Sorts, page : Int]
        /\ h.want = [u.want EXCEPT !["company"] = {k}]
    BY <1>2, <2>0, Zenon
  <2>2. v.want = [g \in Facets |-> Kept(g, h.want[g])]
    BY <2>1, ParsedIsAView
  <2> QED BY <2>1, <2>2
<1>5. \A g \in Facets : v.want[g] = IF g = "company" THEN {k} ELSE u.want[g]
  BY <1>1, <1>2, <1>4 DEF IsView, Kept
<1> HIDE DEF v
<1>6. \A q \in AllRoles : MatchesAllBut(q, v, {}) <=> MatchesAllBut(q, u, {}) /\ Facts[q].company = k
  BY <1>2, <1>3, <1>5 DEF MatchesAllBut, Matches
<1>7. PerCompanyLimit(v) = 0
  BY <1>2, <1>5 DEF PerCompanyLimit
<1>8. Matching(c, v) = Peers(c, u, k)
  BY <1>6 DEF Matching, Peers
<1> QED BY <1>7, <1>8 DEF v, k

-----------------------------------------------------------------------------

\* Where a page starts and ends in the list.
StartOf(u) == (u.page - 1) * PageSize
EndOf(c, u) == IF u.page * PageSize < Len(Shown(c, u)) THEN u.page * PageSize ELSE Len(Shown(c, u))

LEMMA PagesFollow ==
  ASSUME NEW n \in Nat \ {0}, NEW size \in Nat \ {0}
  PROVE  /\ n * size \in Nat /\ (n - 1) * size \in Nat /\ n * size = (n - 1) * size + size
         /\ ((n + 1) - 1) * size = n * size
<1>1. n * size \in Nat /\ (n - 1) * size \in Nat
  OBVIOUS
<1>2. (n - 1) * size = n * size - size
  OBVIOUS
<1> QED BY <1>1, <1>2

\* As many pages as the list needs: the last holds its last row, the one before does not.
PagesFor(n) == IF n <= PageSize THEN 1 ELSE (n + PageSize - 1) \div PageSize

LEMMA PagesForAreEnough ==
  ASSUME NEW n \in Nat
  PROVE  /\ PagesFor(n) \in Nat \ {0} /\ n <= PagesFor(n) * PageSize
         /\ \A m \in Nat : m + 1 <= PagesFor(n) /\ PagesFor(n) >= 2 => m * PageSize < n
<1>1. PageSize \in Nat \ {0}
  BY RolesAssumption
<1>2. CASE n <= PageSize
  <2>1. PagesFor(n) = 1
    BY <1>2 DEF PagesFor
  <2> QED BY <1>1, <1>2, <2>1
<1>3. CASE PageSize < n
  <2> DEFINE a == n + PageSize - 1
             q == a \div PageSize
  <2>1. a \in Nat /\ PagesFor(n) = q
    BY <1>1, <1>3 DEF PagesFor
  <2> HIDE DEF a
  <2>2. q \in Nat /\ q * PageSize <= a /\ a < q * PageSize + PageSize
    BY <1>1, <2>1
  <2> HIDE DEF q
  <2>3. q * PageSize <= n + PageSize - 1 /\ n <= q * PageSize
    BY <1>1, <2>1, <2>2 DEF a
  <2>4. q # 0
    BY <1>1, <1>3, <2>3
  <2>5. ASSUME NEW m \in Nat, m + 1 <= q PROVE m * PageSize < n
    <3>1. PICK d \in Nat : q = m + 1 + d
      BY <2>2, <2>5
    <3>2. q * PageSize = m * PageSize + PageSize + d * PageSize
      BY <1>1, <3>1
    <3>3. d * PageSize \in Nat /\ m * PageSize \in Nat
      BY <1>1
    <3> QED BY <1>1, <2>3, <3>2, <3>3
  <2> QED BY <2>1, <2>2, <2>3, <2>4, <2>5
<1> QED BY <1>1, <1>2, <1>3

-----------------------------------------------------------------------------

\* What makes the list keep its word, over steps.  Until something was collected, what
\* was read is what the corpus says of the view, a promise is what the view it leads to
\* will say, and the rows walked through are the list from its start to where the page
\* starts or, once its rows are read, ends.
OneRead(a) == a = Unread \/ a = [read |-> TRUE, is |-> a.is]
ThreeReads(g) ==
  /\ g = [rows |-> g.rows, summary |-> g.summary, choices |-> g.choices]
  /\ OneRead(g.rows) /\ OneRead(g.summary) /\ OneRead(g.choices)
RowsTold(c, u, g) == g.rows.read => g.rows.is = PageOf(c, u)
CountsTold(c, u, g) == g.summary.read => g.summary.is = Summary(c, u)
PromiseTold(c, u, p) ==
  p.any => Cardinality(Matching(c, u)) = p.roles /\ (p.all => PerCompanyLimit(u) = 0)
WalkedTo(c, u, w) == w # <<>> => u.page > 1 /\ StartOf(u) <= Len(Shown(c, u)) /\ w = SubSeq(Shown(c, u), 1, StartOf(u))
WalkedPast(c, u, w) == w # <<>> => w = SubSeq(Shown(c, u), 1, EndOf(c, u))
Walked(c, u, g, w) == IF g.rows.read THEN WalkedPast(c, u, w) ELSE WalkedTo(c, u, w)

RolesTyped == corpus \in SUBSET AllRoles /\ changes \in Nat /\ IsView(url) /\ ThreeReads(got)
NothingChanged ==
  changes = 0 => /\ RowsTold(corpus, url, got) /\ CountsTold(corpus, url, got)
                 /\ PromiseTold(corpus, url, promised) /\ Walked(corpus, url, got, walk)
RolesInv == RolesTyped /\ NothingChanged /\ CountsAddUp

AllUnread == [rows |-> Unread, summary |-> Unread, choices |-> Unread]

LEMMA UnreadIsTyped ==
  ThreeReads(AllUnread) /\ ~AllUnread.rows.read /\ ~AllUnread.summary.read /\ ~AllUnread.choices.read
<1>1. /\ AllUnread.rows = Unread /\ AllUnread.summary = Unread /\ AllUnread.choices = Unread
      /\ ~Unread.read
  BY DEF AllUnread, Unread
<1> QED BY <1>1 DEF ThreeReads, OneRead, AllUnread

LEMMA RolesInvStarts == RolesInit => RolesInv
<1> SUFFICES ASSUME RolesInit PROVE RolesInv
  OBVIOUS
<1>1. corpus \in SUBSET AllRoles /\ got = AllUnread /\ walk = <<>> /\ changes = 0 /\ promised = Nothing
  BY DEF RolesInit, AllRoles, AllUnread
<1>2. IsView(url)
  <2>1. PICK u \in Links : url = ParseDashboardFilters(u)
    BY DEF RolesInit
  <2>2. u \in [want : [Facets -> SUBSET UNION {Values[f] : f \in Facets}], sort : Sorts, page : Int]
    BY RolesAssumption DEF Urls
  <2> QED BY <2>1, <2>2, ParsedIsAView
<1>3. ~promised.any
  BY <1>1 DEF Nothing
<1>4. ~got.rows.read /\ ~got.summary.read /\ ThreeReads(got)
  BY <1>1, UnreadIsTyped
<1>5. NothingChanged
  BY <1>1, <1>3, <1>4 DEF NothingChanged, RowsTold, CountsTold, PromiseTold, Walked, WalkedTo
<1> QED BY <1>1, <1>2, <1>4, <1>5 DEF RolesInv, RolesTyped, CountsAddUp

\* A view asked for keeps the invariant when its link told the truth and, if the rows
\* walked through go with it, they are the list up to it.
LEMMA AskKeeps ==
  ASSUME RolesInv, NEW W, NEW u \in [want : W, sort : Sorts, page : Int], NEW p, NEW path, Ask(u, p, path),
         changes = 0 => /\ PromiseTold(corpus, ParseDashboardFilters(u), p)
                        /\ WalkedTo(corpus, ParseDashboardFilters(u), path)
  PROVE  RolesInv'
<1>1. /\ url' = ParseDashboardFilters(u) /\ got' = AllUnread /\ promised' = p /\ walk' = path
      /\ corpus' = corpus /\ changes' = changes
  BY DEF Ask, AllUnread
<1>2. IsView(url')
  BY <1>1, ParsedIsAView
<1>3. ~got'.rows.read /\ ~got'.summary.read /\ ThreeReads(got')
  BY <1>1, UnreadIsTyped
<1>4. RolesTyped'
  BY <1>1, <1>2, <1>3 DEF RolesInv, RolesTyped
<1>5. NothingChanged'
  BY <1>1, <1>3 DEF NothingChanged, RowsTold, CountsTold, Walked
<1>6. CountsAddUp'
  BY <1>3 DEF CountsAddUp
<1> QED BY <1>4, <1>5, <1>6 DEF RolesInv

LEMMA NoWalk == ASSUME NEW c, NEW u PROVE WalkedTo(c, u, <<>>) /\ PromiseTold(c, u, Nothing)
  BY DEF WalkedTo, PromiseTold, Nothing

LEMMA RolesIsAView == ASSUME RolesInv PROVE IsView(url) /\ url.want = [f \in Facets |-> url.want[f]] /\ url.page \in Nat \ {0} /\ url.sort \in Sorts
<1>1. IsView(url)
  BY DEF RolesInv, RolesTyped
<1>2. url.want \in [Facets -> SUBSET UNION {Values[f] : f \in Facets}] /\ url.page \in Int /\ url.page >= 1 /\ url.sort \in Sorts
  BY <1>1 DEF IsView, Urls
<1> QED BY <1>1, <1>2

LEMMA RemoveChipKeeps == ASSUME RolesInv, NEW f \in Facets, NEW v, RemoveChip(f, v) PROVE RolesInv'
<1> DEFINE u == Href(url, f, url.want[f] \ {v})
           W == {[url.want EXCEPT ![f] = url.want[f] \ {v}]}
<1>1. u \in [want : W, sort : Sorts, page : Int]
  BY RolesIsAView, LinksOfAView
<1>2. Ask(u, Nothing, <<>>)
  BY DEF RemoveChip
<1> HIDE DEF u, W
<1> QED BY <1>1, <1>2, AskKeeps, NoWalk

LEMMA ClearAllKeeps == ASSUME RolesInv, ClearAll PROVE RolesInv'
<1> DEFINE u == [DefaultFilters EXCEPT !.sort = url.sort]
<1>1. u = [want |-> NoFilter, sort |-> url.sort, page |-> 1]
  BY DEF DefaultFilters
<1>2. u \in [want : {NoFilter}, sort : Sorts, page : Int]
  BY <1>1, RolesIsAView
<1>3. Ask(u, Nothing, <<>>)
  BY DEF ClearAll
<1> HIDE DEF u
<1> QED BY <1>2, <1>3, AskKeeps, NoWalk

LEMMA BrowseAllKeeps == ASSUME RolesInv, BrowseAll PROVE RolesInv'
<1> DEFINE u == Href(url, "watched", {})
           W == {[url.want EXCEPT !["watched"] = {}]}
<1>1. "watched" \in Facets
  BY RolesAssumption
<1>2. u \in [want : W, sort : Sorts, page : Int]
  BY <1>1, RolesIsAView, LinksOfAView, Zenon
<1>3. Ask(u, Nothing, <<>>)
  BY DEF BrowseAll
<1> HIDE DEF u, W
<1> QED BY <1>2, <1>3, AskKeeps, NoWalk

LEMMA RelaxKeeps == ASSUME RolesInv, NEW f \in Facets, Relax(f) PROVE RolesInv'
<1> DEFINE u == Href(url, f, {})
           W == {[url.want EXCEPT ![f] = {}]}
           p == [any |-> TRUE, roles |-> Counts.without[f], all |-> FALSE]
<1>1. u \in [want : W, sort : Sorts, page : Int]
  BY RolesIsAView, LinksOfAView
<1>2. Ask(u, p, <<>>) /\ got.summary.read
  BY DEF Relax, Landed
<1>3. ASSUME changes = 0 PROVE PromiseTold(corpus, ParseDashboardFilters(u), p)
  <2>1. Counts = Summary(corpus, url)
    BY <1>2, <1>3 DEF RolesInv, NothingChanged, CountsTold, Counts
  <2>2. Counts.without[f] = Without(corpus, url, f)
    BY <2>1 DEF Summary
  <2>3. Matching(corpus, ParseDashboardFilters(u)) = {r \in corpus : MatchesAllBut(r, url, {f})}
    BY RolesIsAView, WithoutAFilter
  <2>4. p.roles = Counts.without[f] /\ ~p.all
    OBVIOUS
  <2> HIDE DEF u, p
  <2> QED BY <2>2, <2>3, <2>4 DEF PromiseTold, Without
<1> HIDE DEF u, W, p
<1> QED BY <1>1, <1>2, <1>3, AskKeeps, NoWalk

\* The rows of a page are rows of the list, each of a role.
LEMMA RowsOfAPage ==
  ASSUME NEW c \in SUBSET AllRoles, NEW u, u.page \in Nat \ {0}, NEW w \in ToSet(PageOf(c, u))
  PROVE  \E r \in Matching(c, u) : w = Row(c, u, r)
<1> DEFINE L == Shown(c, u)
           m == StartOf(u) + 1
           n == EndOf(c, u)
<1>1. L \in Seq(RowsOf(c, u)) /\ Len(L) \in Nat
  BY ShownIsAList
<1>2. StartOf(u) \in Nat /\ u.page * PageSize \in Nat
  BY PagesFollow, RolesAssumption DEF StartOf
<1>3. m \in Int /\ m >= 1 /\ n \in Int /\ n <= Len(L)
  BY <1>1, <1>2 DEF EndOf
<1>4. PageOf(c, u) = SubSeq(L, m, n)
  BY DEF PageOf, StartOf, EndOf
<1> HIDE DEF L, m, n
<1>5. \A i \in m..n : L[i] \in RowsOf(c, u)
  BY <1>1, <1>3, ElementOfSeq
<1>6. SubSeq(L, m, n) \in Seq(RowsOf(c, u))
  BY <1>3, <1>5, SubSeqProperties
<1>7. w \in RowsOf(c, u)
  BY <1>4, <1>6 DEF ToSet
<1> QED BY <1>7 DEF RowsOf

LEMMA ShowAllKeeps == ASSUME RolesInv, NEW w \in FoldLinks, ShowAll(w) PROVE RolesInv'
<1> DEFINE k == Facts[w.role].company
           u == Href(url, "company", {k})
           W == {[url.want EXCEPT !["company"] = {k}]}
           p == [any |-> TRUE, roles |-> w.total, all |-> TRUE]
<1>1. "company" \in Facets
  BY RolesAssumption
<1>2. u \in [want : W, sort : Sorts, page : Int]
  BY <1>1, RolesIsAView, LinksOfAView, Zenon
<1>3. Ask(u, p, <<>>) /\ got.rows.read
  BY DEF ShowAll, Landed
<1>4. ASSUME changes = 0 PROVE PromiseTold(corpus, ParseDashboardFilters(u), p)
  <2>1. Rows = PageOf(corpus, url)
    BY <1>3, <1>4 DEF RolesInv, NothingChanged, RowsTold, Rows
  <2>2. w \in ToSet(PageOf(corpus, url)) /\ PerCompanyLimit(url) > 0
    BY <2>1 DEF FoldLinks
  <2>3. corpus \in SUBSET AllRoles /\ url.page \in Nat \ {0} /\ IsView(url)
    BY RolesIsAView DEF RolesInv, RolesTyped
  <2>4. PICK r \in Matching(corpus, url) : w = Row(corpus, url, r)
    BY <2>2, <2>3, RowsOfAPage
  <2>5. w.role = r /\ w.total = Cardinality(Peers(corpus, url, Facts[r].company))
    BY <2>4 DEF Row
  <2>6. PerCompanyLimit(url) # 0 /\ r \in AllRoles
    BY <2>2, <2>3, <2>4 DEF Matching
  <2>7. /\ Matching(corpus, ParseDashboardFilters(u)) = Peers(corpus, url, Facts[r].company)
        /\ PerCompanyLimit(ParseDashboardFilters(u)) = 0
    BY <2>3, <2>5, <2>6, AtACompany
  <2>8. p.roles = w.total
    OBVIOUS
  <2> HIDE DEF u, p
  <2> QED BY <2>5, <2>7, <2>8 DEF PromiseTold
<1> HIDE DEF u, W, p
<1> QED BY <1>2, <1>3, <1>4, AskKeeps, NoWalk

LEMMA ListIsCounted ==
  ASSUME RolesInv, Landed, changes = 0
  PROVE  /\ Counts.shown = Len(Shown(corpus, url)) /\ Counts.shown \in Nat /\ PageCount = PagesFor(Counts.shown)
         /\ WalkedPast(corpus, url, walk) /\ corpus \in SUBSET AllRoles
<1>1. corpus \in SUBSET AllRoles /\ got.rows.read /\ got.summary.read
  BY DEF RolesInv, RolesTyped, Landed
<1>2. Counts = Summary(corpus, url) /\ WalkedPast(corpus, url, walk)
  BY <1>1 DEF RolesInv, NothingChanged, CountsTold, Counts, Walked
<1>3. Counts.shown = Cardinality(ListedRoles(corpus, url))
  BY <1>1, <1>2, CountsAddUpAlways
<1>4. Len(Shown(corpus, url)) = Cardinality(ListedRoles(corpus, url)) /\ Len(Shown(corpus, url)) \in Nat
  BY <1>1, ShownIsAList
<1> QED BY <1>1, <1>2, <1>3, <1>4 DEF PageCount, PagesFor

LEMMA GoToPageKeeps == ASSUME RolesInv, NEW n \in PageLinks, GoToPage(n) PROVE RolesInv'
<1> DEFINE u == HrefPage(url, n)
           path == IF n = 1 THEN <<>> ELSE IF n = url.page + 1 /\ walk # <<>> THEN walk ELSE <<>>
           v == ParseDashboardFilters(u)
<1>1. IsView(url) /\ url.page \in Nat \ {0} /\ url.want = [f \in Facets |-> url.want[f]]
  BY RolesIsAView
<1>2. n \in Int
  <2>1. n \in {1} \/ n \in 1..PageCount \/ n = url.page - 1
    BY DEF PageLinks
  <2> QED BY <1>1, <2>1
<1>3. u \in [want : {url.want}, sort : Sorts, page : Int] /\ u.want = url.want /\ u.sort = url.sort /\ u.page = n
  BY <1>1, <1>2, LinksOfAView
<1>4. Ask(u, Nothing, path) /\ Landed
  BY DEF GoToPage
<1>5. v.want = url.want /\ v.sort = url.sort /\ v.page = IF n < 1 THEN 1 ELSE n
  <2> HIDE DEF u
  <2>0. v.want = [f \in Facets |-> Kept(f, u.want[f])] /\ v.sort = u.sort /\ v.page = IF u.page < 1 THEN 1 ELSE u.page
    BY <1>3, ParsedIsAView
  <2> HIDE DEF v
  <2>1. v.want = [f \in Facets |-> Kept(f, url.want[f])] /\ v.sort = url.sort /\ v.page = IF n < 1 THEN 1 ELSE n
    BY <1>3, <2>0
  <2>2. \A f \in Facets : Kept(f, url.want[f]) = url.want[f]
    BY <1>1 DEF IsView, Kept
  <2> QED BY <1>1, <2>1, <2>2
<1>6. ASSUME changes = 0, path # <<>> PROVE WalkedTo(corpus, v, path)
  <2>1. n = url.page + 1 /\ path = walk /\ walk # <<>>
    BY <1>6
  <2> DEFINE L == Len(Shown(corpus, url))
  <2>2. PageCount = PagesFor(L) /\ L \in Nat /\ walk = SubSeq(Shown(corpus, url), 1, EndOf(corpus, url))
    BY <1>4, <1>6, <2>1, ListIsCounted DEF WalkedPast
  <2> HIDE DEF L
  <2>3. PageCount \in Nat /\ (PageCount >= 2 => \A m \in Nat : m + 1 <= PageCount => m * PageSize < L)
    BY <2>2, PagesForAreEnough
  <2> HIDE DEF PageCount
  <2>4. url.page * PageSize < L
    <3>1. PageCount >= 2 /\ n <= PageCount
      BY <1>1, <2>1, <2>3 DEF PageLinks
    <3> QED BY <1>1, <2>1, <2>3, <3>1
  <2>5. EndOf(corpus, url) = url.page * PageSize
    BY <2>4 DEF EndOf, L
  <2>6. v.page = url.page + 1 /\ v.page > 1
    BY <1>1, <1>5, <2>1
  <2>7. StartOf(v) = url.page * PageSize /\ url.page * PageSize \in Nat
    BY <1>1, <2>6, PagesFollow, RolesAssumption DEF StartOf
  <2>8. Shown(corpus, v) = Shown(corpus, url)
    BY <1>5, SameList
  <2> HIDE DEF v, path
  <2> QED BY <2>1, <2>2, <2>4, <2>5, <2>6, <2>7, <2>8 DEF WalkedTo, L
<1> HIDE DEF u, path
<1>7. ASSUME changes = 0 PROVE WalkedTo(corpus, v, path)
  <2>1. CASE path = <<>>
    BY <2>1, NoWalk
  <2> QED BY <1>6, <1>7, <2>1
<1> HIDE DEF v
<1>8. changes = 0 => PromiseTold(corpus, v, Nothing)
  BY NoWalk
<1> QED BY <1>3, <1>4, <1>7, <1>8, AskKeeps DEF v

LEMMA SubmitKeeps == ASSUME RolesInv, NEW f \in Facets, NEW vs, Submit(f, vs) PROVE RolesInv'
<1> DEFINE w == [g \in Facets |-> IF g = f THEN vs ELSE url.want[g] \cap Panel(g)]
           u == [want |-> w, sort |-> url.sort, page |-> 1]
<1>1. Ask(u, Nothing, <<>>)
  BY DEF Submit
<1> HIDE DEF w
<1>2. u \in [want : {w}, sort : Sorts, page : Int]
  BY RolesIsAView
<1> HIDE DEF u
<1> QED BY <1>1, <1>2, AskKeeps, NoWalk

LEMMA SortKeeps == ASSUME RolesInv, NEW s \in Sorts, Sort(s) PROVE RolesInv'
<1> DEFINE w == [g \in Facets |-> url.want[g] \cap Panel(g)]
           u == [want |-> w, sort |-> s, page |-> 1]
<1>1. Ask(u, Nothing, <<>>)
  BY DEF Sort
<1> HIDE DEF w
<1>2. u \in [want : {w}, sort : Sorts, page : Int]
  OBVIOUS
<1> HIDE DEF u
<1> QED BY <1>1, <1>2, AskKeeps, NoWalk

-----------------------------------------------------------------------------

\* The rows read, the walk goes on to the page's end.
LEMMA WalkGoesOn ==
  ASSUME NEW c \in SUBSET AllRoles, NEW u, u.page \in Nat \ {0}, NEW w, WalkedTo(c, u, w)
  PROVE  WalkedPast(c, u, IF u.page = 1 \/ w # <<>> THEN w \o PageOf(c, u) ELSE w)
<1> DEFINE L == Shown(c, u)
           m == StartOf(u)
           n == EndOf(c, u)
<1>1. L \in Seq(RowsOf(c, u)) /\ Len(L) \in Nat
  BY ShownIsAList
<1>2. m \in Nat /\ u.page * PageSize \in Nat /\ u.page * PageSize = m + PageSize /\ PageSize \in Nat \ {0}
  BY PagesFollow, RolesAssumption DEF StartOf
<1>3. PageOf(c, u) = SubSeq(L, m + 1, n)
  BY DEF PageOf, StartOf, EndOf
<1>4. n \in Int /\ n <= Len(L) /\ (m <= Len(L) => m <= n)
  BY <1>1, <1>2 DEF EndOf
<1>5. CASE w # <<>>
  <2>1. m <= Len(L) /\ w = SubSeq(L, 1, m)
    BY <1>5 DEF WalkedTo
  <2> HIDE DEF L, m, n
  <2>2. 1 \in 1..Len(L) + 1 /\ m \in 1 - 1..Len(L) /\ n \in m..Len(L)
    BY <1>1, <1>2, <1>4, <2>1
  <2>3. w \o PageOf(c, u) = SubSeq(L, 1, n)
    BY <1>1, <1>3, <2>1, <2>2, ConcatAdjacentSubSeq
  <2> QED BY <1>5, <2>3 DEF WalkedPast, L, n
<1>6. CASE w = <<>> /\ u.page = 1
  <2>1. m = 0
    BY <1>6, RolesAssumption DEF StartOf
  <2>2. n \in Nat
    BY <1>1, <1>2, <1>4, <2>1 DEF EndOf
  <2> HIDE DEF L, m, n
  <2>3. SubSeq(L, 1, n) \in Seq(RowsOf(c, u))
    BY <1>1, <1>4, <2>2, ElementOfSeq, SubSeqProperties
  <2>4. w \o PageOf(c, u) = SubSeq(L, 1, n)
    BY <1>3, <1>6, <2>1, <2>3, ConcatEmptySeq
  <2> QED BY <1>6, <2>4 DEF WalkedPast, L, n
<1>7. CASE w = <<>> /\ u.page # 1
  BY <1>7 DEF WalkedPast
<1> QED BY <1>5, <1>6, <1>7

LEMMA ReadIsTyped ==
  ASSUME NEW x
  PROVE  LET a == [read |-> TRUE, is |-> x] IN OneRead(a) /\ a.read /\ a.is = x
  BY DEF OneRead

LEMMA ReadsAreTyped ==
  ASSUME NEW g, ThreeReads(g), NEW a, OneRead(a)
  PROVE  /\ ThreeReads([g EXCEPT !.rows = a]) /\ [g EXCEPT !.rows = a].rows = a /\ [g EXCEPT !.rows = a].summary = g.summary
         /\ ThreeReads([g EXCEPT !.summary = a]) /\ [g EXCEPT !.summary = a].summary = a /\ [g EXCEPT !.summary = a].rows = g.rows
         /\ ThreeReads([g EXCEPT !.choices = a]) /\ [g EXCEPT !.choices = a].rows = g.rows /\ [g EXCEPT !.choices = a].summary = g.summary
<1>1. g = [rows |-> g.rows, summary |-> g.summary, choices |-> g.choices]
  BY DEF ThreeReads
<1>2. /\ [g EXCEPT !.rows = a] = [rows |-> a, summary |-> g.summary, choices |-> g.choices]
      /\ [g EXCEPT !.summary = a] = [rows |-> g.rows, summary |-> a, choices |-> g.choices]
      /\ [g EXCEPT !.choices = a] = [rows |-> g.rows, summary |-> g.summary, choices |-> a]
  BY <1>1
<1> QED BY <1>2 DEF ThreeReads

LEMMA ReadRowsKeeps == ASSUME RolesInv, ReadRows PROVE RolesInv'
<1> DEFINE x == PageOf(corpus, url)
           a == [read |-> TRUE, is |-> x]
<1>1. ThreeReads(got) /\ corpus \in SUBSET AllRoles /\ url.page \in Nat \ {0} /\ ~got.rows.read
  BY RolesIsAView DEF RolesInv, RolesTyped, ReadRows
<1>2. /\ got' = [got EXCEPT !.rows = a]
      /\ walk' = IF url.page = 1 \/ walk # <<>> THEN walk \o PageOf(corpus, url) ELSE walk
      /\ corpus' = corpus /\ url' = url /\ promised' = promised /\ changes' = changes
  BY DEF ReadRows
<1>3. ThreeReads(got') /\ got'.rows.read /\ got'.rows.is = x /\ got'.summary = got.summary
  <2>1. OneRead(a) /\ a.read /\ a.is = x
    BY ReadIsTyped
  <2> HIDE DEF x, a
  <2> DEFINE g == [got EXCEPT !.rows = a]
  <2>2. ThreeReads(g) /\ g.rows = a /\ g.summary = got.summary
    <3>1. ThreeReads(got) /\ OneRead(a)
      BY <1>1, <2>1
    <3> QED BY <3>1, ReadsAreTyped
  <2>3. got' = g
    BY <1>2
  <2> HIDE DEF g
  <2> QED BY <2>1, <2>2, <2>3
<1> HIDE DEF x, a
<1>4. RolesTyped' /\ CountsAddUp'
  BY <1>2, <1>3 DEF RolesInv, RolesTyped, CountsAddUp, Counts
<1>5. ASSUME changes = 0 PROVE Walked(corpus, url, got', walk')
  <2>1. WalkedTo(corpus, url, walk)
    BY <1>1, <1>5 DEF RolesInv, NothingChanged, Walked
  <2>2. WalkedPast(corpus, url, walk')
    BY <1>1, <1>2, <2>1, WalkGoesOn
  <2> QED BY <1>3, <2>2 DEF Walked
<1>6. NothingChanged'
  BY <1>2, <1>3, <1>5 DEF RolesInv, NothingChanged, RowsTold, CountsTold, x
<1> QED BY <1>4, <1>6 DEF RolesInv

LEMMA ReadSummaryKeeps == ASSUME RolesInv, ReadSummary PROVE RolesInv'
<1> DEFINE x == Summary(corpus, url)
           a == [read |-> TRUE, is |-> x]
<1>1. ThreeReads(got) /\ corpus \in SUBSET AllRoles
  BY DEF RolesInv, RolesTyped
<1>2. /\ got' = [got EXCEPT !.summary = a]
      /\ walk' = walk /\ corpus' = corpus /\ url' = url /\ promised' = promised /\ changes' = changes
  BY DEF ReadSummary
<1>3. x.matching = x.shown + x.collapsed
  BY <1>1, CountsAddUpAlways
<1>4. ThreeReads(got') /\ got'.summary.read /\ got'.summary.is = x /\ got'.rows = got.rows
  <2>1. OneRead(a) /\ a.read /\ a.is = x
    BY ReadIsTyped
  <2> HIDE DEF x, a
  <2> DEFINE g == [got EXCEPT !.summary = a]
  <2>2. ThreeReads(g) /\ g.summary = a /\ g.rows = got.rows
    BY <1>1, <2>1, ReadsAreTyped
  <2>3. got' = g
    BY <1>2
  <2> HIDE DEF g
  <2> QED BY <2>1, <2>2, <2>3
<1> HIDE DEF x, a
<1>5. RolesTyped' /\ CountsAddUp'
  BY <1>2, <1>3, <1>4 DEF RolesInv, RolesTyped, CountsAddUp, Counts
<1>6. NothingChanged'
  BY <1>2, <1>4 DEF RolesInv, NothingChanged, RowsTold, CountsTold, Walked, x
<1> QED BY <1>5, <1>6 DEF RolesInv

LEMMA ReadChoicesKeeps == ASSUME RolesInv, ReadChoices PROVE RolesInv'
<1> DEFINE x == Options(corpus)
           a == [read |-> TRUE, is |-> x]
<1>1. ThreeReads(got)
  BY DEF RolesInv, RolesTyped
<1>2. /\ got' = [got EXCEPT !.choices = a]
      /\ walk' = walk /\ corpus' = corpus /\ url' = url /\ promised' = promised /\ changes' = changes
  BY DEF ReadChoices
<1>3. ThreeReads(got') /\ got'.rows = got.rows /\ got'.summary = got.summary
  <2>1. OneRead(a)
    BY ReadIsTyped
  <2> HIDE DEF x, a
  <2> QED BY <1>1, <1>2, <2>1, ReadsAreTyped
<1> HIDE DEF x, a
<1>4. RolesTyped' /\ CountsAddUp'
  BY <1>2, <1>3 DEF RolesInv, RolesTyped, CountsAddUp, Counts
<1>5. NothingChanged'
  BY <1>2, <1>3 DEF RolesInv, NothingChanged, RowsTold, CountsTold, Walked
<1> QED BY <1>4, <1>5 DEF RolesInv

LEMMA CollectKeeps == ASSUME RolesInv, NEW r \in AllRoles, Collect(r) PROVE RolesInv'
<1>1. corpus \in SUBSET AllRoles /\ changes \in Nat
  BY DEF RolesInv, RolesTyped
<1>2. corpus' \in SUBSET AllRoles /\ changes' = changes + 1 /\ url' = url /\ got' = got
  BY <1>1 DEF Collect
<1>3. changes' \in Nat /\ changes' # 0
  BY <1>1, <1>2
<1> QED BY <1>2, <1>3 DEF RolesInv, RolesTyped, NothingChanged, CountsAddUp, Counts

LEMMA RolesStep == ASSUME RolesInv, RolesNext PROVE RolesInv'
<1>1. CASE ReadRows
  BY <1>1, ReadRowsKeeps
<1>2. CASE ReadSummary
  BY <1>2, ReadSummaryKeeps
<1>3. CASE ReadChoices
  BY <1>3, ReadChoicesKeeps
<1>4. ASSUME NEW f \in Facets, Relax(f) PROVE RolesInv'
  BY <1>4, RelaxKeeps
<1>5. ASSUME NEW f \in Facets, NEW v, RemoveChip(f, v) PROVE RolesInv'
  BY <1>5, RemoveChipKeeps
<1>6. ASSUME NEW f \in Facets, NEW vs, Submit(f, vs) PROVE RolesInv'
  BY <1>6, SubmitKeeps
<1>7. ASSUME NEW w \in FoldLinks, ShowAll(w) PROVE RolesInv'
  BY <1>7, ShowAllKeeps
<1>8. ASSUME NEW n \in PageLinks, GoToPage(n) PROVE RolesInv'
  BY <1>8, GoToPageKeeps
<1>9. ASSUME NEW s \in Sorts, Sort(s) PROVE RolesInv'
  BY <1>9, SortKeeps
<1>10. CASE ClearAll
  BY <1>10, ClearAllKeeps
<1>11. CASE BrowseAll
  BY <1>11, BrowseAllKeeps
<1>12. ASSUME NEW r \in AllRoles, Collect(r) PROVE RolesInv'
  BY <1>12, CollectKeeps
<1> QED BY <1>1, <1>2, <1>3, <1>4, <1>5, <1>6, <1>7, <1>8, <1>9, <1>10, <1>11, <1>12 DEF RolesNext, AllRoles

LEMMA RolesInvKeepsItsWord == ASSUME RolesInv PROVE ListKeepsItsWord
<1>1. corpus \in SUBSET AllRoles /\ url.page \in Nat \ {0}
  BY RolesIsAView DEF RolesInv, RolesTyped
<1>2. ASSUME changes = 0, promised.any, Landed
      PROVE  Counts.matching = promised.roles /\ (promised.all => Counts.shown = promised.roles /\ Counts.collapsed = 0)
  <2>1. Counts = Summary(corpus, url) /\ PromiseTold(corpus, url, promised)
    BY <1>2 DEF RolesInv, NothingChanged, CountsTold, Counts, Landed
  <2> QED BY <1>1, <1>2, <2>1, CountsAddUpAlways DEF PromiseTold
<1>3. ASSUME changes = 0, Landed, walk # <<>>, url.page = PageCount PROVE walk = Shown(corpus, url)
  <2> DEFINE L == Shown(corpus, url)
  <2>1. /\ walk = SubSeq(L, 1, EndOf(corpus, url)) /\ PageCount = PagesFor(Len(L)) /\ Len(L) \in Nat
    BY <1>3, ListIsCounted DEF WalkedPast
  <2>2. Len(L) <= PagesFor(Len(L)) * PageSize
    BY <2>1, PagesForAreEnough
  <2>3. url.page * PageSize \in Nat
    BY <1>1, RolesAssumption
  <2>4. EndOf(corpus, url) = Len(L)
    BY <1>3, <2>1, <2>2, <2>3 DEF EndOf
  <2>5. L \in Seq(RowsOf(corpus, url))
    BY <1>1, ShownIsAList
  <2> HIDE DEF L
  <2> QED BY <2>1, <2>4, <2>5, SubSeqFull DEF L
<1>4. CountsAddUp
  BY DEF RolesInv
<1> QED BY <1>2, <1>3, <1>4 DEF ListKeepsItsWord, PromiseKept, EveryRowOnce

\* The roles list keeps its word, whatever the roles, filters, sizes of a page and of a
\* company's part: what a link says is what its view shows, page after page shows each
\* row once, and the counts add up.
THEOREM ListsKeepTheirWord == RolesSpec => []ListKeepsItsWord
<1>1. RolesInit => RolesInv
  BY RolesInvStarts
<1>2. RolesInv /\ [RolesNext]_rolesVars => RolesInv'
  <2>1. ASSUME RolesInv, UNCHANGED rolesVars PROVE RolesInv'
    BY <2>1 DEF rolesVars, RolesInv, RolesTyped, NothingChanged, CountsAddUp, Counts
  <2> QED BY <2>1, RolesStep
<1>3. RolesInv => ListKeepsItsWord
  BY RolesInvKeepsItsWord
<1> QED BY <1>1, <1>2, <1>3, PTL DEF RolesSpec

============================================================================
