---------------------- MODULE SourceIngestionProofs ----------------------
(***************************************************************************)
(* Passes over a source implement the store's promise (ObservationStore),  *)
(* and no posting of a completely fetched document is lost, for any        *)
(* postings, contents, number of passes and of failures.                   *)
(*                                                                         *)
(* The invariant says what a pass knows. While it writes, every posting it *)
(* extracted is stored as extracted, or waits in the batch of its kind, or *)
(* waits to be replayed; nothing waits twice. Past its writes, all of them *)
(* are stored, or the document is the one remembered and all rows were     *)
(* touched. And every posting of the remembered document has a row.        *)
(***************************************************************************)
EXTENDS SourceIngestion, TLAPS

Recording == {"audit", "fetch", "source"}
Writing == {"write", "replay"}

RowsInv ==
    \A p \in Postings :
        /\ rows[p] = NoJob \/ (rows[p].content \in Contents /\ rows[p].first > 0)
        /\ rows[p].last <= clock

StageInv ==
    pc # "idle" =>
        /\ pass.complete => pass.missed = {}
        /\ pass.unchanged => pass.complete /\ hash = Fetched /\ pc \in {"touch"} \cup Recording
        /\ pc = "touch" => pass.unchanged

Done(p) == rows[p] # NoJob /\ rows[p].content = Seen[p] /\ rows[p].last = at

WaitingInv ==
    pc \in Writing => \A p \in Postings :
        /\ \A kind \in Kinds : p \in pass.todo[kind] =>
              p \in Listed(Seen) /\ KindOf(p, rows) = kind /\ p \notin pass.replay
        /\ p \in pass.replay => p \in Listed(Seen)
        /\ p \in Listed(Seen) => Done(p) \/ p \in pass.replay \/ \E kind \in Kinds : p \in pass.todo[kind]

StoredInv ==
    pc \in Recording =>
        IF pass.unchanged THEN \A p \in Postings : rows[p] = NoJob \/ rows[p].last = at
                          ELSE \A p \in Listed(Seen) : Done(p)

HashInv == hash \in Documents => \A p \in Listed(hash) : rows[p] # NoJob

FetchInv == fetch.at <= clock /\ (fetch.complete => fetch.at > 0) /\ NothingOnPageIsLost

IInv == TypeOK /\ RowsInv /\ StageInv /\ WaitingInv /\ StoredInv /\ HashInv /\ FetchInv

-----------------------------------------------------------------------------
(* What the definitions of the store come to. *)

LEMMA NoJobIs ==
    NoJob = [content |-> None, first |-> 0, last |-> 0] /\ NoJob = Store!NoJob
BY DEF NoJob, Store!NoJob

LEMMA DocumentsAre == Documents = [Postings -> Contents \cup {None}]
BY DEF Documents, Store!Documents

LEMMA ListedIs == ASSUME NEW d PROVE Listed(d) = {p \in Postings : d[p] # None}
BY DEF Listed, Store!Listed

LEMMA UpsertedIs ==
    ASSUME NEW job, NEW content, NEW t
    PROVE  Store!Upserted(job, content, t) =
               [content |-> content, first |-> IF job = NoJob THEN t ELSE job.first, last |-> t]
BY DEF Store!Upserted, NoJob

LEMMA NumberTypes == MaxPasses \in Nat /\ MaxFaults \in Nat
BY IngestionConstants

\* What a pass extracted is a document, and what it lists has a content.
LEMMA SeenType ==
    ASSUME TypeOK, pc # "idle"
    PROVE  /\ Fetched \in Documents /\ Seen \in Documents
           /\ \A p \in Listed(Seen) : p \in Postings /\ Seen[p] \in Contents
           /\ clock \in 1..MaxPasses /\ clock \in Nat
<1>1. clock \in 1..MaxPasses /\ clock \in Nat
  BY NumberTypes DEF TypeOK, Times
<1>2. Fetched \in Documents
  BY <1>1 DEF Fetched, TypeOK
<1>3. Seen \in Documents
  BY <1>2, DocumentsAre DEF Seen
<1>4. \A p \in Listed(Seen) : p \in Postings /\ Seen[p] \in Contents
  BY <1>3, DocumentsAre, ListedIs
<1> QED BY <1>1, <1>2, <1>3, <1>4

\* A row written for a posting by its kind is what upsert_job's dedupe makes of it.
LEMMA RowIsUpserted ==
    ASSUME TypeOK, pc # "idle", NEW p \in Listed(Seen)
    PROVE  RowOf(KindOf(p, rows), p) = Store!Upserted(rows[p], Seen[p], at)
<1>1. rows[p] \in Rows /\ p \in Postings
  BY SeenType DEF TypeOK
<1>2. CASE rows[p] = NoJob
  <2>1. KindOf(p, rows) = "created"
    BY <1>2, NoJobIs, SeenType, IngestionConstants DEF KindOf
  <2>2. RowOf(KindOf(p, rows), p) = Payload(p)
    BY <2>1 DEF RowOf
  <2> QED BY <1>2, <2>2, UpsertedIs DEF Payload
<1>3. CASE rows[p] # NoJob /\ rows[p].content = Seen[p]
  <2>1. RowOf(KindOf(p, rows), p) = [rows[p] EXCEPT !.last = at]
    BY <1>3 DEF RowOf, KindOf
  <2>2. [rows[p] EXCEPT !.last = at] = [content |-> Seen[p], first |-> rows[p].first, last |-> at]
    BY <1>1, <1>3 DEF Rows
  <2> QED BY <1>3, <2>1, <2>2, UpsertedIs
<1>4. CASE rows[p] # NoJob /\ rows[p].content # Seen[p]
  <2>1. RowOf(KindOf(p, rows), p) = [Payload(p) EXCEPT !.first = rows[p].first]
    BY <1>4 DEF RowOf, KindOf
  <2> QED BY <1>4, <2>1, UpsertedIs DEF Payload
<1> QED BY <1>2, <1>3, <1>4

Upserting(some) ==
    rows' = [p \in Postings |-> IF p \in some THEN Store!Upserted(rows[p], Seen[p], at) ELSE rows[p]]

\* A request holds postings of one kind.
LEMMA ChunkIsOfItsKind ==
    ASSUME IInv, pc = "write", NEW chunk \in Chunks
    PROVE  /\ Current(pass.todo) \in Kinds
           /\ chunk # {} /\ chunk \subseteq pass.todo[Current(pass.todo)]
           /\ chunk \subseteq Listed(Seen)
           /\ \A p \in chunk : KindOf(p, rows) = Current(pass.todo)
<1>1. Current(pass.todo) \in Kinds
  BY DEF Current, Kinds
<1>2. chunk # {} /\ chunk \subseteq pass.todo[Current(pass.todo)]
  BY DEF Chunks
<1>3. pass.todo[Current(pass.todo)] \subseteq Postings
  BY <1>1 DEF IInv, TypeOK, Locals
<1> QED BY <1>1, <1>2, <1>3 DEF IInv, WaitingInv, Writing

LEMMA WrittenIsUpserted ==
    ASSUME IInv, pc # "idle", NEW kind, NEW some, some \subseteq Listed(Seen),
           \A p \in some : KindOf(p, rows) = kind
    PROVE  Written(kind, some) =
               [p \in Postings |-> IF p \in some THEN Store!Upserted(rows[p], Seen[p], at) ELSE rows[p]]
<1>1. \A p \in some : RowOf(kind, p) = Store!Upserted(rows[p], Seen[p], at)
  BY RowIsUpserted DEF IInv
<1> QED BY <1>1 DEF Written

-----------------------------------------------------------------------------
(* What writing rows keeps. *)

LEMMA UpsertKeeps ==
    ASSUME IInv, pc # "idle", NEW some, some \subseteq Listed(Seen), Upserting(some),
           UNCHANGED <<hash, clock, pages, fetch>>
    PROVE  /\ rows' \in [Postings -> Rows]
           /\ RowsInv' /\ HashInv' /\ FetchInv'
           /\ \A p \in some : rows'[p] # NoJob /\ rows'[p].content = Seen[p] /\ rows'[p].last = clock
           /\ \A p \in Postings \ some : rows'[p] = rows[p]
<1>1. clock \in Times /\ clock \in Nat /\ clock > 0
  BY SeenType, NumberTypes DEF IInv, Times
<1>2. \A p \in some : /\ p \in Postings /\ Seen[p] \in Contents
                      /\ rows'[p] = [content |-> Seen[p],
                                     first |-> IF rows[p] = NoJob THEN clock ELSE rows[p].first,
                                     last |-> clock]
  BY SeenType, UpsertedIs DEF IInv, Upserting, at
<1>3. \A p \in Postings \ some : rows'[p] = rows[p]
  BY DEF Upserting
<1>4. \A p \in Postings : rows[p] \in Rows
  BY DEF IInv, TypeOK
<1>5. \A p \in some : /\ rows'[p] \in Rows /\ rows'[p] # NoJob /\ rows'[p].content = Seen[p]
                      /\ rows'[p].content \in Contents /\ rows'[p].first > 0 /\ rows'[p].last = clock
  <2> SUFFICES ASSUME NEW p \in some
               PROVE  /\ rows'[p] \in Rows /\ rows'[p] # NoJob /\ rows'[p].content = Seen[p]
                      /\ rows'[p].content \in Contents /\ rows'[p].first > 0 /\ rows'[p].last = clock
    OBVIOUS
  <2> DEFINE begun == IF rows[p] = NoJob THEN clock ELSE rows[p].first
  <2>1. /\ p \in Postings /\ Seen[p] \in Contents
        /\ rows'[p] = [content |-> Seen[p], first |-> begun, last |-> clock]
    BY <1>2
  <2>2. begun \in Times /\ begun > 0
    BY <1>1, <1>4, <2>1 DEF IInv, RowsInv, Rows
  <2> HIDE DEF begun
  <2>3. rows'[p].content = Seen[p] /\ rows'[p].first = begun /\ rows'[p].last = clock
    BY <2>1
  <2>4. rows'[p] \in Rows
    BY <1>1, <2>1, <2>2 DEF Rows
  <2>5. rows'[p] # NoJob
    BY <2>1, <2>3, NoJobIs, IngestionConstants
  <2> QED BY <2>1, <2>2, <2>3, <2>4, <2>5
<1>6. rows' \in [Postings -> Rows]
  BY <1>3, <1>4, <1>5 DEF Upserting
<1>7. RowsInv'
  BY <1>1, <1>3, <1>5, NoJobIs DEF IInv, RowsInv, NoJob, Store!NoJob
<1>8. HashInv'
  BY <1>3, <1>5 DEF IInv, HashInv, NoJob, Store!NoJob, Documents, Store!Documents, Listed, Store!Listed
<1>9. \A p \in Postings : rows[p].last <= clock /\ fetch.at \in Nat /\ fetch.at <= clock
  BY <1>1, NumberTypes DEF IInv, RowsInv, FetchInv, TypeOK, Times
<1>10. FetchInv'
  BY <1>1, <1>3, <1>5, <1>9
     DEF IInv, FetchInv, NothingOnPageIsLost, NoJob, Store!NoJob, Listed, Store!Listed
<1> QED BY <1>3, <1>5, <1>6, <1>7, <1>8, <1>10

LEMMA TouchKeeps ==
    ASSUME IInv, pc # "idle", rows' = Touched, UNCHANGED <<hash, clock, pages, fetch>>
    PROVE  /\ rows' \in [Postings -> Rows]
           /\ RowsInv' /\ HashInv' /\ FetchInv'
           /\ \A p \in Postings : rows'[p] = NoJob \/ rows'[p].last = clock
           /\ \A p \in Postings : rows[p] # NoJob => rows'[p] # NoJob
<1>1. clock \in Times /\ clock \in Nat /\ clock > 0
  BY SeenType, NumberTypes DEF IInv, Times
<1>2. \A p \in Postings : rows[p] \in Rows
  BY DEF IInv, TypeOK
<1>3. \A p \in Postings : rows[p] = NoJob => rows'[p] = NoJob
  BY DEF Touched
<1>4. \A p \in Postings : rows[p] # NoJob =>
          /\ rows'[p] \in Rows /\ rows'[p] # NoJob
          /\ rows'[p].content \in Contents /\ rows'[p].first > 0 /\ rows'[p].last = clock
  <2> SUFFICES ASSUME NEW p \in Postings, rows[p] # NoJob
               PROVE  /\ rows'[p] \in Rows /\ rows'[p] # NoJob
                      /\ rows'[p].content \in Contents /\ rows'[p].first > 0 /\ rows'[p].last = clock
    OBVIOUS
  <2>1. rows'[p] = [rows[p] EXCEPT !.last = clock]
    BY DEF Touched, at
  <2>2. rows[p].content \in Contents /\ rows[p].first > 0
    BY DEF IInv, RowsInv
  <2>3. /\ rows'[p] \in Rows /\ rows'[p].content = rows[p].content
        /\ rows'[p].first = rows[p].first /\ rows'[p].last = clock
    BY <1>1, <1>2, <2>1 DEF Rows
  <2>4. rows'[p] # NoJob
    BY <2>2, <2>3, NoJobIs, IngestionConstants
  <2> QED BY <2>2, <2>3, <2>4
<1>5. rows' \in [Postings -> Rows]
  BY <1>2, <1>3, <1>4 DEF Touched
<1>6. \A p \in Postings : rows[p].last <= clock /\ fetch.at \in Nat /\ fetch.at <= clock
  BY <1>1, NumberTypes DEF IInv, RowsInv, FetchInv, TypeOK, Times
<1>7. RowsInv'
  BY <1>1, <1>3, <1>4, <1>6, NoJobIs DEF RowsInv, NoJob, Store!NoJob
<1>8. HashInv'
  BY <1>4 DEF IInv, HashInv, NoJob, Store!NoJob, Documents, Store!Documents, Listed, Store!Listed
<1>9. FetchInv'
  BY <1>1, <1>4, <1>6
     DEF IInv, FetchInv, NothingOnPageIsLost, NoJob, Store!NoJob, Listed, Store!Listed
<1> QED BY <1>3, <1>4, <1>5, <1>7, <1>8, <1>9

\* Nothing is written, but for the newest fetch perhaps.
LEMMA SameRowsKeep ==
    ASSUME IInv, UNCHANGED <<rows, hash, clock, pages>>
    PROVE  rows' \in [Postings -> Rows] /\ RowsInv' /\ HashInv' /\ (fetch' = fetch => FetchInv')
<1>1. rows' \in [Postings -> Rows]
  BY DEF IInv, TypeOK
<1>2. RowsInv'
  BY DEF IInv, RowsInv, NoJob, Store!NoJob
<1>3. HashInv'
  BY DEF IInv, HashInv, NoJob, Store!NoJob, Documents, Store!Documents, Listed, Store!Listed
<1>4. fetch' = fetch => FetchInv'
  BY DEF IInv, FetchInv, NothingOnPageIsLost, NoJob, Store!NoJob, Listed, Store!Listed
<1> QED BY <1>1, <1>2, <1>3, <1>4

-----------------------------------------------------------------------------
(* One lemma per action. *)

LEMMA NoPassIsLocal == NoPass \in Locals /\ NoPass.replay = {}
<1>1. NoJob \in Rows
  BY NoJobIs, NumberTypes DEF Rows, Times
<1>2. [p \in Postings |-> NoJob] \in [Postings -> Rows]
  BY <1>1
<1>3. [kind \in Kinds |-> {}] \in [Kinds -> SUBSET Postings]
  OBVIOUS
<1> QED BY <1>2, <1>3 DEF NoPass, Locals

\* What the pass extracted stays what it is while its locals do.
LEMMA SeenStays ==
    ASSUME UNCHANGED <<clock, pages>>, pass'.missed = pass.missed
    PROVE  Seen' = Seen /\ Fetched' = Fetched /\ Listed(Seen)' = Listed(Seen) /\ at' = at
BY DEF Seen, Fetched, at, Listed, Store!Listed

\* A pass that ended leaves nothing to keep but what is stored.
LEMMA EndedKeeps ==
    ASSUME IInv, rows' \in [Postings -> Rows], RowsInv', HashInv', FetchInv',
           hash' \in Documents \cup {None}, lastFetched' \in Times,
           fetch' \in [at : Times, complete : BOOLEAN, unchanged : BOOLEAN],
           faults' \in 0..MaxFaults, UNCHANGED <<clock, pages, rigid>>, pc' = "idle", pass' = NoPass
    PROVE  IInv'
<1>1. TypeOK'
  BY NoPassIsLocal DEF IInv, TypeOK, Stages, rigid, Documents, Store!Documents, Rows, Locals, Times
<1>2. StageInv' /\ WaitingInv' /\ StoredInv'
  BY DEF StageInv, WaitingInv, StoredInv, Writing, Recording
<1> QED BY <1>1, <1>2 DEF IInv

LEMMA FaultType == ASSUME TypeOK, Fault PROVE faults' \in 0..MaxFaults
BY NumberTypes DEF TypeOK, Fault

LEMMA CollectKeeps == ASSUME IInv, Collect PROVE IInv'
<1>1. /\ clock \in Nat /\ clock' = clock + 1 /\ clock' \in 1..MaxPasses /\ clock' \in Times /\ pc = "idle"
      /\ pass.replay = {}
  BY NumberTypes DEF IInv, TypeOK, Times, Collect
<1>2. PICK page \in Documents, complete \in BOOLEAN, unchanged \in BOOLEAN,
           missed \in SUBSET Postings :
         /\ unchanged => complete /\ hash = page
         /\ pages' = [pages EXCEPT ![clock'] = page]
         /\ complete => missed = {}
         /\ pass' = [pass EXCEPT !.complete = complete, !.unchanged = unchanged, !.missed = missed]
         /\ pc' = IF unchanged THEN "touch" ELSE "read"
  <2>1. PICK page \in Documents, complete \in BOOLEAN, unchanged \in BOOLEAN :
          /\ unchanged => complete /\ hash = page
          /\ pages' = [pages EXCEPT ![clock'] = page]
          /\ \E missed \in SUBSET Listed(page) :
               /\ complete => missed = {}
               /\ pass' = [pass EXCEPT !.complete = complete, !.unchanged = unchanged, !.missed = missed]
          /\ pc' = IF unchanged THEN "touch" ELSE "read"
    BY DEF Collect
  <2>2. Listed(page) \subseteq Postings
    BY ListedIs
  <2>3. PICK missed \in SUBSET Listed(page) :
          /\ complete => missed = {}
          /\ pass' = [pass EXCEPT !.complete = complete, !.unchanged = unchanged, !.missed = missed]
    BY <2>1
  <2>4. missed \in SUBSET Postings
    BY <2>2
  <2> QED BY <2>1, <2>3, <2>4
<1>4. /\ pass' \in Locals /\ pass'.replay = {} /\ pass'.complete = complete
      /\ pass'.unchanged = unchanged /\ pass'.missed = missed
  BY <1>1, <1>2 DEF IInv, TypeOK, Locals
<1>5. /\ pages' \in [1..MaxPasses -> Documents] /\ pages'[clock'] = page
      /\ \A t \in 1..MaxPasses : t # clock' => pages'[t] = pages[t]
  BY <1>1, <1>2 DEF IInv, TypeOK
<1>6. UNCHANGED <<rows, hash, lastFetched, fetch, comparesHash, refused, faults>>
  BY DEF Collect, rigid
<1>7. TypeOK'
  BY <1>1, <1>2, <1>4, <1>5, <1>6
     DEF IInv, TypeOK, Stages, Documents, Store!Documents, Rows, Locals, Times
<1>8. StageInv'
  BY <1>2, <1>4, <1>5, <1>6 DEF StageInv, Fetched, Recording
<1>9. WaitingInv' /\ StoredInv'
  BY <1>2 DEF WaitingInv, StoredInv, Writing, Recording
<1>10. RowsInv'
  <2>1. \A p \in Postings : rows[p].last \in Nat
    BY NumberTypes DEF IInv, TypeOK, Rows, Times
  <2> QED BY <1>1, <1>6, <2>1 DEF IInv, RowsInv, NoJob, Store!NoJob
<1>11. HashInv'
  BY <1>6 DEF IInv, HashInv, NoJob, Store!NoJob, Documents, Store!Documents, Listed, Store!Listed
<1>12. FetchInv'
  <2>1. fetch.at \in Nat /\ fetch.at <= clock /\ fetch.at <= clock' /\ fetch.at # clock'
    BY <1>1, NumberTypes DEF IInv, TypeOK, FetchInv, Times
  <2>2. fetch.complete => fetch.at \in 1..MaxPasses
    BY <1>1, <2>1, NumberTypes DEF IInv, FetchInv
  <2>3. fetch.complete => pages'[fetch.at] = pages[fetch.at]
    BY <1>5, <2>1, <2>2
  <2> QED BY <1>6, <2>1, <2>3
     DEF IInv, FetchInv, NothingOnPageIsLost, NoJob, Store!NoJob, Listed, Store!Listed
<1> QED BY <1>7, <1>8, <1>9, <1>10, <1>11, <1>12 DEF IInv

LEMMA TouchSourceJobsKeeps == ASSUME IInv, TouchSourceJobs PROVE IInv'
<1>1. /\ rows' \in [Postings -> Rows] /\ RowsInv' /\ HashInv' /\ FetchInv'
      /\ \A p \in Postings : rows'[p] = NoJob \/ rows'[p].last = clock
  BY TouchKeeps DEF TouchSourceJobs
<1>2. /\ UNCHANGED <<hash, lastFetched, fetch, clock, pages, comparesHash, refused, pass, faults>>
      /\ pc = "touch" /\ pc' = "audit"
  BY DEF TouchSourceJobs, rigid
<1>3. TypeOK'
  BY <1>1, <1>2 DEF IInv, TypeOK, Stages, Documents, Store!Documents, Rows, Locals, Times
<1>4. StageInv' /\ WaitingInv'
  BY <1>2 DEF IInv, StageInv, WaitingInv, Writing, Recording, Fetched
<1>5. StoredInv'
  <2>1. pass'.unchanged
    BY <1>2 DEF IInv, StageInv
  <2> QED BY <1>1, <1>2, <2>1 DEF StoredInv, NoJob, Store!NoJob, at
<1> QED BY <1>1, <1>3, <1>4, <1>5 DEF IInv

LEMMA ReadExistingKeeps == ASSUME IInv, ReadExisting PROVE IInv'
<1> DEFINE todo == [kind \in Kinds |-> {p \in Listed(Seen) : KindOf(p, rows) = kind}]
<1>1. /\ UNCHANGED <<rows, hash, lastFetched, fetch, clock, pages, comparesHash, refused, faults>>
      /\ pc = "read" /\ pc' = "write" /\ pass.replay = {}
      /\ pass' = [pass EXCEPT !.found = rows, !.todo = todo]
  BY DEF ReadExisting, rigid, IInv, TypeOK
<1>2. todo \in [Kinds -> SUBSET Postings] /\ \A kind \in Kinds : todo[kind] = {p \in Listed(Seen) : KindOf(p, rows) = kind}
  BY <1>1, SeenType DEF IInv
<1> HIDE DEF todo
<1>3. /\ pass' \in Locals /\ pass'.replay = {} /\ pass'.todo = todo /\ pass'.missed = pass.missed
      /\ pass'.complete = pass.complete /\ pass'.unchanged = pass.unchanged
  BY <1>1, <1>2 DEF IInv, TypeOK, Locals
<1>4. Seen' = Seen /\ Listed(Seen)' = Listed(Seen) /\ Fetched' = Fetched
  BY <1>1, <1>3, SeenStays
<1>5. TypeOK'
  BY <1>1, <1>3 DEF IInv, TypeOK, Stages, Documents, Store!Documents, Rows, Locals, Times
<1>6. StageInv' /\ StoredInv'
  BY <1>1, <1>3, <1>4 DEF IInv, StageInv, StoredInv, Recording
<1>7. \A p \in Postings : KindOf(p, rows) \in Kinds /\ KindOf(p, rows)' = KindOf(p, rows)
  BY <1>1, <1>4 DEF KindOf, Kinds, NoJob, Store!NoJob
<1>8. WaitingInv'
  <2> SUFFICES ASSUME NEW p \in Postings
               PROVE  /\ \A kind \in Kinds : p \in pass'.todo[kind] =>
                            p \in Listed(Seen)' /\ KindOf(p, rows)' = kind /\ p \notin pass'.replay
                      /\ p \in pass'.replay => p \in Listed(Seen)'
                      /\ p \in Listed(Seen)' => \E kind \in Kinds : p \in pass'.todo[kind]
    BY DEF WaitingInv, Kinds
  <2> QED BY <1>2, <1>3, <1>4, <1>7
<1>9. RowsInv' /\ HashInv' /\ FetchInv'
  BY <1>1, SameRowsKeep
<1> QED BY <1>5, <1>6, <1>8, <1>9 DEF IInv

\* Some of what a pass has yet to write was written, and its rows are what the dedupe makes of it.
LEMMA WroteSome ==
    ASSUME IInv, pc \in Writing, NEW some, some \subseteq Listed(Seen), Upserting(some),
           pass' \in Locals, pass' = [pass EXCEPT !.todo = pass'.todo, !.replay = pass'.replay],
           \A kind \in Kinds : pass'.todo[kind] \subseteq pass.todo[kind] \ some,
           pass'.replay \subseteq pass.replay \ some,
           \A kind \in Kinds : pass.todo[kind] \subseteq pass'.todo[kind] \cup some,
           pass.replay \subseteq pass'.replay \cup some,
           pc' \in Writing, (pc' = "replay") = (pass'.replay # {}),
           UNCHANGED <<hash, lastFetched, fetch, clock, pages, rigid, faults>>
    PROVE  IInv'
<1>1. /\ rows' \in [Postings -> Rows] /\ RowsInv' /\ HashInv' /\ FetchInv'
      /\ \A p \in some : rows'[p] # NoJob /\ rows'[p].content = Seen[p] /\ rows'[p].last = clock
      /\ \A p \in Postings \ some : rows'[p] = rows[p]
  BY UpsertKeeps DEF Writing
<1>2. UNCHANGED <<hash, lastFetched, fetch, clock, pages, comparesHash, refused, faults>>
  BY DEF rigid
<1>3. pass'.missed = pass.missed /\ pass'.complete = pass.complete /\ pass'.unchanged = pass.unchanged
  BY DEF IInv, TypeOK, Locals
<1>4. Seen' = Seen /\ Fetched' = Fetched /\ Listed(Seen)' = Listed(Seen) /\ at' = at
  BY <1>2, <1>3, SeenStays
<1>5. pc # "idle" /\ pc \notin Recording /\ pc # "touch" /\ pc' \notin Recording /\ pc' # "touch"
  BY DEF Writing, Recording
<1>6. TypeOK'
  <2>1. TypeOK
    BY DEF IInv
  <2>2. pc' \in Stages /\ clock > 0
    BY <1>5, <2>1 DEF TypeOK, Stages, Writing
  <2> QED BY <1>1, <1>2, <2>1, <2>2 DEF TypeOK
<1>7. StageInv' /\ StoredInv'
  BY <1>2, <1>3, <1>5 DEF IInv, StageInv, StoredInv
<1>8. WaitingInv'
  <2> SUFFICES ASSUME NEW p \in Postings
               PROVE  /\ \A kind \in Kinds : p \in pass'.todo[kind] =>
                            p \in Listed(Seen)' /\ KindOf(p, rows)' = kind /\ p \notin pass'.replay
                      /\ p \in pass'.replay => p \in Listed(Seen)'
                      /\ p \in Listed(Seen)' =>
                            Done(p)' \/ p \in pass'.replay \/ \E kind \in Kinds : p \in pass'.todo[kind]
    BY DEF WaitingInv, Kinds
  <2>1. /\ \A kind \in Kinds : p \in pass.todo[kind] =>
              p \in Listed(Seen) /\ KindOf(p, rows) = kind /\ p \notin pass.replay
        /\ p \in pass.replay => p \in Listed(Seen)
        /\ p \in Listed(Seen) => Done(p) \/ p \in pass.replay \/ \E kind \in Kinds : p \in pass.todo[kind]
    BY DEF IInv, WaitingInv
  <2>2. p \notin some => KindOf(p, rows)' = KindOf(p, rows) /\ (Done(p) => Done(p)')
    BY <1>1, <1>4 DEF KindOf, Done, NoJob, Store!NoJob
  <2>3. p \in some => Done(p)'
    BY <1>1, <1>2, <1>4 DEF Done, at, NoJob, Store!NoJob
  <2> QED BY <1>4, <2>1, <2>2, <2>3
<1> QED BY <1>1, <1>6, <1>7, <1>8 DEF IInv

LEMMA WriteChunkKeeps ==
    ASSUME IInv, NEW chunk \in Chunks, WriteChunk(chunk)
    PROVE  IInv' /\ chunk \subseteq Listed(Seen) /\ Upserting(chunk)
<1>1. /\ pc = "write" /\ rows' = Written(Current(pass.todo), chunk)
      /\ pass' = [pass EXCEPT !.todo = Without(chunk)] /\ pass.replay = {}
      /\ UNCHANGED <<hash, lastFetched, fetch, clock, pages, rigid, pc, faults>>
  BY DEF WriteChunk, IInv, TypeOK
<1>2. /\ Current(pass.todo) \in Kinds /\ chunk \subseteq pass.todo[Current(pass.todo)]
      /\ chunk \subseteq Listed(Seen) /\ \A p \in chunk : KindOf(p, rows) = Current(pass.todo)
  BY <1>1, ChunkIsOfItsKind
<1>3. Upserting(chunk)
  BY <1>1, <1>2, WrittenIsUpserted DEF Upserting
<1>4. /\ Without(chunk) \in [Kinds -> SUBSET Postings]
      /\ \A kind \in Kinds : /\ kind # Current(pass.todo) => Without(chunk)[kind] = pass.todo[kind]
                             /\ kind = Current(pass.todo) => Without(chunk)[kind] = pass.todo[kind] \ chunk
  BY <1>2 DEF Without, IInv, TypeOK, Locals
<1>5. pass' \in Locals /\ pass'.todo = Without(chunk) /\ pass'.replay = {}
      /\ pass' = [pass EXCEPT !.todo = pass'.todo, !.replay = pass'.replay]
  BY <1>1, <1>4 DEF IInv, TypeOK, Locals
<1>6. \A kind \in Kinds : /\ pass'.todo[kind] \subseteq pass.todo[kind] \ chunk
                          /\ pass.todo[kind] \subseteq pass'.todo[kind] \cup chunk
  <2> SUFFICES ASSUME NEW kind \in Kinds
               PROVE  /\ pass'.todo[kind] \subseteq pass.todo[kind] \ chunk
                      /\ pass.todo[kind] \subseteq pass'.todo[kind] \cup chunk
    OBVIOUS
  <2>1. kind # Current(pass.todo) => pass.todo[kind] \cap chunk = {}
    <3>1. pass.todo[kind] \subseteq Postings
      BY DEF IInv, TypeOK, Locals
    <3> QED BY <1>1, <1>2, <3>1 DEF IInv, WaitingInv, Writing
  <2> QED BY <1>4, <1>5, <2>1
<1>7. pc \in Writing /\ pc' \in Writing /\ (pc' = "replay") = (pass'.replay # {})
  BY <1>1, <1>5 DEF Writing
<1>8. IInv'
  BY <1>1, <1>2, <1>3, <1>5, <1>6, <1>7, WroteSome
<1> QED BY <1>2, <1>3, <1>8

LEMMA ReplayKeeps ==
    ASSUME IInv, NEW p \in Postings, Replay(p)
    PROVE  IInv' /\ {p} \subseteq Listed(Seen) /\ Upserting({p})
<1>1. /\ pc = "replay" /\ p \in pass.replay /\ rows' = Written(KindOf(p, rows), {p})
      /\ pass' = [pass EXCEPT !.replay = @ \ {p}]
      /\ pc' = IF pass.replay = {p} THEN "write" ELSE "replay"
      /\ UNCHANGED <<hash, lastFetched, fetch, clock, pages, rigid, faults>>
  BY DEF Replay
<1>2. {p} \subseteq Listed(Seen)
  BY <1>1 DEF IInv, WaitingInv, Writing
<1>3. Upserting({p})
  BY <1>1, <1>2, WrittenIsUpserted DEF Upserting
<1>4. /\ pass' \in Locals /\ pass'.todo = pass.todo /\ pass'.replay = pass.replay \ {p}
      /\ pass' = [pass EXCEPT !.todo = pass'.todo, !.replay = pass'.replay]
  BY <1>1 DEF IInv, TypeOK, Locals
<1>5. \A kind \in Kinds : p \notin pass.todo[kind]
  BY <1>1 DEF IInv, WaitingInv, Writing
<1>6. pc \in Writing /\ pc' \in Writing /\ (pc' = "replay") = (pass'.replay # {})
  BY <1>1, <1>4 DEF Writing
<1>7. /\ \A kind \in Kinds : pass'.todo[kind] \subseteq pass.todo[kind] \ {p}
      /\ \A kind \in Kinds : pass.todo[kind] \subseteq pass'.todo[kind] \cup {p}
      /\ pass'.replay \subseteq pass.replay \ {p} /\ pass.replay \subseteq pass'.replay \cup {p}
  BY <1>4, <1>5
<1>8. IInv'
  BY <1>1, <1>2, <1>3, <1>4, <1>6, <1>7, WroteSome
<1> QED BY <1>2, <1>3, <1>8

LEMMA RefuseChunkKeeps == ASSUME IInv, NEW chunk \in Chunks, RefuseChunk(chunk) PROVE IInv'
<1>1. /\ pc = "write" /\ pc' = "replay" /\ pass.replay = {} /\ faults' \in 0..MaxFaults
      /\ pass' = [pass EXCEPT !.todo = Without(chunk), !.replay = chunk]
      /\ UNCHANGED <<rows, hash, lastFetched, fetch, clock, pages, comparesHash, refused>>
  BY FaultType DEF RefuseChunk, rigid, IInv, TypeOK
<1>2. /\ Current(pass.todo) \in Kinds /\ chunk # {} /\ chunk \subseteq pass.todo[Current(pass.todo)]
      /\ chunk \subseteq Listed(Seen) /\ \A p \in chunk : KindOf(p, rows) = Current(pass.todo)
      /\ chunk \subseteq Postings
  BY <1>1, ChunkIsOfItsKind, SeenType DEF IInv
<1>3. /\ Without(chunk) \in [Kinds -> SUBSET Postings]
      /\ \A kind \in Kinds : /\ kind # Current(pass.todo) => Without(chunk)[kind] = pass.todo[kind]
                             /\ kind = Current(pass.todo) => Without(chunk)[kind] = pass.todo[kind] \ chunk
  BY <1>2 DEF Without, IInv, TypeOK, Locals
<1>4. /\ pass' \in Locals /\ pass'.todo = Without(chunk) /\ pass'.replay = chunk
      /\ pass'.missed = pass.missed /\ pass'.complete = pass.complete /\ pass'.unchanged = pass.unchanged
  BY <1>1, <1>2, <1>3 DEF IInv, TypeOK, Locals
<1>5. Seen' = Seen /\ Fetched' = Fetched /\ Listed(Seen)' = Listed(Seen) /\ at' = at
  BY <1>1, <1>4, SeenStays
<1>6. TypeOK'
  BY <1>1, <1>2, <1>4 DEF IInv, TypeOK, Stages, Documents, Store!Documents, Rows, Locals, Times
<1>7. StageInv' /\ StoredInv'
  BY <1>1, <1>4, <1>5 DEF IInv, StageInv, StoredInv, Recording
<1>8. WaitingInv'
  <2> SUFFICES ASSUME NEW p \in Postings
               PROVE  /\ \A kind \in Kinds : p \in pass'.todo[kind] =>
                            p \in Listed(Seen)' /\ KindOf(p, rows)' = kind /\ p \notin pass'.replay
                      /\ p \in pass'.replay => p \in Listed(Seen)'
                      /\ p \in Listed(Seen)' =>
                            Done(p)' \/ p \in pass'.replay \/ \E kind \in Kinds : p \in pass'.todo[kind]
    BY DEF WaitingInv, Kinds
  <2>1. /\ \A kind \in Kinds : p \in pass.todo[kind] => p \in Listed(Seen) /\ KindOf(p, rows) = kind
        /\ p \in Listed(Seen) => Done(p) \/ \E kind \in Kinds : p \in pass.todo[kind]
    BY <1>1 DEF IInv, WaitingInv, Writing
  <2>2. KindOf(p, rows)' = KindOf(p, rows) /\ (Done(p) => Done(p)')
    BY <1>1, <1>5 DEF KindOf, Done, NoJob, Store!NoJob
  <2> QED BY <1>2, <1>3, <1>4, <1>5, <2>1, <2>2
<1>9. RowsInv' /\ HashInv' /\ FetchInv'
  BY <1>1, SameRowsKeep
<1> QED BY <1>6, <1>7, <1>8, <1>9 DEF IInv

\* Only the stage moves on, past the writes.
LEMMA AllWrittenKeeps == ASSUME IInv, AllWritten PROVE IInv'
<1>1. /\ pc = "write" /\ pc' = "audit" /\ pass.replay = {} /\ \A kind \in Kinds : pass.todo[kind] = {}
      /\ UNCHANGED <<rows, hash, lastFetched, fetch, clock, pages, comparesHash, refused, pass, faults>>
  BY DEF AllWritten, rigid, IInv, TypeOK
<1>2. Seen' = Seen /\ Fetched' = Fetched /\ Listed(Seen)' = Listed(Seen) /\ at' = at
  BY <1>1, SeenStays
<1>3. TypeOK'
  BY <1>1 DEF IInv, TypeOK, Stages, Documents, Store!Documents, Rows, Locals, Times
<1>4. StageInv' /\ WaitingInv'
  BY <1>1, <1>2 DEF IInv, StageInv, WaitingInv, Writing, Recording
<1>5. StoredInv'
  <2>1. ~pass.unchanged
    BY <1>1 DEF IInv, StageInv, Recording
  <2>2. \A p \in Listed(Seen) : Done(p)
    BY <1>1, SeenType DEF IInv, WaitingInv, Writing
  <2>3. \A p \in Listed(Seen) : Done(p)'
    BY <1>1, <1>2, <2>2 DEF Done, NoJob, Store!NoJob
  <2> QED BY <1>1, <1>2, <2>1, <2>3 DEF StoredInv
<1>6. RowsInv' /\ HashInv' /\ FetchInv'
  BY <1>1, SameRowsKeep
<1> QED BY <1>3, <1>4, <1>5, <1>6 DEF IInv

\* What holds past the writes holds until the pass ends.
LEMMA RecordingKeeps ==
    ASSUME IInv, pc \in Recording, pc' \in Recording,
           UNCHANGED <<rows, hash, lastFetched, clock, pages, rigid, pass, faults>>,
           fetch' \in [at : Times, complete : BOOLEAN, unchanged : BOOLEAN], FetchInv'
    PROVE  IInv'
<1>1. /\ UNCHANGED <<rows, hash, lastFetched, clock, pages, comparesHash, refused, pass, faults>>
      /\ pc # "replay" /\ pc' # "replay" /\ pc \notin Writing /\ pc' \notin Writing
      /\ pc # "idle" /\ pc' # "idle" /\ pc' # "touch"
  BY DEF rigid, Recording, Writing
<1>2. Seen' = Seen /\ Fetched' = Fetched /\ Listed(Seen)' = Listed(Seen) /\ at' = at
  BY <1>1, SeenStays
<1>3. TypeOK'
  BY <1>1 DEF IInv, TypeOK, Stages, Documents, Store!Documents, Rows, Locals, Times, Recording
<1>4. StageInv' /\ WaitingInv'
  BY <1>1, <1>2 DEF IInv, StageInv, WaitingInv
<1>5. StoredInv'
  BY <1>1, <1>2 DEF IInv, StoredInv, Done, NoJob, Store!NoJob
<1>6. RowsInv' /\ HashInv'
  BY <1>1, SameRowsKeep
<1> QED BY <1>3, <1>4, <1>5, <1>6 DEF IInv

\* A complete result is its document, and every posting of it is stored and seen by this pass.
LEMMA CompleteIsStored ==
    ASSUME IInv, pc \in Recording, pass.complete
    PROVE  /\ Seen = Fetched
           /\ \A p \in Listed(Fetched) : rows[p] # NoJob /\ rows[p].last = clock
           /\ ~pass.unchanged => \A p \in Listed(Fetched) : rows[p].content = Fetched[p]
<1>1. pc # "idle" /\ pass.missed = {}
  BY DEF IInv, StageInv, Recording
<1>2. Fetched \in [Postings -> Contents \cup {None}] /\ Fetched \in Documents
  BY <1>1, SeenType, DocumentsAre DEF IInv
<1>3. Seen = Fetched
  BY <1>1, <1>2 DEF Seen
<1>4. CASE pass.unchanged
  <2>1. hash = Fetched
    BY <1>1, <1>4 DEF IInv, StageInv
  <2>2. \A p \in Listed(Fetched) : p \in Postings /\ rows[p] # NoJob
    BY <1>2, <2>1, ListedIs DEF IInv, HashInv
  <2>3. \A p \in Postings : rows[p] = NoJob \/ rows[p].last = clock
    BY <1>4 DEF IInv, StoredInv, at
  <2> QED BY <1>3, <1>4, <2>2, <2>3
<1>5. CASE ~pass.unchanged
  BY <1>3, <1>5 DEF IInv, StoredInv, Done, at
<1> QED BY <1>3, <1>4, <1>5

\* So a complete fetch may be recorded.
LEMMA ThisFetchKeeps ==
    ASSUME IInv, pc = "fetch", fetch' = ThisFetch, UNCHANGED <<rows, clock, pages>>
    PROVE  fetch' \in [at : Times, complete : BOOLEAN, unchanged : BOOLEAN] /\ FetchInv'
<1>1. clock \in Times /\ clock \in Nat /\ clock > 0
  BY SeenType, NumberTypes DEF IInv, Times
<1>2. pass.complete \in BOOLEAN /\ pass.unchanged \in BOOLEAN
  BY DEF IInv, TypeOK, Locals
<1>3. /\ fetch' \in [at : Times, complete : BOOLEAN, unchanged : BOOLEAN]
      /\ fetch'.at = clock /\ fetch'.complete = pass.complete
  BY <1>1, <1>2 DEF ThisFetch, at
<1>4. pass.complete => \A p \in Listed(Fetched) : rows[p] # NoJob /\ rows[p].last = clock
  BY CompleteIsStored DEF Recording
<1>5. FetchInv'
  BY <1>1, <1>3, <1>4
     DEF FetchInv, NothingOnPageIsLost, NoJob, Store!NoJob, Fetched, Listed, Store!Listed
<1> QED BY <1>3, <1>5

LEMMA AuditKeeps == ASSUME IInv, Audit PROVE IInv'
<1>1. /\ UNCHANGED <<rows, hash, lastFetched, fetch, clock, pages, rigid, pass, faults>>
      /\ pc \in Recording /\ pc' \in Recording
  BY DEF Audit, Recording
<1>2. FetchInv' /\ fetch' \in [at : Times, complete : BOOLEAN, unchanged : BOOLEAN]
  BY <1>1, SameRowsKeep DEF IInv, TypeOK
<1> QED BY <1>1, <1>2, RecordingKeeps

LEMMA InsertFetchKeeps == ASSUME IInv, InsertFetch PROVE IInv'
<1>1. /\ UNCHANGED <<rows, hash, lastFetched, clock, pages, rigid, pass, faults>>
      /\ pc = "fetch" /\ pc \in Recording /\ pc' \in Recording /\ fetch' = ThisFetch
  BY DEF InsertFetch, Recording
<1>2. FetchInv' /\ fetch' \in [at : Times, complete : BOOLEAN, unchanged : BOOLEAN]
  BY <1>1, ThisFetchKeeps
<1> QED BY <1>1, <1>2, RecordingKeeps

LEMMA UpdateSourceKeeps == ASSUME IInv, UpdateSource PROVE IInv'
<1>1. /\ pc = "source" /\ pc \in Recording /\ pc # "idle" /\ pc' = "idle" /\ pass' = NoPass
      /\ lastFetched' = clock /\ hash' = IF pass.complete THEN Fetched ELSE hash
      /\ UNCHANGED <<rows, fetch, clock, pages, rigid, faults>>
  BY DEF UpdateSource, Recording, at
<1>2. rows' \in [Postings -> Rows]
  BY <1>1 DEF IInv, TypeOK
<1>3. RowsInv' /\ FetchInv'
  BY <1>1 DEF IInv, RowsInv, FetchInv, NothingOnPageIsLost, NoJob, Store!NoJob, Listed, Store!Listed
<1>4. hash' \in Documents \cup {None} /\ lastFetched' \in Times
  BY <1>1, SeenType DEF IInv, TypeOK
<1>5. HashInv'
  <2>1. pass.complete => \A p \in Listed(Fetched) : rows[p] # NoJob
    BY <1>1, CompleteIsStored
  <2>2. hash \in Documents => \A p \in Listed(hash) : rows[p] # NoJob
    BY DEF IInv, HashInv
  <2> QED BY <1>1, <2>1, <2>2
          DEF HashInv, NoJob, Store!NoJob, Documents, Store!Documents, Listed, Store!Listed
<1>6. /\ fetch' \in [at : Times, complete : BOOLEAN, unchanged : BOOLEAN] /\ faults' \in 0..MaxFaults
  BY <1>1 DEF IInv, TypeOK
<1> QED BY <1>1, <1>2, <1>3, <1>4, <1>5, <1>6, EndedKeeps

LEMMA ReplayRefusedKeeps == ASSUME IInv, ReplayRefused PROVE IInv'
<1>1. /\ pc' = "idle" /\ pass' = NoPass
      /\ UNCHANGED <<rows, hash, lastFetched, fetch, clock, pages, rigid, faults>>
  BY DEF ReplayRefused
<1>2. rows' \in [Postings -> Rows] /\ RowsInv' /\ HashInv' /\ FetchInv'
  BY <1>1, SameRowsKeep
<1>3. /\ hash' \in Documents \cup {None} /\ lastFetched' \in Times /\ faults' \in 0..MaxFaults
      /\ fetch' \in [at : Times, complete : BOOLEAN, unchanged : BOOLEAN]
  BY <1>1 DEF IInv, TypeOK
<1> QED BY <1>1, <1>2, <1>3, EndedKeeps

\* An effect a failed request had is that of the request.
LostUpsert == \E some \in SUBSET Listed(Seen) : Upserting(some) /\ UNCHANGED fetch

LEMMA LostEffectIs ==
    ASSUME IInv, LostEffect
    PROVE  \/ UNCHANGED <<rows, fetch>>
           \/ pc = "touch" /\ rows' = Touched /\ UNCHANGED fetch
           \/ pc \in Writing /\ LostUpsert
           \/ pc = "fetch" /\ fetch' = ThisFetch /\ UNCHANGED rows
<1>1. ASSUME pc = "write", UNCHANGED fetch, NEW chunk \in Chunks,
             rows' = Written(Current(pass.todo), chunk)
      PROVE  LostUpsert
  <2>1. /\ chunk \subseteq Listed(Seen) /\ Current(pass.todo) \in Kinds
        /\ \A p \in chunk : KindOf(p, rows) = Current(pass.todo)
    BY <1>1, ChunkIsOfItsKind
  <2>2. Upserting(chunk)
    BY <1>1, <2>1, WrittenIsUpserted DEF Upserting
  <2> QED BY <1>1, <2>1, <2>2 DEF LostUpsert
<1>2. ASSUME pc = "replay", UNCHANGED fetch, NEW p \in pass.replay,
             rows' = Written(KindOf(p, rows), {p})
      PROVE  LostUpsert
  <2>1. {p} \subseteq Listed(Seen)
    <3>1. p \in Postings
      BY DEF IInv, TypeOK, Locals
    <3> QED BY <1>2, <3>1 DEF IInv, WaitingInv, Writing
  <2>2. Upserting({p})
    BY <1>2, <2>1, WrittenIsUpserted DEF Upserting
  <2> QED BY <1>2, <2>1, <2>2 DEF LostUpsert
<1> QED BY <1>1, <1>2 DEF LostEffect, Writing

LEMMA FailsKeeps == ASSUME IInv, Fails PROVE IInv'
<1>1. /\ pc # "idle" /\ LostEffect /\ pc' = "idle" /\ pass' = NoPass /\ faults' \in 0..MaxFaults
      /\ UNCHANGED <<hash, lastFetched, clock, pages, rigid>>
  BY FaultType DEF Fails, IInv
<1>2. /\ hash' \in Documents \cup {None} /\ lastFetched' \in Times
      /\ fetch \in [at : Times, complete : BOOLEAN, unchanged : BOOLEAN]
  BY <1>1 DEF IInv, TypeOK
<1>3. /\ rows' \in [Postings -> Rows] /\ RowsInv' /\ HashInv' /\ FetchInv'
      /\ fetch' \in [at : Times, complete : BOOLEAN, unchanged : BOOLEAN]
  <2>1. CASE UNCHANGED <<rows, fetch>>
    BY <1>1, <1>2, <2>1, SameRowsKeep
  <2>2. CASE rows' = Touched /\ UNCHANGED fetch
    BY <1>1, <1>2, <2>2, TouchKeeps
  <2>3. CASE LostUpsert
    <3>1. PICK some \in SUBSET Listed(Seen) : Upserting(some) /\ UNCHANGED fetch
      BY <2>3 DEF LostUpsert
    <3> QED BY <1>1, <1>2, <3>1, UpsertKeeps
  <2>4. CASE pc = "fetch" /\ fetch' = ThisFetch /\ UNCHANGED rows
    BY <1>1, <1>2, <2>4, SameRowsKeep, ThisFetchKeeps
  <2> QED BY <1>1, <2>1, <2>2, <2>3, <2>4, LostEffectIs
<1> QED BY <1>1, <1>2, <1>3, EndedKeeps

-----------------------------------------------------------------------------
(* The theorems. *)

LEMMA InitHolds == Init => IInv
<1> SUFFICES ASSUME Init PROVE IInv
  OBVIOUS
<1>1. 0 \in Times /\ 0 \in 0..MaxFaults
  BY NumberTypes DEF Times
<1>2. NoJob \in Rows /\ NoJob = [content |-> None, first |-> 0, last |-> 0]
  BY <1>1, NoJobIs DEF Rows
<1>3. [p \in Postings |-> None] \in Documents
  BY DocumentsAre
<1>4. TypeOK
  BY <1>1, <1>2, <1>3, NoPassIsLocal DEF Init, TypeOK, Stages, NoFetch
<1>5. RowsInv
  BY <1>1, <1>2 DEF Init, RowsInv
<1>6. StageInv /\ WaitingInv /\ StoredInv
  BY DEF Init, StageInv, WaitingInv, StoredInv, Writing, Recording
<1>7. HashInv
  BY DocumentsAre, IngestionConstants DEF Init, HashInv
<1>8. FetchInv
  BY <1>1 DEF Init, FetchInv, NothingOnPageIsLost, NoFetch
<1> QED BY <1>4, <1>5, <1>6, <1>7, <1>8 DEF IInv

LEMMA NextKeeps == IInv /\ [Next]_vars => IInv'
<1> SUFFICES ASSUME IInv, [Next]_vars PROVE IInv'
  OBVIOUS
<1>1. CASE Collect
  BY <1>1, CollectKeeps
<1>2. CASE TouchSourceJobs
  BY <1>2, TouchSourceJobsKeeps
<1>3. CASE ReadExisting
  BY <1>3, ReadExistingKeeps
<1>4. CASE \E chunk \in Chunks : WriteChunk(chunk) \/ RefuseChunk(chunk)
  BY <1>4, WriteChunkKeeps, RefuseChunkKeeps
<1>5. CASE \E p \in Postings : Replay(p)
  BY <1>5, ReplayKeeps
<1>6. CASE ReplayRefused
  BY <1>6, ReplayRefusedKeeps
<1>7. CASE AllWritten
  BY <1>7, AllWrittenKeeps
<1>8. CASE Audit
  BY <1>8, AuditKeeps
<1>9. CASE InsertFetch
  BY <1>9, InsertFetchKeeps
<1>10. CASE UpdateSource
  BY <1>10, UpdateSourceKeeps
<1>11. CASE Fails
  BY <1>11, FailsKeeps
<1>12. CASE UNCHANGED vars
  <2>1. UNCHANGED <<rows, hash, lastFetched, fetch, clock, pages, comparesHash, refused, pc, pass, faults>>
    BY <1>12 DEF vars
  <2>2. Seen' = Seen /\ Fetched' = Fetched /\ Listed(Seen)' = Listed(Seen) /\ at' = at
    BY <2>1, SeenStays
  <2>3. TypeOK'
    BY <2>1 DEF IInv, TypeOK, Documents, Store!Documents, Rows, Locals, Times, Stages
  <2>4. StageInv'
    BY <2>1, <2>2 DEF IInv, StageInv, Recording
  <2>5. \A p \in Postings : KindOf(p, rows)' = KindOf(p, rows) /\ Done(p)' = Done(p)
    BY <2>1, <2>2 DEF KindOf, Done, NoJob, Store!NoJob
  <2>6. WaitingInv'
    BY <2>1, <2>2, <2>5 DEF IInv, WaitingInv, Writing, Kinds
  <2>7. StoredInv'
    BY <2>1, <2>2 DEF IInv, StoredInv, Recording, Done, NoJob, Store!NoJob
  <2>8. RowsInv' /\ HashInv' /\ FetchInv'
    BY <2>1, SameRowsKeep
  <2> QED BY <2>3, <2>4, <2>6, <2>7, <2>8 DEF IInv
<1> QED BY <1>1, <1>2, <1>3, <1>4, <1>5, <1>6, <1>7, <1>8, <1>9, <1>10, <1>11, <1>12 DEF Next

\* The invariant holds of every state of ingest's passes.
LEMMA InvariantHolds == Spec => []IInv
<1>1. Init => IInv
  BY InitHolds
<1>2. IInv /\ [Next]_vars => IInv'
  BY NextKeeps
<1> QED BY <1>1, <1>2, PTL DEF Spec

\* Type correctness: rows, hash, fetches and a pass's locals are what ingest and record_fetch keep.
THEOREM TypeCorrect == Spec => []TypeOK
<1>1. IInv => TypeOK
  BY DEF IInv
<1> QED BY <1>1, InvariantHolds, PTL

\* A complete fetch leaves every posting of its document stored and seen at the fetch or later
\* (ingest, upsert_jobs, touch_source_jobs, record_fetch), however many passes fail or are stopped.
THEOREM NothingLost == Spec => []NothingOnPageIsLost
<1>1. IInv => NothingOnPageIsLost
  BY DEF IInv, FetchInv
<1> QED BY <1>1, InvariantHolds, PTL

-----------------------------------------------------------------------------
(* Every step is one of the store's, or changes nothing the store holds. *)

LEMMA TimeIsNow ==
    ASSUME IInv, pc # "idle"
    PROVE  clock \in Times /\ clock > 0 /\ \A p \in Postings : rows[p].last <= clock
BY SeenType, NumberTypes DEF IInv, RowsInv, Times

LEMMA UpsertIsStores ==
    ASSUME IInv, pc # "idle", NEW some \in SUBSET Listed(Seen), Upserting(some), hash' = hash
    PROVE  Store!Next
<1>1. some \in SUBSET Postings /\ Seen \in Documents /\ some \subseteq Store!Listed(Seen)
  BY SeenType DEF IInv, Listed
<1>2. Store!Upsert(Seen, some, clock)
  BY <1>1, TimeIsNow DEF Store!Upsert, Upserting, at
<1> QED BY <1>1, <1>2, TimeIsNow DEF Store!Next, Documents

LEMMA TouchIsStores ==
    ASSUME IInv, pc # "idle", rows' = Touched, hash' = hash
    PROVE  Store!Next
<1>1. Store!Touch(clock)
  BY TimeIsNow DEF Store!Touch, Touched, at, NoJob
<1> QED BY <1>1, TimeIsNow DEF Store!Next

LEMMA StepsAreStores == IInv /\ [Next]_vars => [Store!Next]_<<rows, hash>>
<1> SUFFICES ASSUME IInv, [Next]_vars, ~UNCHANGED <<rows, hash>> PROVE Store!Next
  OBVIOUS
<1>1. CASE TouchSourceJobs
  BY <1>1, TouchIsStores DEF TouchSourceJobs
<1>2. ASSUME NEW chunk \in Chunks, WriteChunk(chunk) PROVE Store!Next
  BY <1>2, WriteChunkKeeps, UpsertIsStores DEF WriteChunk
<1>3. ASSUME NEW p \in Postings, Replay(p) PROVE Store!Next
  BY <1>3, ReplayKeeps, UpsertIsStores DEF Replay
<1>4. CASE UpdateSource
  <2>1. /\ rows' = rows /\ pc \in Recording /\ pc # "idle"
        /\ hash' = IF pass.complete THEN Fetched ELSE hash
    BY <1>4 DEF UpdateSource, Recording
  <2>2. pass.complete /\ ~pass.unchanged
    BY <2>1 DEF IInv, StageInv
  <2>3. \A p \in Store!Listed(Fetched) : rows[p].content = Fetched[p]
    BY <2>1, <2>2, CompleteIsStored DEF Listed
  <2>4. Store!Record(Fetched) /\ Fetched \in Store!Documents
    BY <2>1, <2>2, <2>3, SeenType DEF Store!Record, IInv, Documents
  <2> QED BY <2>4 DEF Store!Next
<1>5. CASE Fails
  <2>1. LostEffect /\ hash' = hash /\ pc # "idle"
    BY <1>5 DEF Fails
  <2>2. CASE pc = "touch" /\ rows' = Touched
    BY <2>1, <2>2, TouchIsStores
  <2>3. CASE LostUpsert
    BY <2>1, <2>3, UpsertIsStores DEF LostUpsert
  <2> QED BY <2>1, <2>2, <2>3, LostEffectIs
<1> QED BY <1>1, <1>2, <1>3, <1>4, <1>5
        DEF Next, vars, Collect, ReadExisting, RefuseChunk, ReplayRefused, AllWritten, Audit, InsertFetch

\* Ingesting a source with bulk writes, replays and failures implements the one-posting-at-a-time
\* store of ObservationStore (MemoryObservationStore, production dedupe semantics).
THEOREM Implements == Spec => ImplementsStore
<1>1. Init => Store!Init
  BY NoJobIs DEF Init, Store!Init
<1>2. IInv /\ [Next]_vars => [Store!Next]_<<rows, hash>>
  BY StepsAreStores
<1> QED BY <1>1, <1>2, InvariantHolds, PTL DEF Spec, Store!Spec, ImplementsStore

-----------------------------------------------------------------------------
(* The batch and its replays leave what one posting at a time would have:  *)
(* while a pass writes, a posting that still waits has the row the pass    *)
(* found, and every other has the row it ends with. Nothing waits past the *)
(* writes.                                                                 *)

Waits(p) == p \in pass.replay \/ \E kind \in Kinds : p \in pass.todo[kind]

EndsWith(p) == IF p \in Listed(Seen) THEN Store!Upserted(pass.found[p], Seen[p], at) ELSE pass.found[p]

HalfWritten ==
    pc \in Writing => \A p \in Postings : rows[p] = IF Waits(p) THEN pass.found[p] ELSE EndsWith(p)

BatchInv == HalfWritten /\ BatchIsOneAtATime

\* Moving postings from one batch to another, or away, changes no row.
LEMMA EndsTheSame ==
    ASSUME UNCHANGED <<clock, pages>>, pass'.missed = pass.missed, pass'.found = pass.found,
           NEW p \in Postings
    PROVE  EndsWith(p)' = EndsWith(p)
<1>1. Seen' = Seen /\ Listed(Seen)' = Listed(Seen) /\ at' = at
  BY SeenStays
<1> QED BY <1>1 DEF EndsWith, Store!Upserted, Store!NoJob

\* A posting waits in one place, and only if the document lists it.
LEMMA OnceItWaits ==
    ASSUME IInv, pc \in Writing, NEW p \in Postings, Waits(p)
    PROVE  /\ p \in Listed(Seen)
           /\ \A kind \in Kinds : p \in pass.todo[kind] => KindOf(p, rows) = kind /\ p \notin pass.replay
BY DEF IInv, WaitingInv, Waits

\* A write takes what waited, and leaves it as it ends.
LEMMA WritingKeeps ==
    ASSUME IInv, BatchInv, pc \in Writing, pc' \in Writing,
           NEW some, some \subseteq Listed(Seen), Upserting(some), \A p \in some : Waits(p),
           \A p \in Postings : Waits(p)' <=> Waits(p) /\ p \notin some,
           UNCHANGED <<clock, pages>>, pass'.missed = pass.missed, pass'.found = pass.found
    PROVE  BatchInv'
<1>1. ASSUME NEW p \in Postings
      PROVE  rows'[p] = IF Waits(p)' THEN pass.found[p] ELSE EndsWith(p)
  <2>1. rows[p] = IF Waits(p) THEN pass.found[p] ELSE EndsWith(p)
    BY DEF BatchInv, HalfWritten
  <2>2. CASE p \in some
    <3>1. rows'[p] = Store!Upserted(pass.found[p], Seen[p], at)
      BY <2>1, <2>2 DEF Upserting
    <3> QED BY <2>2, <3>1 DEF EndsWith
  <2>3. CASE p \notin some
    BY <2>1, <2>3 DEF Upserting
  <2> QED BY <2>2, <2>3
<1>2. HalfWritten'
  BY <1>1, EndsTheSame DEF HalfWritten
<1>3. BatchIsOneAtATime'
  BY DEF BatchIsOneAtATime, Writing
<1> QED BY <1>2, <1>3 DEF BatchInv

LEMMA ReadExistingStarts == ASSUME IInv, ReadExisting PROVE BatchInv'
<1> DEFINE todo == [kind \in Kinds |-> {p \in Listed(Seen) : KindOf(p, rows) = kind}]
<1>1. /\ UNCHANGED <<rows, clock, pages>> /\ pc' = "write"
      /\ pass' = [pass EXCEPT !.found = rows, !.todo = todo]
  BY DEF ReadExisting
<1>2. \A kind \in Kinds : todo[kind] = {p \in Listed(Seen) : KindOf(p, rows) = kind}
  OBVIOUS
<1> HIDE DEF todo
<1>3. pass'.found = rows /\ pass'.todo = todo /\ pass'.missed = pass.missed
  BY <1>1 DEF IInv, TypeOK, Locals
<1>4. Seen' = Seen /\ Listed(Seen)' = Listed(Seen)
  BY <1>1, <1>3, SeenStays
<1>5. \A p \in Postings : KindOf(p, rows) \in Kinds
  BY DEF KindOf, Kinds
<1>6. \A p \in Postings : rows'[p] = IF Waits(p)' THEN pass'.found[p] ELSE EndsWith(p)'
  <2> SUFFICES ASSUME NEW p \in Postings, ~Waits(p)' PROVE rows'[p] = EndsWith(p)'
    BY <1>1, <1>3
  <2>1. \A kind \in Kinds : p \notin pass'.todo[kind]
    BY DEF Waits, Kinds
  <2>2. p \notin Listed(Seen)
    BY <1>2, <1>3, <1>5, <2>1
  <2> QED BY <1>1, <1>3, <1>4, <2>2 DEF EndsWith
<1>7. HalfWritten'
  BY <1>6 DEF HalfWritten
<1>8. BatchIsOneAtATime'
  BY <1>1 DEF BatchIsOneAtATime
<1> QED BY <1>7, <1>8 DEF BatchInv

\* What a request takes from the batch, and what it leaves.
LEMMA ChunkTaken ==
    ASSUME IInv, pc = "write", NEW chunk \in Chunks
    PROVE  /\ pass.replay = {}
           /\ \A p \in chunk : Waits(p)
           /\ \A p \in Postings : (\E kind \in Kinds : p \in Without(chunk)[kind]) <=> Waits(p) /\ p \notin chunk
<1>1. /\ Current(pass.todo) \in Kinds /\ chunk \subseteq pass.todo[Current(pass.todo)]
      /\ \A p \in chunk : KindOf(p, rows) = Current(pass.todo)
  BY ChunkIsOfItsKind
<1>2. pass.replay = {}
  BY DEF IInv, TypeOK
<1>3. \A kind \in Kinds : /\ kind # Current(pass.todo) => Without(chunk)[kind] = pass.todo[kind]
                          /\ kind = Current(pass.todo) => Without(chunk)[kind] = pass.todo[kind] \ chunk
  BY <1>1 DEF Without, IInv, TypeOK, Locals
<1>4. \A p \in chunk : Waits(p)
  BY <1>1 DEF Waits
<1>5. \A p \in Postings, kind \in Kinds : p \in pass.todo[kind] => KindOf(p, rows) = kind
  BY OnceItWaits DEF Waits, Writing
<1>6. ASSUME NEW p \in Postings
      PROVE  (\E kind \in Kinds : p \in Without(chunk)[kind]) <=> Waits(p) /\ p \notin chunk
  <2>1. ASSUME NEW kind \in Kinds PROVE p \in Without(chunk)[kind] <=> p \in pass.todo[kind] /\ p \notin chunk
    BY <1>1, <1>3, <1>5
  <2> QED BY <1>2, <2>1 DEF Waits
<1> QED BY <1>2, <1>4, <1>6

LEMMA BatchKeeps == IInv /\ BatchInv /\ [Next]_vars => BatchInv'
<1> SUFFICES ASSUME IInv, BatchInv, [Next]_vars PROVE BatchInv'
  OBVIOUS
<1>1. CASE ReadExisting
  BY <1>1, ReadExistingStarts
<1>2. ASSUME NEW chunk \in Chunks, WriteChunk(chunk) PROVE BatchInv'
  <2>1. /\ pc = "write" /\ pc' = "write" /\ UNCHANGED <<clock, pages>>
        /\ pass' = [pass EXCEPT !.todo = Without(chunk)]
    BY <1>2 DEF WriteChunk
  <2>2. chunk \subseteq Listed(Seen) /\ Upserting(chunk)
    BY <1>2, WriteChunkKeeps
  <2>3. /\ pass'.todo = Without(chunk) /\ pass'.replay = pass.replay
        /\ pass'.found = pass.found /\ pass'.missed = pass.missed
    BY <2>1 DEF IInv, TypeOK, Locals
  <2>4. /\ \A p \in chunk : Waits(p)
        /\ \A p \in Postings : Waits(p)' <=> Waits(p) /\ p \notin chunk
    BY <2>1, <2>3, ChunkTaken DEF Waits, Kinds
  <2> QED BY <2>1, <2>2, <2>3, <2>4, WritingKeeps DEF Writing
<1>3. ASSUME NEW chunk \in Chunks, RefuseChunk(chunk) PROVE BatchInv'
  <2>1. /\ pc = "write" /\ pc' = "replay" /\ UNCHANGED <<rows, clock, pages>>
        /\ pass' = [pass EXCEPT !.todo = Without(chunk), !.replay = chunk]
    BY <1>3 DEF RefuseChunk
  <2>2. /\ pass'.todo = Without(chunk) /\ pass'.replay = chunk
        /\ pass'.found = pass.found /\ pass'.missed = pass.missed
    BY <2>1 DEF IInv, TypeOK, Locals
  <2>3. \A p \in Postings : Waits(p)' <=> Waits(p)
    BY <2>1, <2>2, ChunkTaken DEF Waits, Kinds
  <2>4. \A p \in Postings : rows[p] = IF Waits(p) THEN pass.found[p] ELSE EndsWith(p)
    BY <2>1 DEF BatchInv, HalfWritten, Writing
  <2>5. HalfWritten'
    BY <2>1, <2>2, <2>3, <2>4, EndsTheSame DEF HalfWritten
  <2> QED BY <2>1, <2>5 DEF BatchInv, BatchIsOneAtATime
<1>4. ASSUME NEW p \in Postings, Replay(p) PROVE BatchInv'
  <2>1. /\ pc = "replay" /\ p \in pass.replay /\ pc' \in Writing /\ UNCHANGED <<clock, pages>>
        /\ pass' = [pass EXCEPT !.replay = @ \ {p}]
    BY <1>4 DEF Replay, Writing
  <2>2. {p} \subseteq Listed(Seen) /\ Upserting({p})
    BY <1>4, ReplayKeeps
  <2>3. /\ pass'.todo = pass.todo /\ pass'.replay = pass.replay \ {p}
        /\ pass'.found = pass.found /\ pass'.missed = pass.missed
    BY <2>1 DEF IInv, TypeOK, Locals
  <2>4. Waits(p) /\ \A kind \in Kinds : p \notin pass.todo[kind]
    BY <2>1, OnceItWaits DEF Waits, Writing
  <2>5. \A q \in Postings : Waits(q)' <=> Waits(q) /\ q \notin {p}
    BY <2>3, <2>4 DEF Waits, Kinds
  <2> QED BY <2>1, <2>2, <2>3, <2>4, <2>5, WritingKeeps DEF Writing
<1>5. CASE AllWritten
  <2>1. /\ pc = "write" /\ pc' = "audit" /\ pass.replay = {} /\ \A kind \in Kinds : pass.todo[kind] = {}
        /\ UNCHANGED <<rows, clock, pages, pass>>
    BY <1>5 DEF AllWritten, IInv, TypeOK
  <2>2. \A p \in Postings : rows[p] = EndsWith(p)
    BY <2>1 DEF BatchInv, HalfWritten, Writing, Waits
  <2>3. rows = [p \in Postings |-> EndsWith(p)]
    BY <2>2 DEF IInv, TypeOK
  <2>4. rows' = [p \in Postings |-> EndsWith(p)']
    BY <2>1, <2>3, EndsTheSame
  <2>5. BatchIsOneAtATime'
    BY <2>4 DEF BatchIsOneAtATime, EndsWith
  <2> QED BY <2>1, <2>5 DEF BatchInv, HalfWritten, Writing
<1>6. CASE TouchSourceJobs
  <2>1. pc' = "audit" /\ pass'.unchanged
    BY <1>6 DEF TouchSourceJobs, IInv, StageInv
  <2> QED BY <2>1 DEF BatchInv, HalfWritten, BatchIsOneAtATime, Writing
<1>7. CASE pc' \notin Writing \cup {"audit"}
  BY <1>7 DEF BatchInv, HalfWritten, BatchIsOneAtATime
<1>8. CASE UNCHANGED vars
  <2>1. UNCHANGED <<rows, clock, pages, pc, pass>>
    BY <1>8 DEF vars
  <2>2. \A p \in Postings : EndsWith(p)' = EndsWith(p) /\ Waits(p)' = Waits(p)
    BY <2>1, EndsTheSame DEF Waits, Kinds
  <2>3. HalfWritten'
    BY <2>1, <2>2 DEF BatchInv, HalfWritten
  <2>4. Seen' = Seen /\ Listed(Seen)' = Listed(Seen) /\ at' = at
    BY <2>1, SeenStays
  <2>5. BatchIsOneAtATime'
    BY <2>1, <2>4 DEF BatchInv, BatchIsOneAtATime, Store!Upserted, Store!NoJob
  <2> QED BY <2>3, <2>5 DEF BatchInv
<1> QED
  BY <1>1, <1>2, <1>3, <1>4, <1>5, <1>6, <1>7, <1>8
     DEF Next, Writing, Collect, ReplayRefused, Audit, InsertFetch, UpdateSource, Fails

\* The bulk writes of upsert_jobs, cut in requests, refused and replayed in any order, leave exactly
\* the rows upsert_job would have left one posting at a time, from the rows the pass found.
THEOREM BulkIsOneAtATime == Spec => []BatchIsOneAtATime
<1>1. Init => BatchInv
  BY DEF Init, BatchInv, HalfWritten, BatchIsOneAtATime, Writing
<1>2. IInv /\ BatchInv /\ [Next]_vars => BatchInv'
  BY BatchKeeps
<1>3. BatchInv => BatchIsOneAtATime
  BY DEF BatchInv
<1> QED BY <1>1, <1>2, <1>3, InvariantHolds, PTL DEF Spec

=============================================================================
