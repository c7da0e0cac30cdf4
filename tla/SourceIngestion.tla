------------------------- MODULE SourceIngestion -------------------------
(***************************************************************************)
(* Ingesting one source, pass after pass: SourceIngestionService.ingest    *)
(* (worker source_ingestion.py) and the repository writes it makes:        *)
(* upsert_jobs with its bulk writes and their one-at-a-time replay,        *)
(* touch_source_jobs, and record_fetch. Passes over one source do not      *)
(* overlap: every collection workflow shares one concurrency group.        *)
(*                                                                         *)
(* The page is read afresh by every pass and may list anything. Each       *)
(* request to the database is an action; the pass may end at any of them,  *)
(* because it raises or because the run is cancelled, with the request's   *)
(* effect or without. A pass refused by the site (a challenge, robots.txt, *)
(* or a page off a recruiting path) reads and writes nothing and is left   *)
(* out.                                                                    *)
(***************************************************************************)
EXTENDS Naturals, FiniteSets

CONSTANTS
    Postings,   \* identity keys of the source's postings
    Contents,   \* contents of a posting; equal exactly when the content hashes are
    None,
    MaxPasses,  \* bound on the passes
    MaxFaults   \* bound on failures that are not the postings' own

ASSUME IngestionConstants ==
    /\ None \notin Contents
    /\ None \notin [Postings -> Contents \cup {None}]
    /\ MaxPasses \in Nat /\ MaxFaults \in Nat

VARIABLES
    rows,         \* posting -> its raw_job_observations row, or NoJob
    hash,         \* sources.last_content_hash: a document, or None
    lastFetched,  \* sources.last_fetched_at
    fetch,        \* the newest source_fetches row
    clock,        \* passes begun; each runs at its own time
    pages,        \* time -> the document that pass fetched
    comparesHash, \* whether the source's adapter skips an unchanged document; it never changes
    refused,      \* postings whose row the database refuses; it never changes
    pc,           \* the stage of the pass under way
    pass,         \* its locals
    faults

vars == <<rows, hash, lastFetched, fetch, clock, pages, comparesHash, refused, pc, pass, faults>>
rigid == <<comparesHash, refused>>

Times == 0..MaxPasses

Store == INSTANCE ObservationStore WITH jobs <- rows, documentHash <- hash

NoJob == Store!NoJob
Documents == Store!Documents
Listed(document) == Store!Listed(document)
Kinds == {"created", "changed", "touched"}
NoFetch == [at |-> 0, complete |-> FALSE, unchanged |-> FALSE]

\* The locals: whether the result is complete and unchanged, the postings an incomplete one misses,
\* the rows upsert_jobs found, the postings it has yet to write, by kind, and those of a refused
\* request it writes again one by one.
NoPass == [complete |-> FALSE, unchanged |-> FALSE, missed |-> {},
           found |-> [p \in Postings |-> NoJob], todo |-> [kind \in Kinds |-> {}],
           replay |-> {}]

Init ==
    /\ rows = [p \in Postings |-> NoJob]
    /\ hash = None /\ lastFetched = 0 /\ fetch = NoFetch
    /\ clock = 0
    /\ pages = [t \in 1..MaxPasses |-> [p \in Postings |-> None]]
    /\ comparesHash \in BOOLEAN /\ refused \in SUBSET Postings
    /\ pc = "idle" /\ pass = NoPass /\ faults = 0

Fault == faults < MaxFaults /\ faults' = faults + 1

\* What the pass under way has fetched, what it extracted of it, and when.
Fetched == pages[clock]
Seen == [p \in Postings |-> IF p \in pass.missed THEN None ELSE Fetched[p]]
at == clock

-----------------------------------------------------------------------------
(* Collecting. *)

\* The document is fetched and compared with last_document_hash by the adapters that do. One that
\* differs may list the same postings. An incomplete result misses some of them, or all.
Collect ==
    /\ pc = "idle" /\ clock < MaxPasses
    /\ clock' = clock + 1
    /\ \E page \in Documents, complete, unchanged \in BOOLEAN :
         /\ unchanged => comparesHash /\ complete /\ hash = page
         /\ pages' = [pages EXCEPT ![clock'] = page]
         /\ \E missed \in SUBSET Listed(page) :
              /\ complete => missed = {}
              /\ pass' = [pass EXCEPT !.complete = complete, !.unchanged = unchanged, !.missed = missed]
         /\ pc' = IF unchanged THEN "touch" ELSE "read"
    /\ UNCHANGED <<rows, hash, lastFetched, fetch, rigid, faults>>

\* touch_source_jobs: one update of every row of the source.
Touched == [p \in Postings |-> IF rows[p] = NoJob THEN NoJob ELSE [rows[p] EXCEPT !.last = at]]

TouchSourceJobs ==
    /\ pc = "touch"
    /\ rows' = Touched
    /\ pc' = "audit"
    /\ UNCHANGED <<hash, lastFetched, fetch, clock, pages, rigid, pass, faults>>

-----------------------------------------------------------------------------
(* upsert_jobs. *)

\* What a posting of the document is, given the rows there are.
KindOf(p, there) ==
    CASE there[p] = NoJob -> "created"
      [] there[p].content = Seen[p] -> "touched"
      [] OTHER -> "changed"

\* _existing_postings, and the three batches.
ReadExisting ==
    /\ pc = "read"
    /\ pass' = [pass EXCEPT !.found = rows,
                            !.todo = [kind \in Kinds |-> {p \in Listed(Seen) : KindOf(p, rows) = kind}]]
    /\ pc' = "write"
    /\ UNCHANGED <<rows, hash, lastFetched, fetch, clock, pages, rigid, faults>>

\* The batches are written in this order, each before the next.
Current(todo) ==
    IF todo["created"] # {} THEN "created"
    ELSE IF todo["changed"] # {} THEN "changed" ELSE "touched"

\* The row a write leaves. A changed posting is rewritten whole, but for its first-seen time; an
\* unchanged one records only that it was seen.
Payload(p) == [content |-> Seen[p], first |-> at, last |-> at]

\* A changed posting is rewritten whole.
MutantRowOf(kind, p) ==
    IF kind = "touched" THEN [rows[p] EXCEPT !.last = at] ELSE Payload(p)

RowOf(kind, p) ==
    CASE kind = "created" -> Payload(p)
      [] kind = "changed" -> [Payload(p) EXCEPT !.first = rows[p].first]
      [] kind = "touched" -> [rows[p] EXCEPT !.last = at]

Written(kind, some) == [p \in Postings |-> IF p \in some THEN RowOf(kind, p) ELSE rows[p]]

\* A request holds a part of the current batch (write_chunks). The database takes it or refuses it
\* as a whole; a row that is only touched is never refused.
Chunks == (SUBSET pass.todo[Current(pass.todo)]) \ {{}}
Accepts(kind, some) == kind = "touched" \/ some \cap refused = {}
Without(some) == [pass.todo EXCEPT ![Current(pass.todo)] = @ \ some]

WriteChunk(chunk) ==
    /\ pc = "write"
    /\ Accepts(Current(pass.todo), chunk)
    /\ rows' = Written(Current(pass.todo), chunk)
    /\ pass' = [pass EXCEPT !.todo = Without(chunk)]
    /\ UNCHANGED <<hash, lastFetched, fetch, clock, pages, rigid, pc, faults>>

\* A refused request is given up.
MutantRefuseChunk(chunk) ==
    /\ pc = "write"
    /\ \/ ~Accepts(Current(pass.todo), chunk) /\ UNCHANGED faults
       \/ Fault
    /\ pass' = [pass EXCEPT !.todo = Without(chunk)]
    /\ UNCHANGED <<rows, hash, lastFetched, fetch, clock, pages, rigid, pc>>

\* The database answers an error, for a posting of the request or for the request itself.
RefuseChunk(chunk) ==
    /\ pc = "write"
    /\ \/ ~Accepts(Current(pass.todo), chunk) /\ UNCHANGED faults
       \/ Fault
    /\ pass' = [pass EXCEPT !.todo = Without(chunk), !.replay = chunk]
    /\ pc' = "replay"
    /\ UNCHANGED <<rows, hash, lastFetched, fetch, clock, pages, rigid>>

\* upsert_job: the posting is read again and written by itself.
Replay(p) ==
    /\ pc = "replay" /\ p \in pass.replay
    /\ Accepts(KindOf(p, rows), {p})
    /\ rows' = Written(KindOf(p, rows), {p})
    /\ pass' = [pass EXCEPT !.replay = @ \ {p}]
    /\ pc' = IF pass.replay = {p} THEN "write" ELSE "replay"
    /\ UNCHANGED <<hash, lastFetched, fetch, clock, pages, rigid, faults>>

AllWritten ==
    /\ pc = "write" /\ \A kind \in Kinds : pass.todo[kind] = {}
    /\ pc' = "audit"
    /\ UNCHANGED <<rows, hash, lastFetched, fetch, clock, pages, rigid, pass, faults>>

-----------------------------------------------------------------------------
(* Recording the fetch. *)

\* The archive captures and the inference decisions are written.
Audit ==
    /\ pc = "audit"
    /\ pc' = "fetch"
    /\ UNCHANGED <<rows, hash, lastFetched, fetch, clock, pages, rigid, pass, faults>>

ThisFetch == [at |-> at, complete |-> pass.complete, unchanged |-> pass.unchanged]

InsertFetch ==
    /\ pc = "fetch"
    /\ fetch' = ThisFetch
    /\ pc' = "source"
    /\ UNCHANGED <<rows, hash, lastFetched, clock, pages, rigid, pass, faults>>

\* The hash of an incomplete document is remembered too.
MutantUpdateSource ==
    /\ pc = "source"
    /\ lastFetched' = at
    /\ hash' = Fetched
    /\ pc' = "idle" /\ pass' = NoPass
    /\ UNCHANGED <<rows, fetch, clock, pages, rigid, faults>>

\* Only a complete result advances the hash, so an incomplete one is collected again.
UpdateSource ==
    /\ pc = "source"
    /\ lastFetched' = at
    /\ hash' = IF pass.complete THEN Fetched ELSE hash
    /\ pc' = "idle" /\ pass' = NoPass
    /\ UNCHANGED <<rows, fetch, clock, pages, rigid, faults>>

\* A posting refused by itself fails the source.
ReplayRefused ==
    /\ pc = "replay" /\ \E p \in pass.replay : ~Accepts(KindOf(p, rows), {p})
    /\ pc' = "idle" /\ pass' = NoPass
    /\ UNCHANGED <<rows, hash, lastFetched, fetch, clock, pages, rigid, faults>>

\* The effect a request may have had although the pass never heard of it.
LostEffect ==
    \/ UNCHANGED <<rows, fetch>>
    \/ pc = "touch" /\ rows' = Touched /\ UNCHANGED fetch
    \/ /\ pc = "write" /\ UNCHANGED fetch
       /\ \E chunk \in Chunks : /\ Accepts(Current(pass.todo), chunk)
                                /\ rows' = Written(Current(pass.todo), chunk)
    \/ /\ pc = "replay" /\ UNCHANGED fetch
       /\ \E p \in pass.replay : /\ Accepts(KindOf(p, rows), {p})
                                 /\ rows' = Written(KindOf(p, rows), {p})
    \/ pc = "fetch" /\ fetch' = ThisFetch /\ UNCHANGED rows

\* The pass ends anywhere: a request fails in a way that is not the database's answer, or the run
\* is stopped. Its memory is gone; an update of the source that took effect is UpdateSource.
Fails ==
    /\ pc # "idle" /\ Fault
    /\ LostEffect
    /\ pc' = "idle" /\ pass' = NoPass
    /\ UNCHANGED <<hash, lastFetched, clock, pages, rigid>>

Next ==
    \/ Collect \/ TouchSourceJobs \/ ReadExisting
    \/ \E chunk \in Chunks : WriteChunk(chunk) \/ RefuseChunk(chunk)
    \/ \E p \in Postings : Replay(p)
    \/ ReplayRefused \/ AllWritten \/ Audit \/ InsertFetch \/ UpdateSource \/ Fails

Spec == Init /\ [][Next]_vars

-----------------------------------------------------------------------------

Rows == [content : Contents \cup {None}, first : Times, last : Times]
Stages == {"idle", "touch", "read", "write", "replay", "audit", "fetch", "source"}
Locals == [complete : BOOLEAN, unchanged : BOOLEAN, missed : SUBSET Postings,
           found : [Postings -> Rows], todo : [Kinds -> SUBSET Postings], replay : SUBSET Postings]

\* The state has its type, rows are written by one pass at a time, and a pass has postings to
\* replay exactly while it replays.
TypeOK ==
    /\ rows \in [Postings -> Rows]
    /\ hash \in Documents \cup {None}
    /\ fetch \in [at : Times, complete : BOOLEAN, unchanged : BOOLEAN]
    /\ lastFetched \in Times /\ clock \in Times
    /\ pages \in [1..MaxPasses -> Documents]
    /\ comparesHash \in BOOLEAN /\ refused \subseteq Postings
    /\ pc \in Stages /\ pass \in Locals
    /\ faults \in 0..MaxFaults
    /\ pc # "idle" => clock > 0
    /\ (pc = "replay") = (pass.replay # {})

\* upsert_jobs leaves what upsert_job would have left, one posting at a time ("the outcome is
\* upsert_job's", repository.py:871): chunks, refusals and replays change nothing else and lose
\* nothing, in every pass that gets past its writes.
BatchIsOneAtATime ==
    pc = "audit" /\ ~pass.unchanged =>
        rows = [p \in Postings |-> IF p \in Listed(Seen)
                                   THEN Store!Upserted(pass.found[p], Seen[p], at)
                                   ELSE pass.found[p]]

\* A complete fetch, collected or skipped as unchanged, leaves every posting of its document
\* stored and seen at the fetch or later, whatever failed passes came before or after: the
\* last_document_hash shortcut never hides a posting.
NothingOnPageIsLost ==
    fetch.complete =>
        \A p \in Listed(pages[fetch.at]) : rows[p] # NoJob /\ rows[p].last >= fetch.at

\* The passes implement the store's promise: a posting keeps the time it was first seen, time does
\* not go back, and a hash is remembered of a document that is stored.
ImplementsStore == Store!Spec

=============================================================================
