------------------------- MODULE ObservationStore -------------------------
(***************************************************************************)
(* What ingesting one source promises of its stored postings: the          *)
(* semantics of MemoryObservationStore (worker source_ingestion.py), the   *)
(* "deterministic test/local store implementing production dedupe          *)
(* semantics". A posting is stored once, keeps the time it was first seen, *)
(* and takes the content and the time of the last pass that saw it. A      *)
(* document's hash is remembered only when every posting of the document   *)
(* is stored as the document has it, so that an equal document may be      *)
(* skipped.                                                                *)
(***************************************************************************)
EXTENDS Naturals

CONSTANTS
    Postings,  \* identity keys of the source's postings
    Contents,  \* contents of a posting; equal exactly when the content hashes are
    None,
    Times      \* when a posting may be seen

NoJob == [content |-> None, first |-> 0, last |-> 0]

\* A document is the postings it lists, each with its content; its hash is the document.
Documents == [Postings -> Contents \cup {None}]
Listed(document) == {p \in Postings : document[p] # None}

VARIABLES
    jobs,          \* posting -> its row, or NoJob
    documentHash   \* the hash the next pass compares with, or None

Init ==
    /\ jobs = [p \in Postings |-> NoJob]
    /\ documentHash = None

\* upsert_job: created, unchanged, or changed.
Upserted(job, content, at) ==
    [content |-> content, first |-> IF job = NoJob THEN at ELSE job.first, last |-> at]

\* Some postings of a document are upserted at a time no earlier than any before.
Upsert(document, some, at) ==
    /\ some \subseteq Listed(document)
    /\ at > 0 /\ \A p \in Postings : jobs[p].last <= at
    /\ jobs' = [p \in Postings |-> IF p \in some THEN Upserted(jobs[p], document[p], at) ELSE jobs[p]]
    /\ UNCHANGED documentHash

\* touch_source_jobs: every posting the source ever had was seen again.
Touch(at) ==
    /\ at > 0 /\ \A p \in Postings : jobs[p].last <= at
    /\ jobs' = [p \in Postings |-> IF jobs[p] = NoJob THEN NoJob ELSE [jobs[p] EXCEPT !.last = at]]
    /\ UNCHANGED documentHash

\* record_fetch of a complete result.
Record(document) ==
    /\ \A p \in Listed(document) : jobs[p].content = document[p]
    /\ documentHash' = document
    /\ UNCHANGED jobs

Next ==
    \/ \E document \in Documents, at \in Times : \E some \in SUBSET Postings : Upsert(document, some, at)
    \/ \E at \in Times : Touch(at)
    \/ \E document \in Documents : Record(document)

Spec == Init /\ [][Next]_<<jobs, documentHash>>

=============================================================================
