---------------------------- MODULE GuestCache ----------------------------
(***************************************************************************)
(* The edge cache of guest pages (cloudflare/guest-cache.ts, index.ts) and *)
(* the public data version it is keyed by (migrations 202608140031 and     *)
(* 202608140062): a sequence that a trigger advances after every statement *)
(* on a table a guest page reads.                                          *)
(*                                                                         *)
(* One page is modelled; what it shows is the set of committed writes it   *)
(* was rendered from. A sequence is not transactional: its new value is    *)
(* read by others before the statement that advanced it commits, and stays *)
(* when it rolls back. `late` are the statements that did not commit in    *)
(* the same instant.                                                       *)
(***************************************************************************)
EXTENDS Naturals

CONSTANTS
    Writes,          \* statements on the tables guest pages read
    Visitors,        \* guest requests for the page in flight at once; each may be made again
    Isolates,        \* Worker isolates, each with its own memo of the version
    IsolateOf,       \* visitor -> the isolate that serves it
    BuildOf,         \* isolate -> the Worker version it runs
    Builds,
    MemoTicks,       \* VERSION_MEMO_MS
    PageTicks,       \* GUEST_PAGE_TTL_SECONDS
    RequestTicks,    \* the longest a request takes, its background put included
    CacheMaxTime,         \* bound on the clock
    MaxVersion,      \* bound on the sequence
    NoVersion,       \* no version could be read
    Absent

ASSUME CacheConstants ==
    /\ IsolateOf \in [Visitors -> Isolates]
    /\ BuildOf \in [Isolates -> Builds]
    /\ MemoTicks \in Nat \ {0}
    /\ PageTicks \in Nat
    /\ RequestTicks \in Nat
    /\ CacheMaxTime \in Nat
    /\ MaxVersion \in Nat
    /\ NoVersion \notin Nat
    /\ Absent \notin [content : SUBSET Writes, at : 0..CacheMaxTime]

CacheTimes == 0..CacheMaxTime
Never == CacheMaxTime + 1
Versions == Nat \cup {NoVersion}
Pages == [content : SUBSET Writes, at : CacheTimes]
ReaderStages == {"idle", "asking", "read", "match", "render", "put"}

VARIABLES
    cacheNow,
    sequence,   \* public_data_version_seq
    bump,       \* write -> the value its trigger advanced the sequence to, or 0
    committed,  \* write -> when it committed, or Never
    late,       \* writes that had not committed when the sequence was advanced
    memo,       \* isolate -> the remembered version and when it expires, or Absent
    cache,      \* build, version -> the stored page, or Absent
    readerPc, began, version, page,  \* visitor -> its stage, when it began, the version, the page rendered
    shown       \* the page the last step showed a visitor, and when

database == <<sequence, bump, committed, late>>
locals == <<readerPc, began, version, page>>
cacheVars == <<cacheNow, database, memo, cache, locals, shown>>

Committed == {w \in Writes : committed[w] <= cacheNow}

\* The key of the page: the Worker version that rendered it and the public data version.
CacheKeys == Builds \X (0..MaxVersion)
Build(v) == BuildOf[IsolateOf[v]]
CacheKey(v) == <<Build(v), version[v]>>

CacheInit ==
    /\ cacheNow = 0
    /\ sequence = 0
    /\ bump = [w \in Writes |-> 0]
    /\ committed = [w \in Writes |-> Never]
    /\ late = {}
    /\ memo = [i \in Isolates |-> Absent]
    /\ cache = [k \in CacheKeys |-> Absent]
    /\ readerPc = [v \in Visitors |-> "idle"]
    /\ began = [v \in Visitors |-> 0]
    /\ version = [v \in Visitors |-> NoVersion]
    /\ page = [v \in Visitors |-> {}]
    /\ shown = Absent

-----------------------------------------------------------------------------
(* The writers. *)

\* A step that shows nothing.
Quiet == shown' = Absent

\* A trigger dropped from a table that guest pages read.
MutantWrite(w) ==
    /\ bump[w] = 0
    /\ bump' = [bump EXCEPT ![w] = sequence + 1]
    /\ committed' = [committed EXCEPT ![w] = cacheNow]
    /\ UNCHANGED <<cacheNow, sequence, late, memo, cache, locals>>
    /\ Quiet

\* A statement on a tracked table: its trigger advances the sequence. Its transaction may commit
\* in the same instant.
Write(w) ==
    /\ bump[w] = 0
    /\ sequence < MaxVersion
    /\ sequence' = sequence + 1
    /\ bump' = [bump EXCEPT ![w] = sequence + 1]
    /\ \/ committed' = [committed EXCEPT ![w] = cacheNow] /\ UNCHANGED late
       \/ late' = late \cup {w} /\ UNCHANGED committed
    /\ UNCHANGED <<cacheNow, memo, cache, locals>>
    /\ Quiet

\* A late transaction commits; one that never does has rolled back.
Commit(w) ==
    /\ w \in late /\ committed[w] = Never
    /\ committed' = [committed EXCEPT ![w] = cacheNow]
    /\ UNCHANGED <<cacheNow, sequence, bump, late, memo, cache, locals>>
    /\ Quiet

-----------------------------------------------------------------------------
(* A guest's request. *)

Goto(v, stage) == readerPc' = [readerPc EXCEPT ![v] = stage]
Memo(v) == memo[IsolateOf[v]]
Show(content) == shown' = [content |-> content, at |-> cacheNow]

\* The request is over; its locals are forgotten.
Finish(v) ==
    /\ Goto(v, "idle")
    /\ began' = [began EXCEPT ![v] = 0]
    /\ version' = [version EXCEPT ![v] = NoVersion]
    /\ page' = [page EXCEPT ![v] = {}]

\* memoizedVersion: the remembered version while it lasts, otherwise one is asked for.
Begin(v) ==
    /\ readerPc[v] = "idle"
    /\ began' = [began EXCEPT ![v] = cacheNow]
    /\ IF Memo(v) # Absent /\ Memo(v).expires > cacheNow
       THEN version' = [version EXCEPT ![v] = Memo(v).value] /\ Goto(v, "match")
       ELSE Goto(v, "asking") /\ UNCHANGED version
    /\ UNCHANGED <<cacheNow, database, memo, cache, page>>
    /\ Quiet

\* The database answers public_data_version().
ReadVersion(v) ==
    /\ readerPc[v] = "asking"
    /\ version' = [version EXCEPT ![v] = sequence]
    /\ Goto(v, "read")
    /\ UNCHANGED <<cacheNow, database, memo, cache, began, page>>
    /\ Quiet

\* A memo that lasts from the answer.
MutantRemember(v) ==
    /\ readerPc[v] = "read"
    /\ memo' = [memo EXCEPT ![IsolateOf[v]] =
                  [value |-> version[v], expires |-> cacheNow + MemoTicks]]
    /\ Goto(v, "match")
    /\ UNCHANGED <<cacheNow, database, cache, began, version, page>>
    /\ Quiet

\* The answer reaches the isolate, maybe after that of a later request. It is remembered from when
\* it was asked for, not from when it came.
Remember(v) ==
    /\ readerPc[v] = "read"
    /\ memo' = [memo EXCEPT ![IsolateOf[v]] =
                  [value |-> version[v], expires |-> began[v] + MemoTicks]]
    /\ Goto(v, "match")
    /\ UNCHANGED <<cacheNow, database, cache, began, version, page>>
    /\ Quiet

\* A version that cannot be read is not remembered, and the page is rendered and not stored.
ReadFails(v) ==
    /\ readerPc[v] = "asking"
    /\ memo' = [memo EXCEPT ![IsolateOf[v]] = Absent]
    /\ Goto(v, "render")
    /\ UNCHANGED <<cacheNow, database, cache, began, version, page>>
    /\ Quiet

Live(key) == cache[key] # Absent /\ cache[key].at + PageTicks > cacheNow

Match(v) ==
    /\ readerPc[v] = "match"
    /\ \/ Live(CacheKey(v)) /\ Show(cache[CacheKey(v)].content) /\ Finish(v)
       \/ ~Live(CacheKey(v)) /\ Goto(v, "render") /\ UNCHANGED <<began, version, page>> /\ Quiet
    /\ UNCHANGED <<cacheNow, database, memo, cache>>

\* The page is rendered from what is committed. A page that is not a plain 200 document, or that
\* has no version, is shown and not stored.
Render(v) ==
    /\ readerPc[v] = "render"
    /\ Show(Committed)
    /\ \/ /\ version[v] # NoVersion
          /\ page' = [page EXCEPT ![v] = Committed]
          /\ Goto(v, "put") /\ UNCHANGED <<began, version>>
       \/ Finish(v)
    /\ UNCHANGED <<cacheNow, database, memo, cache>>

Stored(v) == [content |-> page[v], at |-> cacheNow]

\* A put under the version of the moment it is made, as reading it again would give.
MutantPut(v) ==
    /\ readerPc[v] = "put"
    /\ cache' = [cache EXCEPT ![<<Build(v), sequence>>] = Stored(v)]
    /\ Finish(v)
    /\ UNCHANGED <<cacheNow, database, memo>>
    /\ Quiet

\* The put runs after the response, under the version read before the render, and may fail.
Put(v) ==
    /\ readerPc[v] = "put"
    /\ cache' \in {cache, [cache EXCEPT ![CacheKey(v)] = Stored(v)]}
    /\ Finish(v)
    /\ UNCHANGED <<cacheNow, database, memo>>
    /\ Quiet

\* Cloudflare may drop a stored page at any time.
Evict(key) ==
    /\ cache[key] # Absent
    /\ cache' = [cache EXCEPT ![key] = Absent]
    /\ UNCHANGED <<cacheNow, database, memo, locals>>
    /\ Quiet

Serve(v) ==
    \/ Begin(v) \/ ReadVersion(v) \/ Remember(v) \/ ReadFails(v)
    \/ Match(v) \/ Render(v) \/ Put(v)

\* Time passes, but no request outlives RequestTicks.
CacheTick ==
    /\ cacheNow < CacheMaxTime
    /\ \A v \in Visitors : readerPc[v] = "idle" \/ cacheNow < began[v] + RequestTicks
    /\ cacheNow' = cacheNow + 1
    /\ UNCHANGED <<database, memo, cache, locals>>
    /\ Quiet

CacheNext ==
    \/ \E w \in Writes : Write(w) \/ Commit(w)
    \/ \E v \in Visitors : Serve(v)
    \/ \E k \in CacheKeys : Evict(k)
    \/ CacheTick

CacheSpec == CacheInit /\ [][CacheNext]_cacheVars

-----------------------------------------------------------------------------
(* Properties. *)

\* Every variable has its type.
CacheTypeOK ==
    /\ cacheNow \in CacheTimes
    /\ sequence \in 0..MaxVersion
    /\ bump \in [Writes -> Nat]
    /\ committed \in [Writes -> 0..Never]
    /\ late \subseteq Writes
    /\ memo \in [Isolates -> {Absent} \cup [value : Nat, expires : Nat]]
    /\ cache \in [CacheKeys -> {Absent} \cup Pages]
    /\ readerPc \in [Visitors -> ReaderStages]
    /\ began \in [Visitors -> CacheTimes]
    /\ version \in [Visitors -> Versions]
    /\ \A v \in Visitors : readerPc[v] \in {"read", "match", "put"} => version[v] # NoVersion
    /\ \A v \in Visitors : readerPc[v] \in {"idle", "asking"} => version[v] = NoVersion
    /\ page \in [Visitors -> SUBSET Writes]
    /\ shown \in {Absent} \cup Pages

\* The page shown has every one of these writes that committed at least `ticks` before.
FreshWithin(ticks, writes) ==
    shown # Absent =>
        \A w \in writes : committed[w] + ticks <= shown.at => w \in shown.content

\* A write purges every guest page everywhere at once, with no purge call: a guest no longer sees
\* the page as it was before the write, once the remembered versions have run out
\* (guest-cache.ts 9-12). That is so of a write that commits as it advances the version.
PurgedWithTheMemo == FreshWithin(MemoTicks + RequestTicks, Writes \ late)

\* Whatever a write's transaction does, no guest sees a page older than the lifetime of a stored
\* page, and the requests that stored it and read it (guest-cache.ts 12).
GoneWithTheLifetime == FreshWithin(PageTicks + 2 * RequestTicks, Writes)

\* How old a page a guest can be shown, of writes that commit at once and of all.
GuestSeesWrites == PurgedWithTheMemo /\ GoneWithTheLifetime

\* What makes the version a key: a page stored under it shows every write that had advanced the
\* sequence to it or below, the late ones aside (guest-cache.ts 102-110, 132-181).
KeyCoversContent ==
    \A k \in CacheKeys : cache[k] # Absent =>
        \A w \in Writes \ late : bump[w] # 0 /\ bump[w] <= k[2] => w \in cache[k].content

=============================================================================
