------------------------- MODULE AccountDeletion -------------------------
(***************************************************************************)
(* Deleting one account: POST /api/auth/delete-account and deleteAccount   *)
(* (apps/web/lib/account/deletion.ts), the two SQL functions it calls      *)
(* (migration 202608140037), and the writers that may run beside it: the   *)
(* two OAuth callbacks, an agent question, and the user's own edits.       *)
(*                                                                         *)
(* There are three stores: the database (account, token, syncs, owned,     *)
(* runs, record), Google (live, inCalendar), and the memory of each        *)
(* request. Every await of the code is a point where another request may   *)
(* run, so each call is an action of its own. Any request may die between  *)
(* two calls (Crash), every call may fail, and a failed call may have had  *)
(* its effect all the same when only the answer was lost.                  *)
(***************************************************************************)
EXTENDS Naturals, FiniteSets

CONSTANTS
    Providers,         \* the Google connections: google_calendar and gmail
    Deletions,         \* deletion requests of the one account; each may be repeated
    Callbacks,         \* OAuth callbacks of the account
    CallbackProvider,  \* the provider each callback connects
    Questions,         \* questions the account asks the agent
    Events,            \* calendar events 1stSeen may have synced
    RetryRounds,       \* length of REVOCATION_RETRY_DELAYS_MS
    MaxWrites,         \* bound on the user's own edits
    MaxFaults,         \* bound on failures of 1stSeen's own database, Auth calls and Worker
    NoToken

\* A token is named by where it came from: the connection the account starts with, or a callback.
TokenIds == Providers \cup Callbacks

ASSUME DeletionConstants ==
    /\ "google_calendar" \in Providers
    /\ CallbackProvider \in [Callbacks -> Providers]
    /\ NoToken \notin TokenIds
    /\ Callbacks \cap Providers = {}
    /\ RetryRounds \in Nat \ {0}
    /\ MaxWrites \in Nat
    /\ MaxFaults \in Nat

ASSUME FiniteEvents == IsFiniteSet(Events)

Confirmed == {"revoked", "already_invalid"}
Outcomes == Confirmed \cup {"unreachable", "refused", "undecryptable"}
StoredRevocations == Confirmed \cup {"not_connected", "unconfirmed", "not_revocable"}
OwnedRows == {"preferences", "milestone", "digest_item"}
Failures == {"deletion_failed", "sign_in_not_deleted"}
Answers == Failures \cup {"none", "unauthorized", "deleted"}
Stages == {"idle", "reading", "events", "removing", "revoking", "data", "auth", "check",
           "finish", "answered", "crashed"}
Reads == Providers \cup {"counts"}

VARIABLES
    account,     \* the auth user, and the profile that goes with it by cascade
    token,       \* provider -> the refresh token in its connection row
    stored,      \* every token the database has ever held
    syncs,       \* event -> its calendar_event_syncs row
    owned,       \* the other rows the account owns, by kind
    runs,        \* agent_runs rows that hold a question of the account
    record,      \* deletion -> its account_deletions row
    live,        \* tokens Google would still honour
    inCalendar,  \* events present in the user's Google Calendar
    asked,       \* questions already asked
    writes,      \* edits made so far
    grant,       \* callback -> the refresh token it is about to store
    cpc,         \* callback -> its stage
    faults,      \* failures of 1stSeen's own parts so far
    pc,          \* deletion -> its stage
    mem,         \* deletion -> the request's local variables
    answer       \* deletion -> what the user was told

database == <<account, token, stored, syncs, owned, runs, record>>
google == <<live, inCalendar>>
writers == <<asked, writes, grant, cpc>>
vars == <<database, google, writers, faults, pc, mem, answer>>

Absent == [p \in Providers |-> "absent"]

\* The locals of deleteAccount: the reads not answered yet, the tokens read, the counts of active
\* and of all synced events, remove_synced_events, the mappings still to delete, eventsRemoved,
\* syncedEvents, what Google said of each token, whether the deletion record's id is known, and
\* the background revocations left for each token.
Fresh == [unread |-> Reads, seen |-> [p \in Providers |-> NoToken], active |-> 0, any |-> 0,
          remove |-> FALSE, queue |-> {}, removed |-> 0, kept |-> "none",
          attempt |-> [p \in Providers |-> "not_asked"], known |-> FALSE,
          tries |-> [p \in Providers |-> 0]]

\* Events with a calendar_event_syncs row, and those still tracked as active.
Tracked == {e \in Events : syncs[e] # "none"}
Active == {e \in Events : syncs[e] = "active"}

Init ==
    /\ account = TRUE
    /\ \E held \in SUBSET Providers :
         /\ token = [p \in Providers |-> IF p \in held THEN p ELSE NoToken]
         /\ stored = held
         /\ live \in SUBSET held
    /\ syncs \in [Events -> {"none", "active", "detached"}]
    /\ inCalendar = Tracked
    /\ owned = {"preferences", "milestone"}
    /\ runs = {} /\ asked = {} /\ writes = 0 /\ faults = 0
    /\ record = [d \in Deletions |-> Absent]
    /\ grant = [c \in Callbacks |-> NoToken]
    /\ cpc = [c \in Callbacks |-> "idle"]
    /\ pc = [d \in Deletions |-> "idle"]
    /\ mem = [d \in Deletions |-> Fresh]
    /\ answer = [d \in Deletions |-> "none"]

-----------------------------------------------------------------------------
(* The deletion request. *)

Goto(d, stage) == pc' = [pc EXCEPT ![d] = stage]

\* The request's locals become r.
Hold(d, r) == mem' = [mem EXCEPT ![d] = r]

\* A failed request answers and forgets what it held.
AnswerFailure(d, what) ==
    /\ Goto(d, "answered")
    /\ answer' = [answer EXCEPT ![d] = what]
    /\ Hold(d, Fresh)

\* A failure of 1stSeen's own parts: the database, the Auth API, or the Worker.
Fault == faults < MaxFaults /\ faults' = faults + 1

\* The route checks the session, then deleteAccount issues its reads. A request that failed or
\* died may be sent again: the user is told to try again.
Start(d) ==
    /\ \/ pc[d] \in {"idle", "crashed"}
       \/ pc[d] = "answered" /\ answer[d] \in Failures
    /\ account
    /\ Goto(d, "reading")
    /\ answer' = [answer EXCEPT ![d] = "none"]
    /\ \E choice \in BOOLEAN : Hold(d, [Fresh EXCEPT !.remove = choice])
    /\ UNCHANGED <<database, google, writers, faults>>

StartWithoutSession(d) ==
    /\ pc[d] \in {"idle", "crashed"}
    /\ ~account
    /\ Goto(d, "answered")
    /\ answer' = [answer EXCEPT ![d] = "unauthorized"]
    /\ UNCHANGED <<database, google, writers, faults, mem>>

\* The reads of the first Promise.all, in any order; the two counts are taken as one.
ReadConnection(d, p) ==
    /\ pc[d] = "reading" /\ p \in mem[d].unread
    /\ Hold(d, [mem[d] EXCEPT !.unread = @ \ {p}, !.seen[p] = token[p]])
    /\ UNCHANGED <<database, google, writers, faults, pc, answer>>

CountEvents(d) ==
    /\ pc[d] = "reading" /\ "counts" \in mem[d].unread
    /\ Hold(d, [mem[d] EXCEPT !.unread = @ \ {"counts"},
                              !.active = Cardinality(Active),
                              !.any = Cardinality(Tracked),
                              !.kept = IF Tracked # {} THEN "kept" ELSE "none"])
    /\ UNCHANGED <<database, google, writers, faults, pc, answer>>

ReadFails(d) ==
    /\ pc[d] = "reading" /\ mem[d].unread # {}
    /\ Fault
    /\ AnswerFailure(d, "deletion_failed")
    /\ UNCHANGED <<database, google, writers>>

\* Synced events are removed when asked for, with a connection, and when any is still active.
MustRemove(d) == mem[d].remove /\ mem[d].seen["google_calendar"] # NoToken /\ mem[d].active > 0

ReadsDone(d) ==
    /\ pc[d] = "reading" /\ mem[d].unread = {}
    /\ Goto(d, IF MustRemove(d) THEN "events" ELSE "revoking")
    /\ UNCHANGED <<database, google, writers, faults, mem, answer>>

\* deleteSyncedGoogleEvents: the connection is read again (getCalendarAccess) and every active
\* mapping is listed.
ListMappings(d) ==
    /\ pc[d] = "events"
    /\ token["google_calendar"] # NoToken
    /\ Goto(d, "removing")
    /\ Hold(d, [mem[d] EXCEPT !.queue = Active, !.removed = Cardinality(Active)])
    /\ UNCHANGED <<database, google, writers, faults, answer>>

DeleteEvent(d, e) ==
    /\ pc[d] = "removing" /\ e \in mem[d].queue
    /\ inCalendar' = inCalendar \ {e}
    /\ Hold(d, [mem[d] EXCEPT !.queue = @ \ {e}])
    /\ UNCHANGED <<database, live, writers, faults, pc, answer>>

\* It throws when the connection is gone, a read or the token refresh fails, or Google fails a
\* deletion; the failing request may have deleted its event. The account deletion goes on.
RemovalFails(d) ==
    /\ pc[d] \in {"events", "removing"}
    /\ \/ UNCHANGED inCalendar
       \/ \E e \in mem[d].queue : inCalendar' = inCalendar \ {e}
    /\ Goto(d, "revoking")
    /\ Hold(d, [mem[d] EXCEPT !.queue = {}, !.removed = 0, !.kept = "not_removed"])
    /\ UNCHANGED <<database, live, writers, faults, answer>>

RemovalDone(d) ==
    /\ pc[d] = "removing" /\ mem[d].queue = {}
    /\ Goto(d, "revoking")
    /\ Hold(d, [mem[d] EXCEPT !.kept = IF mem[d].any > mem[d].removed THEN "kept" ELSE "removed"])
    /\ UNCHANGED <<database, google, writers, faults, answer>>

\* revokeGoogleToken, and what Google does with the token: 200 kills it, invalid_token says it
\* was dead, silence may hide either, a refusal leaves it alone.
Offer(t, outcome) ==
    \/ outcome = "revoked" /\ t \in live /\ live' = live \ {t}
    \/ outcome = "already_invalid" /\ t \notin live /\ UNCHANGED live
    \/ outcome = "unreachable" /\ live' \in {live, live \ {t}}
    \/ outcome = "refused" /\ UNCHANGED live

Revoke(d, p) ==
    /\ pc[d] = "revoking"
    /\ mem[d].seen[p] # NoToken /\ mem[d].attempt[p] = "not_asked"
    /\ \E outcome \in Outcomes :
         /\ Hold(d, [mem[d] EXCEPT !.attempt[p] = outcome])
         /\ \/ Offer(mem[d].seen[p], outcome)
            \/ outcome = "undecryptable" /\ UNCHANGED live
    /\ UNCHANGED <<database, inCalendar, writers, faults, pc, answer>>

\* Mutant: the deletion waits until Google has confirmed every revocation.
MutantRevocationsDone(d) ==
    /\ pc[d] = "revoking"
    /\ \A p \in Providers : mem[d].seen[p] # NoToken => mem[d].attempt[p] \in Confirmed
    /\ Goto(d, "data")
    /\ UNCHANGED <<database, google, writers, faults, mem, answer>>

RevocationsDone(d) ==
    /\ pc[d] = "revoking"
    /\ \A p \in Providers : mem[d].seen[p] # NoToken => mem[d].attempt[p] # "not_asked"
    /\ Goto(d, "data")
    /\ UNCHANGED <<database, google, writers, faults, mem, answer>>

\* delete_account_data, one transaction serialized on the profile row.
DataDeleted ==
    /\ owned' = {} /\ runs' = {}
    /\ syncs' = [e \in Events |-> "none"]
    /\ token' = [p \in Providers |-> NoToken]

DeleteData(d) ==
    /\ pc[d] = "data"
    /\ DataDeleted
    /\ Goto(d, "auth")
    /\ UNCHANGED <<account, stored, record, google, writers, faults, mem, answer>>

\* The call errs: rolled back, or committed with its answer lost.
DeleteDataFails(d) ==
    /\ pc[d] = "data"
    /\ Fault
    /\ DataDeleted \/ UNCHANGED <<owned, runs, syncs, token>>
    /\ AnswerFailure(d, "deletion_failed")
    /\ UNCHANGED <<account, stored, record, google, writers>>

\* Deleting the auth user cascades to the profile and to every row keyed by it. agent_runs is
\* ON DELETE SET NULL, so a run stays with the question and the actor id in its stored state.
Cascade ==
    /\ account' = FALSE
    /\ owned' = {}
    /\ syncs' = [e \in Events |-> "none"]
    /\ token' = [p \in Providers |-> NoToken]
    /\ UNCHANGED <<stored, runs, record>>

DeleteUser(d) ==
    /\ pc[d] = "auth" /\ account
    /\ "digest_item" \notin owned
    /\ Cascade
    /\ Goto(d, "finish")
    /\ UNCHANGED <<google, writers, faults, mem, answer>>

\* A digest item lists a milestone with ON DELETE RESTRICT: the cascade passes only when it does
\* not reach the milestone first.
DeleteUserPastRestrict(d) ==
    /\ pc[d] = "auth" /\ account
    /\ "digest_item" \in owned
    /\ Cascade
    /\ Goto(d, "finish")
    /\ UNCHANGED <<google, writers, faults, mem, answer>>

\* An error answer: the call failed, with or without its effect, the user was already gone, or
\* the cascade was refused.
DeleteUserErrs(d) ==
    /\ pc[d] = "auth"
    /\ \/ Fault /\ ((account /\ Cascade) \/ UNCHANGED database)
       \/ ~account /\ UNCHANGED <<database, faults>>
       \/ "digest_item" \in owned /\ UNCHANGED <<database, faults>>
    /\ Goto(d, "check")
    /\ UNCHANGED <<google, writers, mem, answer>>

\* Mutant: an error from the check counts as gone.
MutantCheckGone(d) ==
    /\ pc[d] = "check"
    /\ Goto(d, "finish")
    /\ UNCHANGED <<database, google, writers, faults, mem, answer>>

\* authUserDeleted: getUserById decides; only a user that is not found counts as deleted.
CheckGone(d) ==
    /\ pc[d] = "check"
    /\ ~account
    /\ Goto(d, "finish")
    /\ UNCHANGED <<database, google, writers, faults, mem, answer>>

\* The user is still there, or the check failed, or deleteUser threw.
NotKnownGone(d) ==
    /\ \/ pc[d] = "check" /\ account /\ UNCHANGED faults
       \/ pc[d] \in {"auth", "check"} /\ Fault
    /\ AnswerFailure(d, "sign_in_not_deleted")
    /\ UNCHANGED <<database, google, writers>>

\* storedRevocation(outcomeOf(p)).
StoredRevocation(d, p) ==
    CASE mem[d].seen[p] = NoToken -> "not_connected"
      [] mem[d].attempt[p] \in Confirmed -> mem[d].attempt[p]
      [] mem[d].attempt[p] = "unreachable" -> "unconfirmed"
      [] OTHER -> "not_revocable"

\* The record of a deletion that finish_account_deletion writes; it refuses a live account.
WriteRecord(d) ==
    ~account /\ record' = [record EXCEPT ![d] = [p \in Providers |-> StoredRevocation(d, p)]]

\* The account is gone and so it is said. The record may fail to be written, or its id be lost.
\* The tokens Google did not answer about are left for retryRevocations.
Finish(d) ==
    /\ pc[d] = "finish"
    /\ \E known \in BOOLEAN :
         /\ WriteRecord(d) \/ (~known /\ UNCHANGED record)
         /\ Hold(d, [mem[d] EXCEPT !.known = known,
                                   !.tries = [p \in Providers |->
                                       IF mem[d].attempt[p] = "unreachable" THEN RetryRounds ELSE 0]])
    /\ Goto(d, "answered")
    /\ answer' = [answer EXCEPT ![d] = "deleted"]
    /\ UNCHANGED <<account, token, stored, syncs, owned, runs, google, writers, faults>>

\* Mutant: any late answer counts as a confirmation.
MutantRecordLate(d, p, outcome) ==
    IF record[d][p] = "unconfirmed"
    THEN record' = [record EXCEPT ![d][p] = "revoked"]
    ELSE UNCHANGED record

\* record_late_google_revocation changes only a value that is still unconfirmed.
RecordLate(d, p, outcome) ==
    IF record[d][p] = "unconfirmed"
    THEN record' = [record EXCEPT ![d][p] = IF outcome \in Confirmed THEN outcome ELSE "not_revocable"]
    ELSE UNCHANGED record

\* One background round for one token: silence leaves it for the next round.
Retry(d, p) ==
    /\ pc[d] = "answered" /\ mem[d].tries[p] > 0
    /\ \E outcome \in Outcomes \ {"undecryptable"} :
         /\ Offer(mem[d].seen[p], outcome)
         /\ Hold(d, [mem[d] EXCEPT !.tries[p] = IF outcome = "unreachable" THEN @ - 1 ELSE 0])
         /\ \/ outcome # "unreachable" /\ mem[d].known /\ RecordLate(d, p, outcome)
            \/ UNCHANGED record
    /\ UNCHANGED <<account, token, stored, syncs, owned, runs, inCalendar, writers, faults, pc, answer>>

\* The Worker stops a request before its answer, at the last stage perhaps after the record is
\* written; its memory is lost.
Crash(d) ==
    /\ pc[d] \notin {"idle", "answered", "crashed"}
    /\ Fault
    /\ Goto(d, "crashed")
    /\ \/ Hold(d, Fresh) /\ UNCHANGED record
       \/ pc[d] = "finish" /\ WriteRecord(d) /\ UNCHANGED mem
    /\ UNCHANGED <<account, token, stored, syncs, owned, runs, google, writers, answer>>

-----------------------------------------------------------------------------
(* What runs beside it. *)

\* A callback that passed the session and state checks exchanges its code. Google may return a
\* refresh token or none.
Exchange(c) ==
    /\ cpc[c] = "idle"
    /\ account
    /\ \/ grant' = [grant EXCEPT ![c] = c] /\ live' = live \cup {c}
       \/ UNCHANGED <<grant, live>>
    /\ cpc' = [cpc EXCEPT ![c] = "exchanged"]
    /\ UNCHANGED <<database, inCalendar, asked, writes, faults, pc, mem, answer>>

\* It reads the stored connection and keeps its refresh token when Google returned none.
ReadExisting(c) ==
    /\ cpc[c] = "exchanged"
    /\ LET refresh == IF grant[c] = NoToken THEN token[CallbackProvider[c]] ELSE grant[c]
       IN /\ grant' = [grant EXCEPT ![c] = refresh]
          /\ cpc' = [cpc EXCEPT ![c] = IF refresh = NoToken THEN "done" ELSE "saving"]
    /\ UNCHANGED <<database, google, asked, writes, faults, pc, mem, answer>>

\* Mutant: nothing ties the connection row to a live account.
MutantSaveConnection(c) ==
    /\ cpc[c] = "saving"
    /\ token' = [token EXCEPT ![CallbackProvider[c]] = grant[c]]
    /\ stored' = stored \cup {grant[c]}
    /\ cpc' = [cpc EXCEPT ![c] = "done"]
    /\ UNCHANGED <<account, syncs, owned, runs, record, google, asked, writes, grant, faults, pc, mem, answer>>

\* The upsert is keyed by a foreign key to the profile, so it fails once the account is gone.
SaveConnection(c) ==
    /\ cpc[c] = "saving"
    /\ account
    /\ token' = [token EXCEPT ![CallbackProvider[c]] = grant[c]]
    /\ stored' = stored \cup {grant[c]}
    /\ cpc' = [cpc EXCEPT ![c] = "done"]
    /\ UNCHANGED <<account, syncs, owned, runs, record, google, asked, writes, grant, faults, pc, mem, answer>>

CallbackFails(c) ==
    /\ cpc[c] \in {"idle", "exchanged", "saving"}
    /\ cpc' = [cpc EXCEPT ![c] = "done"]
    /\ UNCHANGED <<database, google, asked, writes, grant, faults, pc, mem, answer>>

\* start_agent_run: the row carries initiated_by, a foreign key to the account.
Ask(q) ==
    /\ q \in Questions \ asked
    /\ account
    /\ asked' = asked \cup {q}
    /\ runs' = runs \cup {q}
    /\ UNCHANGED <<account, token, stored, syncs, owned, record, google, writes, grant, cpc, faults, pc, mem, answer>>

\* The user's own rows; a digest item lists a milestone.
Write(row) ==
    /\ writes < MaxWrites
    /\ account
    /\ row = "digest_item" => "milestone" \in owned
    /\ owned' = owned \cup {row}
    /\ writes' = writes + 1
    /\ UNCHANGED <<account, token, stored, syncs, runs, record, google, asked, grant, cpc, faults, pc, mem, answer>>

\* A grant may also end at Google: the user removes it there, or it expires.
EndGrant(t) ==
    /\ t \in live
    /\ live' = live \ {t}
    /\ UNCHANGED <<database, inCalendar, writers, faults, pc, mem, answer>>

Deletion(d) ==
    \/ Start(d) \/ StartWithoutSession(d)
    \/ \E p \in Providers : ReadConnection(d, p) \/ Revoke(d, p) \/ Retry(d, p)
    \/ CountEvents(d) \/ ReadFails(d) \/ ReadsDone(d)
    \/ ListMappings(d) \/ RemovalFails(d) \/ RemovalDone(d)
    \/ \E e \in Events : DeleteEvent(d, e)
    \/ RevocationsDone(d) \/ DeleteData(d) \/ DeleteDataFails(d)
    \/ DeleteUser(d) \/ DeleteUserPastRestrict(d) \/ DeleteUserErrs(d)
    \/ CheckGone(d) \/ NotKnownGone(d) \/ Finish(d) \/ Crash(d)

Callback(c) == Exchange(c) \/ ReadExisting(c) \/ SaveConnection(c) \/ CallbackFails(c)

Next ==
    \/ \E d \in Deletions : Deletion(d)
    \/ \E c \in Callbacks : Callback(c)
    \/ \E q \in Questions : Ask(q)
    \/ \E row \in OwnedRows : Write(row)
    \/ \E t \in TokenIds : EndGrant(t)

Spec == Init /\ [][Next]_vars

\* A request that began keeps going until it answers or the Worker stops, and the user repeats one
\* that did not succeed. Nothing is assumed of what Google answers, only that a call to it ends: every
\* one has a time limit. That 1stSeen's own parts fail only MaxFaults times is what the bound says.
Advance(d) ==
    \/ \E p \in Providers : ReadConnection(d, p) \/ Revoke(d, p)
    \/ CountEvents(d) \/ ReadsDone(d)
    \/ ListMappings(d) \/ RemovalFails(d) \/ RemovalDone(d)
    \/ \E e \in Events : DeleteEvent(d, e)
    \/ RevocationsDone(d) \/ DeleteData(d)
    \/ DeleteUser(d) \/ DeleteUserErrs(d) \/ CheckGone(d) \/ NotKnownGone(d) \/ Finish(d)

FairSpec == Spec /\ \A d \in Deletions : WF_vars(Advance(d)) /\ WF_vars(Start(d))

-----------------------------------------------------------------------------
(* Properties. *)

Locals == [unread : SUBSET Reads, seen : [Providers -> TokenIds \cup {NoToken}],
           active : Nat, any : Nat, remove : BOOLEAN, queue : SUBSET Events, removed : Nat,
           kept : {"none", "kept", "removed", "not_removed"},
           attempt : [Providers -> Outcomes \cup {"not_asked"}], known : BOOLEAN,
           tries : [Providers -> 0..RetryRounds]]

\* The state has its type.
TypeOK ==
    /\ account \in BOOLEAN
    /\ token \in [Providers -> TokenIds \cup {NoToken}]
    /\ stored \subseteq TokenIds
    /\ syncs \in [Events -> {"none", "active", "detached"}]
    /\ owned \subseteq OwnedRows
    /\ runs \subseteq Questions /\ asked \subseteq Questions
    /\ writes \in 0..MaxWrites /\ faults \in 0..MaxFaults
    /\ live \subseteq TokenIds
    /\ inCalendar \subseteq Events
    /\ grant \in [Callbacks -> TokenIds \cup {NoToken}]
    /\ cpc \in [Callbacks -> {"idle", "exchanged", "saving", "done"}]
    /\ pc \in [Deletions -> Stages]
    /\ mem \in [Deletions -> Locals]
    /\ answer \in [Deletions -> Answers]
    /\ record \in [Deletions -> [Providers -> StoredRevocations \cup {"absent"}]]

\* googleNotRevoked of a deletion's answer.
NotRevoked(d) == \E p \in Providers : mem[d].seen[p] # NoToken /\ mem[d].attempt[p] \notin Confirmed

\* "The user is never told the account is deleted unless the auth user is gone" (deletion.ts:36),
\* whatever failed, was lost, or ran beside it.
ToldDeletedIsGone == \A d \in Deletions : answer[d] = "deleted" => ~account

\* "No Google token is left in the database once the account is" gone (deletion.ts:37), although
\* a callback that began earlier may still be about to store one.
NoTokenOnceGone == ~account => \A p \in Providers : token[p] = NoToken

\* "Never told access was revoked unless Google said so" (deletion.ts:36): neither the landing
\* page nor the deletion record claims a token dead that Google would still honour, also after the
\* background retries changed the record.
RevokedOnlyIfGoogleSaidSo ==
    \A d \in Deletions, p \in Providers :
        (\/ record[d][p] \in Confirmed
         \/ answer[d] = "deleted" /\ ~NotRevoked(d) /\ mem[d].seen[p] # NoToken)
        => mem[d].seen[p] \notin live

\* A deletion record exists only for an account that is gone, and says a Google connection was
\* never there only when this request read none.
RecordIsOfAGoneAccount ==
    \A d \in Deletions, p \in Providers : record[d][p] # "absent" =>
        /\ ~account
        /\ (record[d][p] = "not_connected") = (mem[d].seen[p] = NoToken)

\* The record of a deletion is true in both respects, for as long as background retries may change
\* it (deletion.ts:157-186).
RecordIsTrue == RevokedOnlyIfGoogleSaidSo /\ RecordIsOfAGoneAccount

\* Nothing that Google does, or fails to do, stops a deletion (deletion.ts:14): one that was
\* requested ends with the account gone.
DeletionFinishes == \A d \in Deletions : pc[d] = "reading" ~> ~account

=============================================================================
