--------------------------- MODULE CalendarSync ---------------------------
(***************************************************************************)
(* Google Calendar: syncing selected records (sync/route.ts, events.ts,    *)
(* google-api.ts) and disconnecting (google-calendar/route.ts), over the   *)
(* connection and the sync mappings (migration 202608140016).              *)
(*                                                                         *)
(* A record has one event id, so the calendar of a Google account holds at *)
(* most one event of it: its content, or none. An event Google has deleted *)
(* is the same as none here: whether Google answers 404 to the update or   *)
(* 409 to the insert, the code falls over to the other call. Every call of *)
(* a request is an action.                                                 *)
(***************************************************************************)
EXTENDS Naturals, FiniteSets

CONSTANTS
    Records,      \* records that can be synced, each with its kind and key
    Contents,     \* what a record's event may say; equal exactly when the fingerprints are
    Accounts,     \* Google accounts the user may connect
    Syncs,        \* sync requests in flight at once
    Disconnects,  \* disconnect requests in flight at once
    None,
    MaxGrants,    \* bound on the connections made
    MaxFaults,    \* bound on failed calls, lost answers and events the user deletes in Google
    MaxCrossedFaults  \* the same when requests cross; a request that fails there is one that stops half-way

ASSUME CalendarConstants ==
    /\ MaxGrants \in Nat \ {0}
    /\ MaxFaults \in Nat /\ MaxCrossedFaults \in 0..MaxFaults
    /\ None \notin Contents \cup Accounts \cup Records

\* A connection is named by the grant the user gave when it was made.
Grants == 1..MaxGrants
NoGrant == 0
NoMapping == [content |-> None, status |-> "none"]
Mappings == {NoMapping} \cup [content : Contents, status : {"active", "detached"}]
SyncStages == {"idle", "access", "find", "post", "put_instead", "put", "post_instead", "save"}
DisconnectStages == {"idle", "read", "list", "remove", "revoke", "forget"}

VARIABLES
    connection,  \* the grant in the google_calendar_connections row, or NoGrant
    account,     \* grant -> the Google account that gave it
    revoked,     \* grants Google has revoked
    offered,     \* grants offered to Google for revocation
    mapping,     \* record -> its calendar_event_syncs row
    calendar,    \* account, record -> the event's content, or None
    accepted,    \* record -> contents Google has taken for its event
    spc, sync,   \* sync request -> its stage and locals
    dpc, disc,   \* disconnect request -> its stage and locals
    written,     \* the record the last step answered created or updated, if it did
    oneAtATime,  \* whether the user does one thing at a time; it never changes
    faults

google == <<account, revoked, calendar, accepted>>
syncing == <<spc, sync>>
disconnecting == <<dpc, disc>>
vars == <<connection, offered, mapping, google, syncing, disconnecting, written, oneAtATime, faults>>

NoSync == [record |-> None, content |-> None, grant |-> NoGrant]
SyncLocals == {NoSync} \cup [record : Records, content : Contents, grant : 0..MaxGrants]
DisconnectLocals ==
    [remove : BOOLEAN, grant : 0..MaxGrants, access : 0..MaxGrants, queue : SUBSET Records,
     todo : SUBSET {"mappings", "connection"}]
NoDisconnect ==
    [remove |-> FALSE, grant |-> NoGrant, access |-> NoGrant, queue |-> {}, todo |-> {}]

Init ==
    /\ connection = NoGrant
    /\ account = [g \in Grants |-> None]
    /\ revoked = {} /\ offered = {}
    /\ mapping = [r \in Records |-> NoMapping]
    /\ calendar = [a \in Accounts |-> [r \in Records |-> None]]
    /\ accepted = [r \in Records |-> {}]
    /\ spc = [s \in Syncs |-> "idle"]
    /\ sync = [s \in Syncs |-> NoSync]
    /\ dpc = [d \in Disconnects |-> "idle"]
    /\ disc = [d \in Disconnects |-> NoDisconnect]
    /\ written = None
    /\ oneAtATime \in BOOLEAN
    /\ faults = 0

Fault ==
    /\ faults < (IF oneAtATime THEN MaxFaults ELSE MaxCrossedFaults)
    /\ faults' = faults + 1
    /\ UNCHANGED oneAtATime
NoFault == UNCHANGED <<faults, oneAtATime>>
Silent == written' = None

Quiescent == (\A s \in Syncs : spc[s] = "idle") /\ (\A d \in Disconnects : dpc[d] = "idle")
MayStart == oneAtATime => Quiescent

-----------------------------------------------------------------------------
(* Google. *)

\* The calendar a grant gives access to; a revoked grant gives none.
Reaches(g) == g # NoGrant /\ g \notin revoked
CalendarOf(g) == calendar[account[g]]

\* The event of record r becomes `content` in the calendar of g.
Write(g, r, content) ==
    /\ calendar' = [calendar EXCEPT ![account[g]][r] = content]
    /\ accepted' = IF content = None THEN accepted ELSE [accepted EXCEPT ![r] = @ \cup {content}]
    /\ UNCHANGED <<account, revoked>>

\* The user connects an account: the OAuth callback stores a new grant over whatever was there.
Connect(a) ==
    /\ MayStart
    /\ \E g \in Grants :
         /\ account[g] = None /\ \A h \in Grants : h < g => account[h] # None
         /\ account' = [account EXCEPT ![g] = a]
         /\ connection' = g
    /\ NoFault /\ Silent
    /\ UNCHANGED <<offered, mapping, revoked, calendar, accepted, syncing, disconnecting>>

\* "A user may delete the external event directly" (sync/route.ts).
UserDeletes(a, r) ==
    /\ MayStart /\ Fault /\ calendar[a][r] # None
    /\ calendar' = [calendar EXCEPT ![a][r] = None]
    /\ Silent
    /\ UNCHANGED <<connection, offered, mapping, account, revoked, accepted, syncing, disconnecting>>

-----------------------------------------------------------------------------
(* A sync request. *)

SyncGoto(s, stage) == spc' = [spc EXCEPT ![s] = stage]
SyncFailed(s) ==
    /\ SyncGoto(s, "idle")
    /\ sync' = [sync EXCEPT ![s] = NoSync]
    /\ Silent

\* A record is done: the request ends, or goes on to its next record with the access it has.
RecordDone(s) ==
    \/ SyncGoto(s, "idle") /\ sync' = [sync EXCEPT ![s] = NoSync]
    \/ /\ SyncGoto(s, "find")
       /\ \E r \in Records, c \in Contents :
            sync' = [sync EXCEPT ![s] = [@ EXCEPT !.record = r, !.content = c]]

StartSync(s) ==
    /\ spc[s] = "idle" /\ MayStart
    /\ \E r \in Records, c \in Contents :
         sync' = [sync EXCEPT ![s] = [@ EXCEPT !.record = r, !.content = c]]
    /\ SyncGoto(s, "access")
    /\ NoFault /\ Silent
    /\ UNCHANGED <<connection, offered, mapping, google, disconnecting>>

\* getCalendarAccess: the token and the calendar, or google_calendar_not_connected.
GetAccess(s) ==
    /\ spc[s] = "access"
    /\ IF connection = NoGrant
       THEN SyncFailed(s)
       ELSE /\ sync' = [sync EXCEPT ![s].grant = connection]
            /\ SyncGoto(s, "find") /\ Silent
    /\ NoFault
    /\ UNCHANGED <<connection, offered, mapping, google, disconnecting>>

\* find: the mapping, whatever its status. Equal fingerprints end the sync.
Find(s) ==
    LET here == mapping[sync[s].record]
    IN  /\ spc[s] = "find"
        /\ \/ /\ here.status # "none" /\ here.content = sync[s].content
              /\ RecordDone(s) /\ Silent
           \/ /\ here.status # "none" /\ here.content # sync[s].content
              /\ SyncGoto(s, "put") /\ Silent /\ UNCHANGED sync
           \/ /\ here.status = "none"
              /\ SyncGoto(s, "post") /\ Silent /\ UNCHANGED sync
        /\ NoFault
        /\ UNCHANGED <<connection, offered, mapping, google, disconnecting>>

Inserting == {"post", "post_instead"}
Updating == {"put", "put_instead"}

\* POST inserts an event that is not there (409 if it is), PUT updates one that is (404 if not).
Insert(s, duplicate) ==
    /\ Reaches(sync[s].grant)
    /\ IF CalendarOf(sync[s].grant)[sync[s].record] = None
       THEN Write(sync[s].grant, sync[s].record, sync[s].content) /\ SyncGoto(s, "save")
       ELSE SyncGoto(s, duplicate) /\ UNCHANGED google

Update(s, missing) ==
    /\ Reaches(sync[s].grant)
    /\ IF CalendarOf(sync[s].grant)[sync[s].record] # None
       THEN Write(sync[s].grant, sync[s].record, sync[s].content) /\ SyncGoto(s, "save")
       ELSE SyncGoto(s, missing) /\ UNCHANGED google

\* The two adapters of the route: POST falls over to PUT on 409, PUT to POST on 404, once.
CallGoogle(s) ==
    /\ \/ spc[s] = "post" /\ Insert(s, "put_instead")
       \/ spc[s] = "put_instead" /\ CalendarOf(sync[s].grant)[sync[s].record] # None /\ Update(s, "save")
       \/ spc[s] = "put" /\ Update(s, "post_instead")
       \/ /\ spc[s] = "post_instead" /\ CalendarOf(sync[s].grant)[sync[s].record] = None
          /\ Insert(s, "save")
    /\ NoFault /\ Silent
    /\ UNCHANGED <<connection, offered, mapping, sync, disconnecting>>

\* The second call is refused as well, because another request came between, or the grant is
\* revoked: the sync fails.
GoogleRefuses(s) ==
    /\ \/ spc[s] = "put_instead" /\ CalendarOf(sync[s].grant)[sync[s].record] = None
       \/ spc[s] = "post_instead" /\ CalendarOf(sync[s].grant)[sync[s].record] # None
       \/ spc[s] \in Inserting \cup Updating /\ ~Reaches(sync[s].grant)
    /\ SyncFailed(s)
    /\ NoFault
    /\ UNCHANGED <<connection, offered, mapping, google, disconnecting>>

\* The mapping is written active, over whatever is there.
Save(s) ==
    /\ spc[s] = "save"
    /\ mapping' = [mapping EXCEPT ![sync[s].record] =
                     [content |-> sync[s].content, status |-> "active"]]
    /\ RecordDone(s) /\ written' = sync[s].record
    /\ NoFault
    /\ UNCHANGED <<connection, offered, google, disconnecting>>

\* A call fails. A write that fails may have had its effect.
SyncFails(s) ==
    /\ spc[s] # "idle" /\ Fault
    /\ SyncFailed(s)
    /\ \/ UNCHANGED <<mapping, google>>
       \/ /\ spc[s] \in Inserting \cup Updating /\ Reaches(sync[s].grant)
          /\ (spc[s] \in Inserting) = (CalendarOf(sync[s].grant)[sync[s].record] = None)
          /\ Write(sync[s].grant, sync[s].record, sync[s].content)
          /\ UNCHANGED mapping
       \/ /\ spc[s] = "save"
          /\ mapping' = [mapping EXCEPT ![sync[s].record] =
                           [content |-> sync[s].content, status |-> "active"]]
          /\ UNCHANGED google
    /\ UNCHANGED <<connection, offered, disconnecting>>

-----------------------------------------------------------------------------
(* A disconnect request. *)

DiscGoto(d, stage) == dpc' = [dpc EXCEPT ![d] = stage]
DiscEnds(d) ==
    /\ DiscGoto(d, "idle")
    /\ disc' = [disc EXCEPT ![d] = NoDisconnect]
    /\ Silent

StartDisconnect(d) ==
    /\ dpc[d] = "idle" /\ MayStart
    /\ \E remove \in BOOLEAN : disc' = [disc EXCEPT ![d].remove = remove]
    /\ DiscGoto(d, "read")
    /\ NoFault /\ Silent
    /\ UNCHANGED <<connection, offered, mapping, google, syncing>>

\* The connection is read; with none there is nothing to do (204).
ReadConnection(d) ==
    /\ dpc[d] = "read"
    /\ IF connection = NoGrant
       THEN DiscEnds(d)
       ELSE /\ disc' = [disc EXCEPT ![d].grant = connection]
            /\ DiscGoto(d, IF disc[d].remove THEN "list" ELSE "revoke") /\ Silent
    /\ NoFault
    /\ UNCHANGED <<connection, offered, mapping, google, syncing>>

Active == {r \in Records : mapping[r].status = "active"}

\* deleteSyncedGoogleEvents reads the connection again, and the active mappings.
ListEvents(d) ==
    /\ dpc[d] = "list"
    /\ IF connection = NoGrant
       THEN DiscEnds(d)
       ELSE /\ disc' = [disc EXCEPT ![d].access = connection, ![d].queue = Active]
            /\ DiscGoto(d, "remove") /\ Silent
    /\ NoFault
    /\ UNCHANGED <<connection, offered, mapping, google, syncing>>

\* One event is deleted; one that is already gone counts as deleted.
RemoveEvent(d) ==
    /\ dpc[d] = "remove"
    /\ \E r \in disc[d].queue :
         /\ disc' = [disc EXCEPT ![d].queue = @ \ {r}]
         /\ Reaches(disc[d].access)
         /\ Write(disc[d].access, r, None)
    /\ NoFault /\ Silent
    /\ UNCHANGED <<connection, offered, mapping, syncing, dpc>>

\* An event that cannot be deleted ends the request with everything else untouched.
RemovalFails(d) ==
    /\ \/ dpc[d] \in {"read", "list"} /\ Fault
       \/ /\ dpc[d] = "remove" /\ disc[d].queue # {}
          /\ Fault \/ (~Reaches(disc[d].access) /\ NoFault)
    /\ DiscEnds(d)
    /\ UNCHANGED <<connection, offered, mapping, google, syncing>>

EventsRemoved(d) ==
    /\ dpc[d] = "remove" /\ disc[d].queue = {}
    /\ DiscGoto(d, "revoke")
    /\ disc' = [disc EXCEPT ![d].access = NoGrant]
    /\ NoFault /\ Silent
    /\ UNCHANGED <<connection, offered, mapping, google, syncing>>

\* Only a disconnect that removes the events revokes.
MutantRevoke(d) ==
    /\ dpc[d] = "revoke"
    /\ offered' = IF disc[d].remove THEN offered \cup {disc[d].grant} ELSE offered
    /\ revoked' = offered'
    /\ DiscGoto(d, "forget")
    /\ disc' = [disc EXCEPT ![d].todo = {"mappings", "connection"}, ![d].grant = NoGrant]
    /\ NoFault /\ Silent
    /\ UNCHANGED <<connection, mapping, account, calendar, accepted, syncing>>

\* The grant read at the start is offered to Google, and the request goes on whatever it answers.
Revoke(d) ==
    /\ dpc[d] = "revoke"
    /\ offered' = offered \cup {disc[d].grant}
    /\ revoked' \in {revoked, revoked \cup {disc[d].grant}}
    /\ DiscGoto(d, "forget")
    /\ disc' = [disc EXCEPT ![d].todo = {"mappings", "connection"}, ![d].grant = NoGrant]
    /\ NoFault /\ Silent
    /\ UNCHANGED <<connection, mapping, account, calendar, accepted, syncing>>

\* The mappings are only ever detached when the events are kept.
MutantForget(d, part) ==
    /\ dpc[d] = "forget" /\ part = "mappings"
    /\ mapping' = IF disc[d].remove THEN mapping
                  ELSE [r \in Records |-> IF mapping[r].status = "none" THEN NoMapping
                                          ELSE [mapping[r] EXCEPT !.status = "detached"]]
    /\ connection' = NoGrant
    /\ DiscEnds(d)
    /\ NoFault
    /\ UNCHANGED <<offered, google, syncing>>

\* Two statements of one Promise.all, in either order: the mappings are deleted, or all detached,
\* and the connection, whichever it is by now, is deleted.
Forget(d, part) ==
    /\ dpc[d] = "forget" /\ part \in disc[d].todo
    /\ IF part = "mappings"
       THEN /\ mapping' = [r \in Records |->
                  IF disc[d].remove \/ mapping[r].status = "none" THEN NoMapping
                  ELSE [mapping[r] EXCEPT !.status = "detached"]]
            /\ UNCHANGED connection
       ELSE connection' = NoGrant /\ UNCHANGED mapping
    /\ IF disc[d].todo = {part}
       THEN DiscEnds(d)
       ELSE /\ disc' = [disc EXCEPT ![d].todo = @ \ {part}]
            /\ Silent /\ UNCHANGED dpc
    /\ NoFault
    /\ UNCHANGED <<offered, google, syncing>>

ForgetFails(d) ==
    /\ dpc[d] = "forget" /\ Fault
    /\ DiscEnds(d)
    /\ UNCHANGED <<connection, offered, mapping, google, syncing>>

Next ==
    \/ \E a \in Accounts : Connect(a) \/ \E r \in Records : UserDeletes(a, r)
    \/ \E s \in Syncs :
         \/ StartSync(s) \/ GetAccess(s) \/ Find(s) \/ CallGoogle(s) \/ GoogleRefuses(s)
         \/ Save(s) \/ SyncFails(s)
    \/ \E d \in Disconnects :
         \/ StartDisconnect(d) \/ ReadConnection(d) \/ ListEvents(d) \/ RemoveEvent(d)
         \/ RemovalFails(d) \/ EventsRemoved(d) \/ Revoke(d) \/ ForgetFails(d)
         \/ \E part \in {"mappings", "connection"} : Forget(d, part)

Spec == Init /\ [][Next]_vars

-----------------------------------------------------------------------------

\* Types; a request past its access step holds a grant.
TypeOK ==
    /\ connection \in 0..MaxGrants
    /\ account \in [Grants -> Accounts \cup {None}]
    /\ revoked \subseteq offered /\ offered \subseteq Grants
    /\ mapping \in [Records -> Mappings]
    /\ calendar \in [Accounts -> [Records -> Contents \cup {None}]]
    /\ accepted \in [Records -> SUBSET Contents]
    /\ spc \in [Syncs -> SyncStages] /\ sync \in [Syncs -> SyncLocals]
    /\ dpc \in [Disconnects -> DisconnectStages] /\ disc \in [Disconnects -> DisconnectLocals]
    /\ written \in Records \cup {None}
    /\ \A s \in Syncs : spc[s] \notin {"idle", "access"} => sync[s].grant # NoGrant
    /\ \A d \in Disconnects : dpc[d] \in {"list", "remove", "revoke"} => disc[d].grant # NoGrant
    /\ oneAtATime \in BOOLEAN
    /\ faults \in 0..MaxFaults

\* A sync that answers created or updated has left the event, in the calendar that is connected,
\* with the content its mapping records, whatever an earlier sync left half done and whatever
\* the user deleted. Requests that cross break it.
WrittenIsExact ==
    oneAtATime /\ written # None =>
        /\ mapping[written].status = "active"
        /\ Reaches(connection)
        /\ CalendarOf(connection)[written] = mapping[written].content

\* The fingerprint of a mapping is of content Google took for that record's event: the mapping
\* is written after the event, never before, however requests cross and fail.
FingerprintWasAccepted ==
    \A r \in Records : mapping[r].status # "none" => mapping[r].content \in accepted[r]

\* As long as the user does one thing at a time, with one account, and nothing fails, an active
\* mapping says what its event says.
ActiveIsExact ==
    oneAtATime /\ Quiescent /\ faults = 0 =>
        \A r \in Records, a \in Accounts :
            mapping[r].status = "active" /\ (\A g \in Grants : account[g] \in {None, a}) =>
                calendar[a][r] = mapping[r].content

\* What a mapping says of the calendar, after any crossing of syncs and a disconnect, and exactly when
\* they do not cross (events.ts:100-120, google-api.ts:83-96).
MappingIsTrue == WrittenIsExact /\ FingerprintWasAccepted /\ ActiveIsExact

\* Both ways of disconnecting "revoke the grant on a best-effort basis and delete the locally
\* stored OAuth credentials" (docs/google-calendar-integration.md): credentials that are deleted
\* have been offered to Google. A reconnect that crosses a disconnect breaks it.
OfferedBeforeForgotten ==
    [][oneAtATime /\ connection # NoGrant /\ connection' = NoGrant => connection \in offered']_vars

=============================================================================
