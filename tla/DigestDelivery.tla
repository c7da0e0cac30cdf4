-------------------------- MODULE DigestDelivery --------------------------
(***************************************************************************)
(* Sending an email digest: POST /api/digests/send (route.ts), Gmail       *)
(* (lib/email-digests/gmail-api.ts) and the two delivery tables            *)
(* (migration 202608140017), whose constraints are part of the protocol:   *)
(* one delivery row per fingerprint, one row per item of a delivery, and a *)
(* row is "sent" exactly when it holds a message id.                       *)
(*                                                                         *)
(* Several requests of one account may run at once, each call they make is *)
(* an action, and a request may die between any two. A call may fail, or   *)
(* take effect and lose its answer; `faults` bounds how often.             *)
(***************************************************************************)
EXTENDS Naturals, FiniteSets

CONSTANTS
    Fingerprints,  \* digests the account's data may give, by input_fingerprint
    Requests,      \* requests in flight at once; each may be made again
    Addresses,     \* Gmail accounts the user may connect
    NoAddress,
    MaxMessages,   \* bound on the messages Gmail accepts
    MaxResets,     \* bound on retries of a failed delivery
    MaxFaults      \* bound on failed calls, lost answers, crashes and reconnections; a message
                   \* Gmail turns down is not one

ASSUME DigestConstants ==
    /\ IsFiniteSet(Requests)
    /\ NoAddress \notin Addresses
    /\ MaxMessages \in Nat
    /\ MaxResets \in Nat
    /\ MaxFaults \in Nat

Stages == {"idle", "access", "create", "existing", "reset", "clear", "items", "unsaved",
           "gmail", "unsent", "confirm", "crashed"}
Answers == {"none", "sent", "digest_already_delivered", "digest_delivery_in_progress",
            "gmail_not_connected", "failed"}

VARIABLES
    connection,  \* the address of the gmail_connections row, or NoAddress
    row,         \* fingerprint -> its email_digest_deliveries row
    items,       \* fingerprint -> whether the delivery's items are stored
    mailbox,     \* messages Gmail has accepted: the fingerprint, the inbox, the message id
    resets,      \* fingerprint -> failed deliveries set back to sending
    pc,          \* request -> its stage
    mem,         \* request -> its locals: the digest, the address read, the message id
    answer,      \* request -> the last answer it gave
    oneAtATime,  \* whether the user's requests come one at a time; it never changes
    faults

tables == <<row, items>>
vars == <<connection, tables, mailbox, resets, pc, mem, answer, oneAtATime, faults>>

MessageIds == 1..MaxMessages
NoRow == [status |-> "none", to |-> NoAddress, message |-> 0]
Rows == {NoRow} \cup
        [status : {"sending", "sent", "failed"}, to : Addresses, message : 0..MaxMessages]
Locals == [digest : Fingerprints, to : Addresses \cup {NoAddress}, message : 0..MaxMessages]

Init ==
    /\ connection \in Addresses
    /\ row = [f \in Fingerprints |-> NoRow]
    /\ items = [f \in Fingerprints |-> FALSE]
    /\ mailbox = {}
    /\ resets = [f \in Fingerprints |-> 0]
    /\ pc = [r \in Requests |-> "idle"]
    /\ mem \in [Requests -> {[digest |-> f, to |-> NoAddress, message |-> 0] : f \in Fingerprints}]
    /\ answer = [r \in Requests |-> "none"]
    /\ oneAtATime \in BOOLEAN
    /\ faults = 0

Goto(r, stage) == pc' = [pc EXCEPT ![r] = stage]
Hold(r, locals) == mem' = [mem EXCEPT ![r] = locals]

Finish(r, what) ==
    /\ Goto(r, "idle")
    /\ answer' = [answer EXCEPT ![r] = what]
    /\ Hold(r, [mem[r] EXCEPT !.to = NoAddress, !.message = 0])

Fault == faults < MaxFaults /\ faults' = faults + 1 /\ UNCHANGED oneAtATime
NoFault == UNCHANGED <<faults, oneAtATime>>

\* The digest a request is about.
Of(r) == mem[r].digest

-----------------------------------------------------------------------------
(* The delivery tables. *)

\* check ((status = 'sent') = (sent_at is not null and external_message_id is not null)):
\* an update that would leave a row violating it is refused whole.
RowCheck(new) == (new.status = "sent") <=> (new.message # 0)

SetRow(f, new) == row' = [row EXCEPT ![f] = new]

\* The update that marks a delivery failed. Its error is not looked at; on a row that already
\* holds a message id the check constraint refuses it.
MarkFailed(f) ==
    LET new == [row[f] EXCEPT !.status = "failed"]
    IN  IF RowCheck(new) THEN SetRow(f, new) ELSE UNCHANGED row

-----------------------------------------------------------------------------
(* The send request. *)

\* The request is authenticated and sending is enabled; the digest is built from the account's
\* data as it stands, and one without items ends the request before anything is written.
Build(r) ==
    /\ pc[r] \in {"idle", "crashed"}
    /\ oneAtATime => \A q \in Requests : pc[q] \in {"idle", "crashed"}
    /\ \E f \in Fingerprints : Hold(r, [digest |-> f, to |-> NoAddress, message |-> 0])
    /\ Goto(r, "access")
    /\ answer' = [answer EXCEPT ![r] = "none"]
    /\ NoFault
    /\ UNCHANGED <<connection, tables, mailbox, resets>>

GetGmailAccess(r) ==
    /\ pc[r] = "access"
    /\ IF connection = NoAddress
       THEN Finish(r, "gmail_not_connected")
       ELSE /\ Hold(r, [mem[r] EXCEPT !.to = connection])
            /\ Goto(r, "create")
            /\ UNCHANGED answer
    /\ NoFault
    /\ UNCHANGED <<connection, tables, mailbox, resets>>

\* The insert that claims the fingerprint, or its unique violation (23505).
Create(r) ==
    /\ pc[r] = "create"
    /\ IF row[Of(r)].status = "none"
       THEN /\ SetRow(Of(r), [status |-> "sending", to |-> mem[r].to, message |-> 0])
            /\ Goto(r, "items")
       ELSE Goto(r, "existing") /\ UNCHANGED row
    /\ NoFault
    /\ UNCHANGED <<connection, items, mailbox, resets, mem, answer>>

\* A retry that takes a delivery in progress for its own and resumes it.
MutantReadExisting(r) ==
    /\ pc[r] = "existing"
    /\ \/ /\ row[Of(r)].status = "sent"
          /\ Finish(r, "digest_already_delivered")
       \/ /\ row[Of(r)].status \in {"failed", "sending"}
          /\ Goto(r, "clear")
          /\ UNCHANGED <<mem, answer>>
    /\ NoFault
    /\ UNCHANGED <<connection, tables, mailbox, resets>>

\* The row that was there: sent or in progress ends the request, failed is retried.
ReadExisting(r) ==
    /\ pc[r] = "existing"
    /\ \/ /\ row[Of(r)].status = "sent"
          /\ Finish(r, "digest_already_delivered")
       \/ /\ row[Of(r)].status = "sending"
          /\ Finish(r, "digest_delivery_in_progress")
       \/ /\ row[Of(r)].status = "failed"
          /\ Goto(r, "reset")
          /\ UNCHANGED <<mem, answer>>
    /\ NoFault
    /\ UNCHANGED <<connection, tables, mailbox, resets>>

\* A reset that clears the message id with the failure code, and so passes the check constraint.
MutantReset(r) ==
    /\ pc[r] = "reset"
    /\ resets[Of(r)] < MaxResets
    /\ SetRow(Of(r), [status |-> "sending", to |-> mem[r].to, message |-> 0])
    /\ Goto(r, "clear")
    /\ resets' = [resets EXCEPT ![Of(r)] = @ + 1]
    /\ NoFault
    /\ UNCHANGED <<connection, items, mailbox, mem, answer>>

\* The delivery is set back to sending, whatever its status has become since it was read. Only
\* the check constraint stands in the way: the update leaves the message id of a sent row alone.
Reset(r) ==
    LET new == [row[Of(r)] EXCEPT !.status = "sending", !.to = mem[r].to]
    IN  /\ pc[r] = "reset"
        /\ resets[Of(r)] < MaxResets
        /\ IF RowCheck(new)
           THEN /\ SetRow(Of(r), new)
                /\ Goto(r, "clear")
                /\ resets' = [resets EXCEPT ![Of(r)] = @ + 1]
                /\ UNCHANGED <<mem, answer>>
           ELSE Finish(r, "failed") /\ UNCHANGED <<row, resets>>
        /\ NoFault
        /\ UNCHANGED <<connection, items, mailbox>>

\* Deleting the items of the earlier attempt; an error of this call goes unnoticed.
ClearItems(r) ==
    /\ pc[r] = "clear"
    /\ \/ items' = [items EXCEPT ![Of(r)] = FALSE] /\ NoFault
       \/ UNCHANGED items /\ Fault
    /\ Goto(r, "items")
    /\ UNCHANGED <<connection, row, mailbox, resets, mem, answer>>

\* Sending without waiting for the items to be stored.
MutantInsertItems(r) ==
    /\ pc[r] = "items"
    /\ items' \in {items, [items EXCEPT ![Of(r)] = TRUE]}
    /\ Goto(r, "gmail") /\ NoFault
    /\ UNCHANGED <<connection, row, mailbox, resets, mem, answer>>

\* The items are one statement: all of them are stored, or, when the delivery already has them
\* (unique on delivery_id, item_key) or the call fails, none.
InsertItems(r) ==
    /\ pc[r] = "items"
    /\ \/ /\ ~items[Of(r)]
          /\ items' = [items EXCEPT ![Of(r)] = TRUE]
          /\ Goto(r, "gmail")
          /\ NoFault
       \/ /\ items[Of(r)]
          /\ Goto(r, "unsaved") /\ NoFault
          /\ UNCHANGED items
       \/ /\ items' \in {items, [items EXCEPT ![Of(r)] = TRUE]}
          /\ Goto(r, "unsaved") /\ Fault
    /\ UNCHANGED <<connection, row, mailbox, resets, mem, answer>>

\* A failure that is answered and not recorded.
MutantRecordFailure(r) ==
    /\ pc[r] \in {"unsaved", "unsent"}
    /\ Finish(r, "failed")
    /\ UNCHANGED <<connection, tables, mailbox, resets, faults, oneAtATime>>

\* The items were not stored, or Gmail did not answer with an id: the delivery is marked failed.
RecordFailure(r) ==
    /\ pc[r] \in {"unsaved", "unsent"}
    /\ \/ MarkFailed(Of(r)) /\ NoFault
       \/ UNCHANGED row /\ Fault
    /\ Finish(r, "failed")
    /\ UNCHANGED <<connection, items, mailbox, resets>>

Accept(r) ==
    /\ Cardinality(mailbox) < MaxMessages
    /\ mailbox' = mailbox \cup
         {[digest |-> Of(r), to |-> mem[r].to, id |-> Cardinality(mailbox) + 1]}

\* Gmail takes the message and answers, turns it down, or takes it and the answer is lost.
SendMessage(r) ==
    /\ pc[r] = "gmail"
    /\ \/ /\ Accept(r)
          /\ Hold(r, [mem[r] EXCEPT !.message = Cardinality(mailbox) + 1])
          /\ Goto(r, "confirm")
          /\ NoFault
       \/ /\ Goto(r, "unsent") /\ NoFault
          /\ UNCHANGED <<mailbox, mem>>
       \/ /\ Accept(r)
          /\ Goto(r, "unsent") /\ Fault
          /\ UNCHANGED mem
    /\ UNCHANGED <<connection, tables, resets, answer>>

\* The delivery is saved as sent. When that fails the row stays in `sending`, on purpose.
Confirm(r) ==
    /\ pc[r] = "confirm"
    /\ LET saved == [row[Of(r)] EXCEPT !.status = "sent", !.message = mem[r].message]
       IN  \/ SetRow(Of(r), saved) /\ NoFault /\ Finish(r, "sent")
           \/ SetRow(Of(r), saved) /\ Fault /\ Finish(r, "failed")
           \/ UNCHANGED row /\ Fault /\ Finish(r, "failed")
    /\ UNCHANGED <<connection, items, mailbox, resets>>

\* A read, a create or a reset that fails ends the request, and changes nothing.
CallFails(r) ==
    /\ pc[r] \in {"access", "create", "existing", "reset"}
    /\ Finish(r, "failed") /\ Fault
    /\ UNCHANGED <<connection, tables, mailbox, resets>>

\* A create or a reset that took effect and lost its answer ends the request all the same.
AnswerLost(r) ==
    LET new == [row[Of(r)] EXCEPT !.status = "sending", !.to = mem[r].to]
    IN  /\ \/ pc[r] = "create" /\ row[Of(r)].status = "none" /\ UNCHANGED resets
           \/ /\ pc[r] = "reset" /\ RowCheck(new)
              /\ resets[Of(r)] < MaxResets
              /\ resets' = [resets EXCEPT ![Of(r)] = @ + 1]
        /\ SetRow(Of(r), new)
        /\ Finish(r, "failed") /\ Fault
        /\ UNCHANGED <<connection, items, mailbox>>

\* The isolate is dropped between two calls.
Crash(r) ==
    /\ pc[r] \notin {"idle", "crashed"}
    /\ Goto(r, "crashed") /\ Fault
    /\ Hold(r, [mem[r] EXCEPT !.to = NoAddress, !.message = 0])
    /\ UNCHANGED <<connection, tables, mailbox, resets, answer>>

\* The user disconnects Gmail, or connects another account, while requests run.
ChangeConnection ==
    /\ connection' \in (Addresses \cup {NoAddress}) \ {connection}
    /\ Fault
    /\ UNCHANGED <<tables, mailbox, resets, pc, mem, answer>>

Handle(r) ==
    \/ GetGmailAccess(r) \/ Create(r) \/ ReadExisting(r) \/ Reset(r) \/ ClearItems(r)
    \/ InsertItems(r) \/ RecordFailure(r) \/ SendMessage(r) \/ Confirm(r)

Next ==
    \/ \E r \in Requests : Build(r) \/ Handle(r) \/ CallFails(r) \/ AnswerLost(r) \/ Crash(r)
    \/ ChangeConnection

Spec == Init /\ [][Next]_vars

-----------------------------------------------------------------------------
(* Properties. *)

Messages(f) == {m \in mailbox : m.digest = f}

\* Every variable has its type.
TypeOK ==
    /\ connection \in Addresses \cup {NoAddress}
    /\ row \in [Fingerprints -> Rows]
    /\ items \in [Fingerprints -> BOOLEAN]
    /\ mailbox \subseteq [digest : Fingerprints, to : Addresses, id : MessageIds]
    /\ resets \in [Fingerprints -> 0..MaxResets]
    /\ pc \in [Requests -> Stages]
    /\ mem \in [Requests -> Locals]
    /\ answer \in [Requests -> Answers]
    /\ oneAtATime \in BOOLEAN
    /\ faults \in 0..MaxFaults

\* A delivery that is sent stays sent: neither the late failure of another request nor its
\* unconditional reset (route.ts 44, 64, 71) brings it back, because of the check constraint.
SentIsFinal ==
    [][\A f \in Fingerprints : row[f].status = "sent" => row'[f].status = "sent"]_vars

\* A digest goes out again only when a failed delivery was retried: never more messages of a
\* fingerprint than one and its resets (route.ts 36-48).
OneMessagePerAttempt ==
    \A f \in Fingerprints : Cardinality(Messages(f)) <= 1 + resets[f]

Working(r) == pc[r] \in {"clear", "items", "unsaved", "gmail", "unsent", "confirm"}

\* A delivery is left in `sending`, where no retry can reach it, by a failed call or a crash and
\* never by Gmail's refusal or by requests that cross (route.ts 63-77).
StuckOnlyAfterFault ==
    \A f \in Fingerprints :
        row[f].status = "sending" /\ faults = 0 => \E r \in Requests : Of(r) = f /\ Working(r)

\* A delivery shown as sent was: the message id it holds is one Gmail gave for that digest, whatever
\* two requests, a retry and a lost answer did to the row (route.ts 44, 64, 71-77). With one request
\* at a time its history is exact: it names the inbox its own message went to, and has its items.
\* Requests that cross break the second part.
HistoryIsExact ==
    \A f \in Fingerprints :
        row[f].status = "sent" =>
            /\ \E m \in Messages(f) : m.id = row[f].message
            /\ oneAtATime =>
                 /\ items[f]
                 /\ [digest |-> f, to |-> row[f].to, id |-> row[f].message] \in mailbox

\* What the migration says of the table, "one send per user/input fingerprint", and the docs,
\* that the constraint "prevents the same user and fingerprint from being sent again".
OneSendPerFingerprint == \A f \in Fingerprints : Cardinality(Messages(f)) <= 1

=============================================================================
