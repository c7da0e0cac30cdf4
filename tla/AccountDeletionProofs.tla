---------------------- MODULE AccountDeletionProofs ----------------------
(* Theorems about AccountDeletion, for every number of requests, callbacks, questions and events. *)
EXTENDS AccountDeletion, FiniteSetTheorems, TLAPS

\* A callback that is about to store a token has one: it stopped when Google returned none and none
\* was stored.
SavingHoldsToken == \A c \in Callbacks : cpc[c] = "saving" => grant[c] \in TokenIds

\* Counting the synced events gives a number.
LEMMA EventCounts == TypeOK => Cardinality(Active) \in Nat /\ Cardinality(Tracked) \in Nat
<1>1. Active \subseteq Events /\ Tracked \subseteq Events
  BY DEF Active, Tracked
<1>2. IsFiniteSet(Active) /\ IsFiniteSet(Tracked)
  BY <1>1, FiniteEvents, FS_Subset
<1>. QED BY <1>2, FS_CardinalityType

LEMMA FreshType == Fresh \in Locals
BY DeletionConstants DEF Fresh, Locals, Reads

LEMMA TypeInit == Init => TypeOK
<1>. SUFFICES ASSUME Init PROVE TypeOK
  OBVIOUS
<1>. USE DeletionConstants
<1>1. token \in [Providers -> TokenIds \cup {NoToken}] /\ stored \subseteq TokenIds /\ live \subseteq TokenIds
  BY DEF Init, TokenIds
<1>2. mem \in [Deletions -> Locals]
  BY FreshType DEF Init
<1>3. record \in [Deletions -> [Providers -> StoredRevocations \cup {"absent"}]]
  BY DEF Init, Absent
<1>. QED BY <1>1, <1>2, <1>3 DEF Init, TypeOK, Tracked, OwnedRows, Stages, Answers

\* What the database stores about a token is one of the values its check constraint allows.
LEMMA RecordType ==
    ASSUME TypeOK, NEW d \in Deletions
    PROVE  [p \in Providers |-> StoredRevocation(d, p)] \in [Providers -> StoredRevocations \cup {"absent"}]
BY DEF TypeOK, StoredRevocation, StoredRevocations, Locals, Outcomes, Confirmed

\* Each assignment of the code to the locals of a request keeps their type.
LEMMA ReadKeepsLocals ==
    ASSUME NEW r \in Locals, NEW p \in Providers, NEW t \in TokenIds \cup {NoToken}
    PROVE  [r EXCEPT !.unread = @ \ {p}, !.seen[p] = t] \in Locals
BY DEF Locals

LEMMA CountKeepsLocals ==
    ASSUME NEW r \in Locals, NEW m \in Nat, NEW n \in Nat, NEW k \in {"none", "kept"}
    PROVE  [r EXCEPT !.unread = @ \ {"counts"}, !.active = m, !.any = n, !.kept = k] \in Locals
BY DEF Locals

LEMMA ListKeepsLocals ==
    ASSUME NEW r \in Locals, NEW s \in SUBSET Events, NEW n \in Nat
    PROVE  [r EXCEPT !.queue = s, !.removed = n] \in Locals
BY DEF Locals

LEMMA DeleteKeepsLocals ==
    ASSUME NEW r \in Locals, NEW e
    PROVE  [r EXCEPT !.queue = @ \ {e}] \in Locals
BY DEF Locals

LEMMA FailKeepsLocals ==
    ASSUME NEW r \in Locals
    PROVE  [r EXCEPT !.queue = {}, !.removed = 0, !.kept = "not_removed"] \in Locals
BY DEF Locals

LEMMA KeptKeepsLocals ==
    ASSUME NEW r \in Locals, NEW k \in {"kept", "removed"}
    PROVE  [r EXCEPT !.kept = k] \in Locals
BY DEF Locals

LEMMA AttemptKeepsLocals ==
    ASSUME NEW r \in Locals, NEW p \in Providers, NEW o \in Outcomes
    PROVE  [r EXCEPT !.attempt[p] = o] \in Locals
BY DEF Locals

LEMMA FinishKeepsLocals ==
    ASSUME NEW r \in Locals, NEW k \in BOOLEAN, NEW f \in [Providers -> 0..RetryRounds]
    PROVE  [r EXCEPT !.known = k, !.tries = f] \in Locals
BY DEF Locals

LEMMA RetryKeepsLocals ==
    ASSUME NEW r \in Locals, NEW p \in Providers, NEW n \in 0..RetryRounds
    PROVE  [r EXCEPT !.tries[p] = n] \in Locals
BY DEF Locals

\* The number of failures stays within its bound.
LEMMA FaultType == TypeOK /\ Fault => faults' \in 0..MaxFaults
BY DeletionConstants DEF TypeOK, Fault

\* Replacing the locals of one request keeps their type.
LEMMA HoldType ==
    ASSUME TypeOK, NEW d \in Deletions, NEW r \in Locals, Hold(d, r)
    PROVE  mem' \in [Deletions -> Locals]
BY DEF TypeOK, Hold

LEMMA TypeStep == TypeOK /\ SavingHoldsToken /\ [Next]_vars => TypeOK'
<1>. SUFFICES ASSUME TypeOK, SavingHoldsToken, [Next]_vars PROVE TypeOK'
  OBVIOUS
<1>. USE DeletionConstants
<1>m. /\ mem \in [Deletions -> Locals]
      /\ token \in [Providers -> TokenIds \cup {NoToken}]
  BY DEF TypeOK
<1>1. ASSUME NEW d \in Deletions, Start(d) PROVE TypeOK'
  <2>1. PICK choice \in BOOLEAN : Hold(d, [Fresh EXCEPT !.remove = choice])
    BY <1>1 DEF Start
  <2>2. [Fresh EXCEPT !.remove = choice] \in Locals
    BY FreshType DEF Locals
  <2>3. mem' \in [Deletions -> Locals]
    BY <2>1, <2>2, HoldType
  <2>. QED BY <1>1, <2>3 DEF Start, TypeOK, Goto, database, google, writers, Stages, Answers
<1>2. ASSUME NEW d \in Deletions, StartWithoutSession(d) PROVE TypeOK'
  BY <1>2 DEF StartWithoutSession, TypeOK, Goto, database, google, writers, Stages, Answers
<1>3. ASSUME NEW d \in Deletions, NEW p \in Providers, ReadConnection(d, p) PROVE TypeOK'
  <2>1. [mem[d] EXCEPT !.unread = @ \ {p}, !.seen[p] = token[p]] \in Locals
    BY <1>m, ReadKeepsLocals
  <2>2. mem' \in [Deletions -> Locals]
    BY <1>3, <2>1, HoldType DEF ReadConnection
  <2>. QED BY <1>3, <2>2 DEF ReadConnection, TypeOK, Goto, database, google, writers
<1>4. ASSUME NEW d \in Deletions, CountEvents(d) PROVE TypeOK'
  <2>1. [mem[d] EXCEPT !.unread = @ \ {"counts"},
                          !.active = Cardinality(Active),
                          !.any = Cardinality(Tracked),
                          !.kept = IF Tracked # {} THEN "kept" ELSE "none"] \in Locals
    BY <1>m, EventCounts, CountKeepsLocals
  <2>2. mem' \in [Deletions -> Locals]
    BY <1>4, <2>1, HoldType DEF CountEvents
  <2>. QED BY <1>4, <2>2 DEF CountEvents, TypeOK, Goto, database, google, writers
<1>5. ASSUME NEW d \in Deletions, ReadFails(d) PROVE TypeOK'
  <2>2. mem' \in [Deletions -> Locals]
    BY <1>5, FreshType, HoldType DEF ReadFails, AnswerFailure
  <2>. QED BY <1>5, <2>2, FaultType
  DEF ReadFails, TypeOK, Goto, database, google, writers, AnswerFailure, Stages, Answers, Failures
<1>6. ASSUME NEW d \in Deletions, ReadsDone(d) PROVE TypeOK'
  BY <1>6 DEF ReadsDone, TypeOK, Goto, database, google, writers, Stages
<1>7. ASSUME NEW d \in Deletions, ListMappings(d) PROVE TypeOK'
  <2>0. Active \subseteq Events
    BY DEF Active
  <2>1. [mem[d] EXCEPT !.queue = Active, !.removed = Cardinality(Active)] \in Locals
    BY <1>m, <2>0, EventCounts, ListKeepsLocals
  <2>2. mem' \in [Deletions -> Locals]
    BY <1>7, <2>1, HoldType DEF ListMappings
  <2>. QED BY <1>7, <2>2 DEF ListMappings, TypeOK, Goto, database, google, writers, Stages
<1>8. ASSUME NEW d \in Deletions, NEW e \in Events, DeleteEvent(d, e) PROVE TypeOK'
  <2>1. [mem[d] EXCEPT !.queue = @ \ {e}] \in Locals
    BY <1>m, DeleteKeepsLocals
  <2>2. mem' \in [Deletions -> Locals]
    BY <1>8, <2>1, HoldType DEF DeleteEvent
  <2>. QED BY <1>8, <2>2 DEF DeleteEvent, TypeOK, Goto, database, google, writers
<1>9. ASSUME NEW d \in Deletions, RemovalFails(d) PROVE TypeOK'
  <2>1. [mem[d] EXCEPT !.queue = {}, !.removed = 0, !.kept = "not_removed"] \in Locals
    BY <1>m, FailKeepsLocals
  <2>2. mem' \in [Deletions -> Locals]
    BY <1>9, <2>1, HoldType DEF RemovalFails
  <2>. QED BY <1>9, <2>2 DEF RemovalFails, TypeOK, Goto, database, google, writers, Stages
<1>10. ASSUME NEW d \in Deletions, RemovalDone(d) PROVE TypeOK'
  <2>1. [mem[d] EXCEPT !.kept = IF mem[d].any > mem[d].removed THEN "kept" ELSE "removed"] \in Locals
    BY <1>m, KeptKeepsLocals
  <2>2. mem' \in [Deletions -> Locals]
    BY <1>10, <2>1, HoldType DEF RemovalDone
  <2>. QED BY <1>10, <2>2 DEF RemovalDone, TypeOK, Goto, database, google, writers, Stages
<1>11. ASSUME NEW d \in Deletions, NEW p \in Providers, Revoke(d, p) PROVE TypeOK'
  <2>1. PICK outcome \in Outcomes : Hold(d, [mem[d] EXCEPT !.attempt[p] = outcome])
    BY <1>11 DEF Revoke
  <2>2. [mem[d] EXCEPT !.attempt[p] = outcome] \in Locals
    BY <1>m, AttemptKeepsLocals
  <2>3. mem' \in [Deletions -> Locals]
    BY <2>1, <2>2, HoldType
  <2>. QED BY <1>11, <2>3 DEF Revoke, TypeOK, Goto, database, google, writers, Offer
<1>12. ASSUME NEW d \in Deletions, RevocationsDone(d) PROVE TypeOK'
  BY <1>12 DEF RevocationsDone, TypeOK, Goto, database, google, writers, Stages
<1>13. ASSUME NEW d \in Deletions, DeleteData(d) PROVE TypeOK'
  BY <1>13 DEF DeleteData, TypeOK, Goto, database, google, writers, DataDeleted, Stages
<1>14. ASSUME NEW d \in Deletions, DeleteDataFails(d) PROVE TypeOK'
  <2>1. mem' \in [Deletions -> Locals]
    BY <1>14, FreshType, HoldType DEF DeleteDataFails, AnswerFailure
  <2>2. faults' \in 0..MaxFaults
    BY <1>14, FaultType DEF DeleteDataFails
  <2>3. /\ owned' \subseteq OwnedRows /\ runs' \subseteq Questions
        /\ syncs' \in [Events -> {"none", "active", "detached"}]
        /\ token' \in [Providers -> TokenIds \cup {NoToken}]
    BY <1>14 DEF DeleteDataFails, DataDeleted, TypeOK
  <2>. QED BY <1>14, <2>1, <2>2, <2>3
    DEF DeleteDataFails, AnswerFailure, TypeOK, Goto, google, writers, Stages, Answers, Failures
<1>15. ASSUME NEW d \in Deletions, DeleteUser(d) PROVE TypeOK'
  BY <1>15 DEF DeleteUser, TypeOK, Goto, database, google, writers, Cascade, Stages
<1>16. ASSUME NEW d \in Deletions, DeleteUserPastRestrict(d) PROVE TypeOK'
  BY <1>16 DEF DeleteUserPastRestrict, TypeOK, Goto, database, google, writers, Cascade, Stages
<1>17. ASSUME NEW d \in Deletions, DeleteUserErrs(d) PROVE TypeOK'
  <2>1. faults' \in 0..MaxFaults
    BY <1>17, FaultType DEF DeleteUserErrs, TypeOK
  <2>2. Cascade \/ UNCHANGED database
    BY <1>17 DEF DeleteUserErrs
  <2>3. /\ account' \in BOOLEAN /\ owned' \subseteq OwnedRows /\ stored' \subseteq TokenIds
        /\ syncs' \in [Events -> {"none", "active", "detached"}]
        /\ token' \in [Providers -> TokenIds \cup {NoToken}]
        /\ runs' = runs /\ record' = record
    <3>1. CASE Cascade
      BY <3>1 DEF Cascade, TypeOK
    <3>2. CASE UNCHANGED database
      BY <3>2 DEF database, TypeOK
    <3>. QED BY <2>2, <3>1, <3>2
  <2>. QED BY <1>17, <2>1, <2>3 DEF DeleteUserErrs, TypeOK, Goto, google, writers, Stages
<1>18. ASSUME NEW d \in Deletions, CheckGone(d) PROVE TypeOK'
  BY <1>18 DEF CheckGone, TypeOK, Goto, database, google, writers, Stages
<1>19. ASSUME NEW d \in Deletions, NotKnownGone(d) PROVE TypeOK'
  <2>2. mem' \in [Deletions -> Locals]
    BY <1>19, FreshType, HoldType DEF NotKnownGone, AnswerFailure
  <2>. QED BY <1>19, <2>2, FaultType
  DEF NotKnownGone, TypeOK, Goto, database, google, writers, AnswerFailure, Stages, Answers, Failures
<1>20. ASSUME NEW d \in Deletions, Finish(d) PROVE TypeOK'
  <2>. DEFINE left == [p \in Providers |-> IF mem[d].attempt[p] = "unreachable" THEN RetryRounds ELSE 0]
  <2>1. PICK known \in BOOLEAN : Hold(d, [mem[d] EXCEPT !.known = known, !.tries = left])
    BY <1>20 DEF Finish
  <2>2. left \in [Providers -> 0..RetryRounds]
    OBVIOUS
  <2>3. [mem[d] EXCEPT !.known = known, !.tries = left] \in Locals
    BY <1>m, <2>2, FinishKeepsLocals
  <2>4. mem' \in [Deletions -> Locals]
    BY <2>1, <2>3, HoldType
  <2>5. record' \in [Deletions -> [Providers -> StoredRevocations \cup {"absent"}]]
    <3>1. UNCHANGED record \/ WriteRecord(d)
      BY <1>20 DEF Finish
    <3>2. record \in [Deletions -> [Providers -> StoredRevocations \cup {"absent"}]]
      BY DEF TypeOK
    <3>3. WriteRecord(d) => record' \in [Deletions -> [Providers -> StoredRevocations \cup {"absent"}]]
      BY <3>2, RecordType DEF WriteRecord
    <3>. QED BY <3>1, <3>2, <3>3
  <2>. QED BY <1>20, <2>4, <2>5 DEF Finish, TypeOK, Goto, database, google, writers, Stages, Answers
<1>21. ASSUME NEW d \in Deletions, NEW p \in Providers, Retry(d, p) PROVE TypeOK'
  <2>1. PICK outcome \in Outcomes \ {"undecryptable"} :
           /\ Offer(mem[d].seen[p], outcome)
           /\ Hold(d, [mem[d] EXCEPT !.tries[p] = IF outcome = "unreachable" THEN @ - 1 ELSE 0])
           /\ RecordLate(d, p, outcome) \/ UNCHANGED record
    BY <1>21 DEF Retry
  <2>2. mem[d].tries \in [Providers -> 0..RetryRounds] /\ mem[d].tries[p] > 0
    BY <1>21, <1>m DEF Locals, Retry
  <2>3. mem[d].tries[p] - 1 \in 0..RetryRounds /\ 0 \in 0..RetryRounds
    BY <2>2
  <2>4. [mem[d] EXCEPT !.tries[p] = IF outcome = "unreachable" THEN @ - 1 ELSE 0] \in Locals
    BY <1>m, <2>3, RetryKeepsLocals
  <2>5. mem' \in [Deletions -> Locals]
    BY <2>1, <2>4, HoldType
  <2>6. record' \in [Deletions -> [Providers -> StoredRevocations \cup {"absent"}]]
    <3>1. record \in [Deletions -> [Providers -> StoredRevocations \cup {"absent"}]]
      BY DEF TypeOK
    <3>2. UNCHANGED record \/ RecordLate(d, p, outcome)
      BY <2>1
    <3>. QED BY <3>1, <3>2 DEF RecordLate, StoredRevocations
  <2>7. live' \subseteq TokenIds
    BY <2>1 DEF Offer, TypeOK
  <2>. QED BY <1>21, <2>5, <2>6, <2>7 DEF Retry, TypeOK, Goto, database, google, writers
<1>22. ASSUME NEW d \in Deletions, Crash(d) PROVE TypeOK'
  <2>1. mem' \in [Deletions -> Locals]
    BY <1>22, <1>m, FreshType, HoldType DEF Crash
  <2>2. record' \in [Deletions -> [Providers -> StoredRevocations \cup {"absent"}]]
    <3>1. UNCHANGED record \/ WriteRecord(d)
      BY <1>22 DEF Crash
    <3>2. record \in [Deletions -> [Providers -> StoredRevocations \cup {"absent"}]]
      BY DEF TypeOK
    <3>3. WriteRecord(d) => record' \in [Deletions -> [Providers -> StoredRevocations \cup {"absent"}]]
      BY <3>2, RecordType DEF WriteRecord
    <3>. QED BY <3>1, <3>2, <3>3
  <2>. QED BY <1>22, <2>1, <2>2, FaultType
  DEF Crash, TypeOK, Goto, database, google, writers, Stages
<1>23. ASSUME NEW c \in Callbacks, Exchange(c) PROVE TypeOK'
  BY <1>23 DEF Exchange, TypeOK, Goto, database, google, writers, TokenIds
<1>24. ASSUME NEW c \in Callbacks, ReadExisting(c) PROVE TypeOK'
  BY <1>24 DEF ReadExisting, TypeOK, Goto, database, google, writers, TokenIds
<1>25. ASSUME NEW c \in Callbacks, SaveConnection(c) PROVE TypeOK'
  <2>1. grant[c] \in TokenIds
    BY <1>25 DEF SaveConnection, SavingHoldsToken
  <2>. QED BY <1>25, <2>1 DEF SaveConnection, TypeOK, google
<1>26. ASSUME NEW c \in Callbacks, CallbackFails(c) PROVE TypeOK'
  BY <1>26 DEF CallbackFails, TypeOK, Goto, database, google, writers
<1>27. ASSUME NEW q \in Questions, Ask(q) PROVE TypeOK'
  BY <1>27 DEF Ask, TypeOK, Goto, database, google, writers
<1>28. ASSUME NEW row \in OwnedRows, Write(row) PROVE TypeOK'
  BY <1>28 DEF Write, TypeOK, Goto, database, google, writers
<1>29. ASSUME NEW t \in TokenIds, EndGrant(t) PROVE TypeOK'
  BY <1>29 DEF EndGrant, TypeOK, Goto, database, google, writers
<1>30. CASE UNCHANGED vars
  BY <1>30 DEF vars, TypeOK, database, google, writers
<1>. QED
  BY <1>1, <1>2, <1>3, <1>4, <1>5, <1>6, <1>7, <1>8, <1>9,
     <1>10, <1>11, <1>12, <1>13, <1>14, <1>15, <1>16, <1>17, <1>18,
     <1>19, <1>20, <1>21, <1>22, <1>23, <1>24, <1>25, <1>26, <1>27,
     <1>28, <1>29, <1>30
  DEF Next, Deletion, Callback

LEMMA SavingStep == TypeOK /\ SavingHoldsToken /\ [Next]_vars => SavingHoldsToken'
<1>. SUFFICES ASSUME TypeOK, SavingHoldsToken, [Next]_vars, NEW c \in Callbacks, cpc'[c] = "saving"
              PROVE  grant'[c] \in TokenIds
  BY DEF SavingHoldsToken
<1>. USE DeletionConstants DEF TypeOK
<1>1. ASSUME NEW b \in Callbacks, Exchange(b) PROVE grant'[c] \in TokenIds
  BY <1>1 DEF Exchange, SavingHoldsToken, TokenIds
<1>2. ASSUME NEW b \in Callbacks, ReadExisting(b) PROVE grant'[c] \in TokenIds
  BY <1>2 DEF ReadExisting, SavingHoldsToken
<1>3. ASSUME NEW b \in Callbacks, SaveConnection(b) \/ CallbackFails(b) PROVE grant'[c] \in TokenIds
  BY <1>3 DEF SaveConnection, CallbackFails, SavingHoldsToken
<1>4. CASE UNCHANGED <<grant, cpc>>
  BY <1>4 DEF SavingHoldsToken
<1>5. ASSUME NEW d \in Deletions, Deletion(d) PROVE UNCHANGED <<grant, cpc>>
  BY <1>5 DEF Deletion, Start, StartWithoutSession, ReadConnection, CountEvents, ReadFails, ReadsDone,
     ListMappings, DeleteEvent, RemovalFails, RemovalDone, Revoke, RevocationsDone, DeleteData,
     DeleteDataFails, DeleteUser, DeleteUserPastRestrict, DeleteUserErrs, CheckGone, NotKnownGone,
     Finish, Retry, Crash, writers
<1>6. ASSUME NEW q \in Questions, Ask(q) PROVE UNCHANGED <<grant, cpc>>
  BY <1>6 DEF Ask
<1>7. ASSUME NEW row \in OwnedRows, Write(row) PROVE UNCHANGED <<grant, cpc>>
  BY <1>7 DEF Write
<1>8. ASSUME NEW t \in TokenIds, EndGrant(t) PROVE UNCHANGED <<grant, cpc>>
  BY <1>8 DEF EndGrant, writers
<1>9. CASE UNCHANGED vars
  BY <1>4, <1>9 DEF vars, writers
<1>. QED BY <1>1, <1>2, <1>3, <1>4, <1>5, <1>6, <1>7, <1>8, <1>9 DEF Next, Callback

\* The state keeps its type, whatever fails and whatever runs beside a deletion.
THEOREM TypeCorrect == Spec => []TypeOK
<1>1. Init => TypeOK /\ SavingHoldsToken
  BY TypeInit DEF Init, SavingHoldsToken
<1>2. TypeOK /\ SavingHoldsToken /\ [Next]_vars => (TypeOK /\ SavingHoldsToken)'
  BY TypeStep, SavingStep
<1>. QED BY <1>1, <1>2, PTL DEF Spec

-----------------------------------------------------------------------------
(* The rule of docs/account-data.md:120-121, by one inductive invariant. *)

\* A request has reached its last steps, or told the user so, only with the account gone; nothing
\* is left in the two connection tables then; and a record is of a gone account.
Gone ==
    /\ \A d \in Deletions : pc[d] = "finish" \/ answer[d] = "deleted" => ~account
    /\ \A d \in Deletions, p \in Providers : record[d][p] # "absent" => ~account
    /\ NoTokenOnceGone

LEMMA GoneStep == TypeOK /\ Gone /\ [Next]_vars => Gone'
<1>. SUFFICES ASSUME TypeOK, Gone, [Next]_vars PROVE Gone'
  OBVIOUS
<1>. USE DEF Gone, NoTokenOnceGone
<1>t. /\ pc \in [Deletions -> Stages] /\ answer \in [Deletions -> Answers]
      /\ token \in [Providers -> TokenIds \cup {NoToken}]
      /\ record \in [Deletions -> [Providers -> StoredRevocations \cup {"absent"}]]
  BY DEF TypeOK
<1>1. ASSUME NEW d \in Deletions,
             \/ Start(d) \/ StartWithoutSession(d) \/ CountEvents(d) \/ ReadFails(d) \/ ReadsDone(d)
             \/ ListMappings(d) \/ RemovalFails(d) \/ RemovalDone(d) \/ RevocationsDone(d)
             \/ CheckGone(d) \/ NotKnownGone(d)
      PROVE  Gone'
  BY <1>1, <1>t DEF Start, StartWithoutSession, CountEvents, ReadFails, ReadsDone, ListMappings,
     RemovalFails, RemovalDone, RevocationsDone, CheckGone, NotKnownGone, AnswerFailure, Goto, database
<1>2. ASSUME NEW d \in Deletions, NEW p \in Providers, ReadConnection(d, p) \/ Revoke(d, p) PROVE Gone'
  BY <1>2, <1>t DEF ReadConnection, Revoke, database
<1>3. ASSUME NEW d \in Deletions, NEW e \in Events, DeleteEvent(d, e) PROVE Gone'
  BY <1>3, <1>t DEF DeleteEvent, database
<1>4. ASSUME NEW d \in Deletions, DeleteData(d) \/ DeleteDataFails(d) PROVE Gone'
  BY <1>4, <1>t DEF DeleteData, DeleteDataFails, DataDeleted, AnswerFailure, Goto
<1>5. ASSUME NEW d \in Deletions, DeleteUser(d) \/ DeleteUserPastRestrict(d) PROVE Gone'
  BY <1>5, <1>t DEF DeleteUser, DeleteUserPastRestrict, Cascade, Goto
<1>6. ASSUME NEW d \in Deletions, DeleteUserErrs(d) PROVE Gone'
  <2>1. CASE Cascade
    BY <1>6, <2>1, <1>t DEF DeleteUserErrs, Cascade, Goto
  <2>2. CASE UNCHANGED database
    BY <1>6, <2>2, <1>t DEF DeleteUserErrs, database, Goto
  <2>. QED BY <1>6, <2>1, <2>2 DEF DeleteUserErrs
<1>7. ASSUME NEW d \in Deletions, Finish(d) PROVE Gone'
  <2>1. WriteRecord(d) \/ UNCHANGED record
    BY <1>7 DEF Finish
  <2>. QED BY <1>7, <2>1, <1>t DEF Finish, WriteRecord, Goto
<1>8. ASSUME NEW d \in Deletions, NEW p \in Providers, Retry(d, p) PROVE Gone'
  <2>1. PICK outcome \in Outcomes : RecordLate(d, p, outcome) \/ UNCHANGED record
    BY <1>8 DEF Retry
  <2>2. \A b \in Deletions, q \in Providers : record'[b][q] # "absent" => record[b][q] # "absent"
    BY <2>1, <1>t DEF RecordLate
  <2>. QED BY <1>8, <2>2, <1>t DEF Retry
<1>9. ASSUME NEW d \in Deletions, Crash(d) PROVE Gone'
  <2>1. WriteRecord(d) \/ UNCHANGED record
    BY <1>9 DEF Crash
  <2>. QED BY <1>9, <2>1, <1>t DEF Crash, WriteRecord, Goto
<1>10. ASSUME NEW c \in Callbacks, Callback(c) PROVE Gone'
  BY <1>10, <1>t DEF Callback, Exchange, ReadExisting, SaveConnection, CallbackFails, database
<1>11. ASSUME NEW q \in Questions, Ask(q) PROVE Gone'
  BY <1>11 DEF Ask
<1>12. ASSUME NEW row \in OwnedRows, Write(row) PROVE Gone'
  BY <1>12 DEF Write
<1>13. ASSUME NEW t \in TokenIds, EndGrant(t) PROVE Gone'
  BY <1>13 DEF EndGrant, database
<1>14. CASE UNCHANGED vars
  BY <1>14 DEF vars, database
<1>. QED
  BY <1>1, <1>2, <1>3, <1>4, <1>5, <1>6, <1>7, <1>8, <1>9, <1>10, <1>11, <1>12, <1>13, <1>14
  DEF Next, Deletion

LEMMA GoneAlways == Spec => []Gone
<1>1. Init => Gone
  BY DEF Init, Gone, NoTokenOnceGone, Absent
<1>. QED BY <1>1, GoneStep, TypeCorrect, PTL DEF Spec

\* The user is never told the account is deleted unless the auth user is gone, for any number of
\* concurrent requests, failures, lost answers, retries and callbacks.
THEOREM ToldTheTruth == Spec => []ToldDeletedIsGone
<1>1. Gone => ToldDeletedIsGone
  BY DEF Gone, ToldDeletedIsGone
<1>. QED BY <1>1, GoneAlways, PTL

\* Once the account is gone no Google token is left in the database, however late a callback saves.
THEOREM NoTokenLeft == Spec => []NoTokenOnceGone
<1>1. Gone => NoTokenOnceGone
  BY DEF Gone
<1>. QED BY <1>1, GoneAlways, PTL

-----------------------------------------------------------------------------
(* The record of a deletion, and what it says of the tokens this request read. *)

\* Tokens that Google has issued by now: those of the first connections, and of the callbacks that
\* exchanged their code. Every token held anywhere is one of them, so that none comes alive again.
Issued == Providers \cup {c \in Callbacks : cpc[c] # "idle"}

HeldIsIssued ==
    /\ \A p \in Providers : token[p] \in Issued \cup {NoToken}
    /\ \A c \in Callbacks : grant[c] \in Issued \cup {NoToken}
    /\ \A d \in Deletions, p \in Providers : mem[d].seen[p] \in Issued \cup {NoToken}

\* A request asks Google about no token while it still reads which there are, and about none where
\* there is none: the cases of storedRevocation exclude each other.
AskedAfterReading ==
    \A d \in Deletions, p \in Providers :
        pc[d] = "reading" \/ mem[d].seen[p] = NoToken => mem[d].attempt[p] = "not_asked"

ConfirmedIsDead ==
    \A d \in Deletions, p \in Providers : mem[d].attempt[p] \in Confirmed => mem[d].seen[p] \notin live

\* A record is written as its request ends, and is of what that request read; Google honours no token
\* it says is revoked.
RecordKept ==
    \A d \in Deletions, p \in Providers : record[d][p] # "absent" =>
        /\ pc[d] \in {"answered", "crashed"}
        /\ ~account
        /\ (record[d][p] = "not_connected") = (mem[d].seen[p] = NoToken)
        /\ record[d][p] \in Confirmed => mem[d].seen[p] \notin live

Honest == HeldIsIssued /\ AskedAfterReading /\ ConfirmedIsDead /\ RecordKept

\* What a step does to the tokens a request has read and to what Google said of them: nothing, or it
\* starts afresh, or one more token is read, or Google is asked about one.
SameTokens(d) == mem'[d].seen = mem[d].seen /\ mem'[d].attempt = mem[d].attempt
Forgets(d) == \A p \in Providers : mem'[d].seen[p] = NoToken /\ mem'[d].attempt[p] = "not_asked"
ReadsToken(d, p) ==
    /\ pc[d] = "reading" /\ pc'[d] = "reading"
    /\ mem'[d].seen = [mem[d].seen EXCEPT ![p] = token[p]] /\ mem'[d].attempt = mem[d].attempt
AsksGoogle(d, p, outcome) ==
    /\ pc[d] = "revoking" /\ pc'[d] = "revoking" /\ mem[d].seen[p] # NoToken
    /\ mem'[d].seen = mem[d].seen /\ mem'[d].attempt = [mem[d].attempt EXCEPT ![p] = outcome]
    /\ outcome \in Confirmed => mem[d].seen[p] \notin live'

Moves(d) ==
    \/ SameTokens(d) /\ (pc'[d] = "reading" => pc[d] = "reading")
    \/ Forgets(d) /\ (account \/ pc[d] \notin {"answered", "crashed"})
    \/ \E p \in Providers : ReadsToken(d, p)
    \/ \E p \in Providers, outcome \in Outcomes : AsksGoogle(d, p, outcome)

LEMMA MoveOfOther ==
    ASSUME NEW d \in Deletions, mem'[d] = mem[d], pc'[d] = pc[d]
    PROVE  Moves(d)
BY DEF Moves, SameTokens

\* A request's own step leaves the others alone.
LEMMA OwnStep ==
    ASSUME TypeOK, NEW d \in Deletions, NEW b \in Deletions, b # d, Deletion(b)
    PROVE  mem'[d] = mem[d] /\ pc'[d] = pc[d]
BY DEF TypeOK, Deletion, Start, StartWithoutSession, ReadConnection, CountEvents, ReadFails, ReadsDone,
       ListMappings, DeleteEvent, RemovalFails, RemovalDone, Revoke, RevocationsDone, DeleteData,
       DeleteDataFails, DeleteUser, DeleteUserPastRestrict, DeleteUserErrs, CheckGone, NotKnownGone,
       Finish, Retry, Crash, Hold, Goto, AnswerFailure

LEMMA FreshForgets ==
    ASSUME TypeOK, NEW d \in Deletions,
           Hold(d, Fresh) \/ \E choice \in BOOLEAN : Hold(d, [Fresh EXCEPT !.remove = choice])
    PROVE  Forgets(d)
<1>1. mem \in [Deletions -> Locals]
  BY DEF TypeOK
<1>2. CASE Hold(d, Fresh)
  BY <1>1, <1>2 DEF Hold, Fresh, Forgets
<1>3. ASSUME NEW choice \in BOOLEAN, Hold(d, [Fresh EXCEPT !.remove = choice])
      PROVE  Forgets(d)
  BY <1>1, <1>3 DEF Hold, Fresh, Forgets
<1>. QED BY <1>2, <1>3

LEMMA Move ==
    ASSUME TypeOK, [Next]_vars, NEW d \in Deletions
    PROVE  Moves(d)
<1>t. pc \in [Deletions -> Stages] /\ mem \in [Deletions -> Locals]
  BY DEF TypeOK
<1>1. ASSUME Start(d) PROVE Moves(d)
  BY <1>1, FreshForgets DEF Start, Moves
<1>2. ASSUME ReadFails(d) \/ DeleteDataFails(d) \/ NotKnownGone(d) PROVE Moves(d)
  <2>1. Hold(d, Fresh) /\ pc[d] \in {"reading", "data", "auth", "check"}
    BY <1>2 DEF ReadFails, DeleteDataFails, NotKnownGone, AnswerFailure
  <2>. QED BY <2>1, FreshForgets DEF Moves
<1>3. ASSUME Crash(d) PROVE Moves(d)
  <2>1. CASE Hold(d, Fresh)
    BY <1>3, <2>1, FreshForgets DEF Crash, Moves
  <2>2. CASE UNCHANGED mem
    BY <1>3, <1>t, <2>2 DEF Crash, Moves, SameTokens, Goto
  <2>. QED BY <1>3, <2>1, <2>2 DEF Crash
<1>4. ASSUME NEW p \in Providers, ReadConnection(d, p) PROVE Moves(d)
  <2>. DEFINE r == [mem[d] EXCEPT !.unread = @ \ {p}, !.seen[p] = token[p]]
  <2>1. mem'[d] = r /\ pc[d] = "reading" /\ pc'[d] = "reading"
    BY <1>4, <1>t DEF ReadConnection, Hold
  <2>2. r.seen = [mem[d].seen EXCEPT ![p] = token[p]] /\ r.attempt = mem[d].attempt
    BY <1>t DEF Locals
  <2>. HIDE DEF r
  <2>. QED BY <2>1, <2>2 DEF Moves, ReadsToken
<1>5. ASSUME NEW p \in Providers, Revoke(d, p) PROVE Moves(d)
  <2>1. PICK outcome \in Outcomes :
          /\ Hold(d, [mem[d] EXCEPT !.attempt[p] = outcome])
          /\ Offer(mem[d].seen[p], outcome) \/ outcome = "undecryptable"
    BY <1>5 DEF Revoke
  <2>2. outcome \in Confirmed => mem[d].seen[p] \notin live'
    BY <2>1 DEF Offer, Confirmed
  <2>3. /\ mem'[d].seen = mem[d].seen
        /\ mem'[d].attempt = [mem[d].attempt EXCEPT ![p] = outcome]
    BY <1>t, <2>1 DEF Hold, Locals
  <2>4. pc[d] = "revoking" /\ pc'[d] = "revoking" /\ mem[d].seen[p] # NoToken
    BY <1>5 DEF Revoke
  <2>. QED BY <2>2, <2>3, <2>4 DEF Moves, AsksGoogle
<1>6. ASSUME NEW p \in Providers, Retry(d, p) PROVE Moves(d)
  <2>1. PICK n : Hold(d, [mem[d] EXCEPT !.tries[p] = n])
    BY <1>6 DEF Retry
  <2>. QED BY <1>6, <1>t, <2>1 DEF Retry, Hold, Locals, Moves, SameTokens
<1>7. ASSUME Finish(d) PROVE Moves(d)
  <2>1. PICK known, left : Hold(d, [mem[d] EXCEPT !.known = known, !.tries = left])
    BY <1>7 DEF Finish
  <2>. QED BY <1>7, <1>t, <2>1 DEF Finish, Goto, Hold, Locals, Moves, SameTokens
<1>8. ASSUME CountEvents(d) \/ ListMappings(d) \/ RemovalFails(d) \/ RemovalDone(d) \/ \E e \in Events : DeleteEvent(d, e)
      PROVE  Moves(d)
  <2>1. SameTokens(d)
    <3>1. ASSUME CountEvents(d) \/ ListMappings(d) PROVE SameTokens(d)
      <4>1. CASE CountEvents(d)
        BY <4>1, <1>t DEF CountEvents, Hold, Locals, SameTokens
      <4>2. CASE ListMappings(d)
        BY <4>2, <1>t DEF ListMappings, Hold, Locals, SameTokens
      <4>. QED BY <3>1, <4>1, <4>2
    <3>2. ASSUME RemovalFails(d) PROVE SameTokens(d)
      BY <3>2, <1>t DEF RemovalFails, Hold, Locals, SameTokens
    <3>3. ASSUME RemovalDone(d) PROVE SameTokens(d)
      <4>1. PICK k : Hold(d, [mem[d] EXCEPT !.kept = k])
        BY <3>3 DEF RemovalDone
      <4>. QED BY <4>1, <1>t DEF Hold, Locals, SameTokens
    <3>4. ASSUME NEW e \in Events, DeleteEvent(d, e) PROVE SameTokens(d)
      BY <3>4, <1>t DEF DeleteEvent, Hold, Locals, SameTokens
    <3>. QED BY <1>8, <3>1, <3>2, <3>3, <3>4
  <2>2. pc'[d] = "reading" => pc[d] = "reading"
    BY <1>8, <1>t DEF CountEvents, ListMappings, RemovalFails, RemovalDone, DeleteEvent, Goto
  <2>. QED BY <2>1, <2>2 DEF Moves
<1>9. ASSUME \/ StartWithoutSession(d) \/ ReadsDone(d) \/ RevocationsDone(d) \/ DeleteData(d) \/ DeleteUser(d)
             \/ DeleteUserPastRestrict(d) \/ DeleteUserErrs(d) \/ CheckGone(d)
      PROVE  Moves(d)
  BY <1>9, <1>t DEF StartWithoutSession, ReadsDone, RevocationsDone, DeleteData, DeleteUser,
     DeleteUserPastRestrict, DeleteUserErrs, CheckGone, Goto, Moves, SameTokens
<1>10. ASSUME NEW b \in Deletions, Deletion(b) PROVE Moves(d)
  <2>1. CASE b = d
    BY <1>1, <1>2, <1>3, <1>4, <1>5, <1>6, <1>7, <1>8, <1>9, <1>10, <2>1 DEF Deletion
  <2>2. CASE b # d
    BY <1>10, <2>2, OwnStep, MoveOfOther
  <2>. QED BY <2>1, <2>2
<1>11. ASSUME NEW c \in Callbacks, Callback(c) PROVE Moves(d)
  BY <1>11, MoveOfOther DEF Callback, Exchange, ReadExisting, SaveConnection, CallbackFails
<1>12. ASSUME NEW q \in Questions, Ask(q) PROVE Moves(d)
  BY <1>12, MoveOfOther DEF Ask
<1>13. ASSUME NEW row \in OwnedRows, Write(row) PROVE Moves(d)
  BY <1>13, MoveOfOther DEF Write
<1>14. ASSUME NEW t \in TokenIds, EndGrant(t) PROVE Moves(d)
  BY <1>14, MoveOfOther DEF EndGrant
<1>15. CASE UNCHANGED vars
  BY <1>15, MoveOfOther DEF vars
<1>. QED BY <1>10, <1>11, <1>12, <1>13, <1>14, <1>15 DEF Next

\* What a step does to the record of a deletion: nothing, or it is written as the request ends, or a
\* background answer replaces an unconfirmed value.
Writes(d) ==
    /\ pc[d] = "finish" /\ pc'[d] \in {"answered", "crashed"} /\ ~account /\ SameTokens(d)
    /\ record'[d] = [p \in Providers |-> StoredRevocation(d, p)]
Corrects(d, p, outcome) ==
    /\ pc[d] = "answered" /\ pc'[d] = "answered" /\ SameTokens(d)
    /\ RecordLate(d, p, outcome)
    /\ outcome \in Confirmed => mem[d].seen[p] \notin live'

RecordMoves(d) ==
    \/ record'[d] = record[d]
    \/ Writes(d)
    \/ \E p \in Providers, outcome \in Outcomes : Corrects(d, p, outcome)

LEMMA RecordMove ==
    ASSUME TypeOK, [Next]_vars, NEW d \in Deletions
    PROVE  RecordMoves(d)
<1>t. /\ pc \in [Deletions -> Stages] /\ mem \in [Deletions -> Locals]
      /\ record \in [Deletions -> [Providers -> StoredRevocations \cup {"absent"}]]
  BY DEF TypeOK
<1>0. ASSUME UNCHANGED record PROVE RecordMoves(d)
  BY <1>0 DEF RecordMoves
<1>1. ASSUME NEW b \in Deletions, b # d, WriteRecord(b) \/ \E p \in Providers, o \in Outcomes : RecordLate(b, p, o)
      PROVE  RecordMoves(d)
  BY <1>1, <1>t DEF WriteRecord, RecordLate, RecordMoves
<1>2. ASSUME Finish(d) PROVE RecordMoves(d)
  <2>1. WriteRecord(d) \/ UNCHANGED record
    BY <1>2 DEF Finish
  <2>2. SameTokens(d)
    <3>1. PICK k, l : Hold(d, [mem[d] EXCEPT !.known = k, !.tries = l])
      BY <1>2 DEF Finish
    <3>. QED BY <3>1, <1>t DEF Hold, Locals, SameTokens
  <2>3. pc[d] = "finish" /\ pc'[d] = "answered"
    BY <1>2, <1>t DEF Finish, Goto
  <2>. QED BY <2>1, <2>2, <2>3, <1>t DEF WriteRecord, RecordMoves, Writes
<1>3. ASSUME Crash(d) PROVE RecordMoves(d)
  <2>1. CASE WriteRecord(d) /\ UNCHANGED mem /\ pc[d] = "finish"
    BY <1>3, <2>1, <1>t DEF Crash, Goto, WriteRecord, RecordMoves, Writes, SameTokens
  <2>. QED BY <1>3, <1>0, <2>1 DEF Crash
<1>4. ASSUME NEW p \in Providers, Retry(d, p) PROVE RecordMoves(d)
  <2>1. PICK outcome \in Outcomes \ {"undecryptable"} :
          /\ Offer(mem[d].seen[p], outcome)
          /\ Hold(d, [mem[d] EXCEPT !.tries[p] = IF outcome = "unreachable" THEN @ - 1 ELSE 0])
          /\ RecordLate(d, p, outcome) \/ UNCHANGED record
    BY <1>4 DEF Retry
  <2>2. outcome \in Confirmed => mem[d].seen[p] \notin live'
    BY <2>1 DEF Offer, Confirmed
  <2>3. SameTokens(d)
    <3>1. PICK n : Hold(d, [mem[d] EXCEPT !.tries[p] = n])
      BY <2>1
    <3>. QED BY <3>1, <1>t DEF Hold, Locals, SameTokens
  <2>4. pc[d] = "answered" /\ pc'[d] = "answered"
    BY <1>4 DEF Retry
  <2>5. CASE RecordLate(d, p, outcome)
    BY <2>2, <2>3, <2>4, <2>5 DEF RecordMoves, Corrects
  <2>. QED BY <1>0, <2>1, <2>5
<1>5. ASSUME NEW b \in Deletions, b # d, Finish(b) \/ Crash(b) \/ \E p \in Providers : Retry(b, p)
      PROVE  RecordMoves(d)
  <2>1. UNCHANGED record \/ WriteRecord(b) \/ \E p \in Providers, o \in Outcomes : RecordLate(b, p, o)
    BY <1>5 DEF Finish, Crash, Retry
  <2>. QED BY <1>0, <1>1, <1>5, <2>1
<1>6. ASSUME NEW b \in Deletions,
             \/ Start(b) \/ StartWithoutSession(b) \/ CountEvents(b) \/ ReadFails(b) \/ ReadsDone(b)
             \/ \E p \in Providers : ReadConnection(b, p) \/ Revoke(b, p)
             \/ ListMappings(b) \/ RemovalFails(b) \/ RemovalDone(b)
             \/ \E e \in Events : DeleteEvent(b, e)
             \/ RevocationsDone(b) \/ DeleteData(b) \/ DeleteDataFails(b)
             \/ DeleteUser(b) \/ DeleteUserPastRestrict(b) \/ DeleteUserErrs(b)
             \/ CheckGone(b) \/ NotKnownGone(b)
      PROVE  UNCHANGED record
  BY <1>6 DEF Start, StartWithoutSession, ReadConnection, CountEvents, ReadFails, ReadsDone,
     ListMappings, DeleteEvent, RemovalFails, RemovalDone, Revoke, RevocationsDone, DeleteData,
     DeleteDataFails, DeleteUser, DeleteUserPastRestrict, DeleteUserErrs, CheckGone, NotKnownGone,
     Cascade, database
<1>7. ASSUME NEW b \in Deletions, Deletion(b) PROVE RecordMoves(d)
  BY <1>0, <1>2, <1>3, <1>4, <1>5, <1>6, <1>7 DEF Deletion
<1>8. ASSUME NEW c \in Callbacks, Callback(c) PROVE UNCHANGED record
  BY <1>8 DEF Callback, Exchange, ReadExisting, SaveConnection, CallbackFails, database
<1>9. ASSUME NEW q \in Questions, Ask(q) PROVE UNCHANGED record
  BY <1>9 DEF Ask
<1>10. ASSUME NEW row \in OwnedRows, Write(row) PROVE UNCHANGED record
  BY <1>10 DEF Write
<1>11. ASSUME NEW t \in TokenIds, EndGrant(t) PROVE UNCHANGED record
  BY <1>11 DEF EndGrant, database
<1>12. CASE UNCHANGED vars
  BY <1>0, <1>12 DEF vars, database
<1>. QED BY <1>0, <1>7, <1>8, <1>9, <1>10, <1>11, <1>12 DEF Next

\* What a step does to the tokens outside the requests: no issued token comes alive, and the
\* connections and callbacks hold only issued ones.
LEMMA TokenMove ==
    ASSUME TypeOK, HeldIsIssued, [Next]_vars
    PROVE  /\ Issued \subseteq Issued'
           /\ \A t \in Issued : t \in live' => t \in live
           /\ \A p \in Providers : token'[p] \in Issued' \cup {NoToken}
           /\ \A c \in Callbacks : grant'[c] \in Issued' \cup {NoToken}
<1>. DEFINE Goal == /\ Issued \subseteq Issued'
                    /\ \A t \in Issued : t \in live' => t \in live
                    /\ \A p \in Providers : token'[p] \in Issued' \cup {NoToken}
                    /\ \A c \in Callbacks : grant'[c] \in Issued' \cup {NoToken}
<1>t. /\ cpc \in [Callbacks -> {"idle", "exchanged", "saving", "done"}]
      /\ token \in [Providers -> TokenIds \cup {NoToken}]
      /\ grant \in [Callbacks -> TokenIds \cup {NoToken}]
      /\ CallbackProvider \in [Callbacks -> Providers] /\ Callbacks \cap Providers = {}
  BY DeletionConstants DEF TypeOK
<1>0. ASSUME UNCHANGED <<cpc, grant>>, live' \subseteq live,
             \A p \in Providers : token'[p] \in {token[p], NoToken}
      PROVE  Goal
  BY <1>0 DEF HeldIsIssued, Issued
<1>1. ASSUME NEW c \in Callbacks, Exchange(c) PROVE Goal
  <2>1. UNCHANGED token /\ cpc[c] = "idle" /\ cpc' = [cpc EXCEPT ![c] = "exchanged"]
    BY <1>1 DEF Exchange, database
  <2>2. Issued' = Issued \cup {c} /\ c \notin Issued
    BY <1>t, <2>1 DEF Issued
  <2>3. live' \subseteq live \cup {c} /\ \A b \in Callbacks : grant'[b] = grant[b] \/ grant'[b] = c
    BY <1>1, <1>t DEF Exchange
  <2>. QED BY <2>1, <2>2, <2>3 DEF HeldIsIssued
<1>2. ASSUME NEW c \in Callbacks, ReadExisting(c) PROVE Goal
  <2>1. Issued' = Issued /\ UNCHANGED <<token, live>>
    BY <1>2, <1>t DEF ReadExisting, database, google, Issued
  <2>2. \A b \in Callbacks : grant'[b] \in {grant[b], token[CallbackProvider[c]]}
    BY <1>2, <1>t DEF ReadExisting
  <2>. QED BY <1>t, <2>1, <2>2 DEF HeldIsIssued
<1>3. ASSUME NEW c \in Callbacks, SaveConnection(c) PROVE Goal
  <2>1. Issued' = Issued /\ UNCHANGED <<grant, live>>
    BY <1>3, <1>t DEF SaveConnection, google, Issued
  <2>2. \A p \in Providers : token'[p] \in {token[p], grant[c]}
    BY <1>3, <1>t DEF SaveConnection
  <2>. QED BY <2>1, <2>2 DEF HeldIsIssued
<1>4. ASSUME NEW c \in Callbacks, CallbackFails(c) PROVE Goal
  <2>1. UNCHANGED <<token, grant, live>>
    BY <1>4 DEF CallbackFails, database, google
  <2>2. Issued \subseteq Issued'
    BY <1>4, <1>t DEF CallbackFails, Issued
  <2>. QED BY <2>1, <2>2 DEF HeldIsIssued
<1>5. ASSUME NEW d \in Deletions, NEW p \in Providers, Revoke(d, p) \/ Retry(d, p) PROVE Goal
  <2>1. UNCHANGED <<cpc, grant, token>>
    BY <1>5 DEF Revoke, Retry, database, writers
  <2>2. live' \subseteq live
    BY <1>5 DEF Revoke, Retry, Offer
  <2>. QED BY <1>0, <2>1, <2>2
<1>6. ASSUME NEW d \in Deletions, DeleteData(d) \/ DeleteDataFails(d) \/ DeleteUser(d) \/ DeleteUserPastRestrict(d)
      PROVE  Goal
  <2>1. UNCHANGED <<cpc, grant, live>>
    BY <1>6 DEF DeleteData, DeleteDataFails, DeleteUser, DeleteUserPastRestrict, google, writers
  <2>2. \A p \in Providers : token'[p] \in {token[p], NoToken}
    BY <1>6 DEF DeleteData, DeleteDataFails, DeleteUser, DeleteUserPastRestrict, DataDeleted, Cascade
  <2>. QED BY <1>0, <2>1, <2>2
<1>7. ASSUME NEW d \in Deletions, DeleteUserErrs(d) PROVE Goal
  <2>1. UNCHANGED <<cpc, grant, live>>
    BY <1>7 DEF DeleteUserErrs, google, writers
  <2>2. UNCHANGED token \/ \A p \in Providers : token'[p] = NoToken
    BY <1>7 DEF DeleteUserErrs, Cascade, database
  <2>. QED BY <1>0, <2>1, <2>2
<1>8. ASSUME NEW d \in Deletions,
             \/ Start(d) \/ StartWithoutSession(d) \/ CountEvents(d) \/ ReadFails(d) \/ ReadsDone(d)
             \/ \E p \in Providers : ReadConnection(d, p)
             \/ ListMappings(d) \/ RemovalFails(d) \/ RemovalDone(d)
             \/ \E e \in Events : DeleteEvent(d, e)
             \/ RevocationsDone(d) \/ CheckGone(d) \/ NotKnownGone(d) \/ Finish(d) \/ Crash(d)
      PROVE  UNCHANGED <<cpc, grant, live, token>>
  BY <1>8 DEF Start, StartWithoutSession, ReadConnection, CountEvents, ReadFails, ReadsDone,
     ListMappings, DeleteEvent, RemovalFails, RemovalDone, RevocationsDone, CheckGone, NotKnownGone,
     Finish, Crash, database, google, writers
<1>9. ASSUME NEW d \in Deletions, Deletion(d) PROVE Goal
  <2>1. UNCHANGED <<cpc, grant, live, token>> => Goal
    BY <1>0
  <2>. QED BY <1>5, <1>6, <1>7, <1>8, <1>9, <2>1 DEF Deletion
<1>10. ASSUME NEW q \in Questions, Ask(q) PROVE Goal
  BY <1>0, <1>10 DEF Ask, google
<1>11. ASSUME NEW row \in OwnedRows, Write(row) PROVE Goal
  BY <1>0, <1>11 DEF Write, google
<1>12. ASSUME NEW t \in TokenIds, EndGrant(t) PROVE Goal
  BY <1>0, <1>12 DEF EndGrant, database, writers
<1>13. CASE UNCHANGED vars
  BY <1>0, <1>13 DEF vars, database, google, writers
<1>. QED BY <1>1, <1>2, <1>3, <1>4, <1>9, <1>10, <1>11, <1>12, <1>13 DEF Next, Callback

\* A deletion whose record is written is over: its request can only be sent again, and refused.
LEMMA RecordEnds ==
    ASSUME TypeOK, Gone, [Next]_vars, NEW d \in Deletions, NEW p \in Providers,
           record[d][p] # "absent", pc[d] \in {"answered", "crashed"}
    PROVE  pc'[d] \in {"answered", "crashed"} /\ SameTokens(d)
<1>t. pc \in [Deletions -> Stages] /\ mem \in [Deletions -> Locals] /\ ~account
  BY DEF TypeOK, Gone
<1>1. ASSUME Deletion(d) PROVE pc'[d] \in {"answered", "crashed"} /\ SameTokens(d)
  <2>1. StartWithoutSession(d) \/ \E q \in Providers : Retry(d, q)
    BY <1>1, <1>t DEF Deletion, Start, ReadConnection, CountEvents, ReadFails, ReadsDone,
       ListMappings, DeleteEvent, RemovalFails, RemovalDone, Revoke, RevocationsDone, DeleteData,
       DeleteDataFails, DeleteUser, DeleteUserPastRestrict, DeleteUserErrs, CheckGone, NotKnownGone,
       Finish, Crash
  <2>2. ASSUME StartWithoutSession(d) PROVE pc'[d] \in {"answered", "crashed"} /\ SameTokens(d)
    BY <2>2, <1>t DEF StartWithoutSession, Goto, SameTokens
  <2>3. ASSUME NEW q \in Providers, Retry(d, q) PROVE pc'[d] \in {"answered", "crashed"} /\ SameTokens(d)
    <3>1. PICK n : Hold(d, [mem[d] EXCEPT !.tries[q] = n])
      BY <2>3 DEF Retry
    <3>. QED BY <2>3, <3>1, <1>t DEF Retry, Hold, Locals, SameTokens
  <2>. QED BY <2>1, <2>2, <2>3
<1>2. ASSUME NEW b \in Deletions, b # d, Deletion(b) PROVE mem'[d] = mem[d] /\ pc'[d] = pc[d]
  BY <1>2, OwnStep
<1>3. ASSUME NEW c \in Callbacks, Callback(c) PROVE mem' = mem /\ pc' = pc
  BY <1>3 DEF Callback, Exchange, ReadExisting, SaveConnection, CallbackFails
<1>4. ASSUME NEW q \in Questions, Ask(q) PROVE mem' = mem /\ pc' = pc
  BY <1>4 DEF Ask
<1>5. ASSUME NEW row \in OwnedRows, Write(row) PROVE mem' = mem /\ pc' = pc
  BY <1>5 DEF Write
<1>6. ASSUME NEW t \in TokenIds, EndGrant(t) PROVE mem' = mem /\ pc' = pc
  BY <1>6 DEF EndGrant
<1>7. CASE UNCHANGED vars
  BY <1>7 DEF vars, SameTokens
<1>. QED BY <1>1, <1>2, <1>3, <1>4, <1>5, <1>6, <1>7 DEF Next, SameTokens

LEMMA HonestInit == Init => Honest
BY DeletionConstants DEF Init, Honest, HeldIsIssued, Issued, AskedAfterReading, ConfirmedIsDead, Confirmed,
   RecordKept, Absent, Fresh

LEMMA HonestStep == TypeOK /\ TypeOK' /\ Gone /\ Gone' /\ Honest /\ [Next]_vars => Honest'
<1>. SUFFICES ASSUME TypeOK, TypeOK', Gone, Gone', Honest, [Next]_vars PROVE Honest'
  OBVIOUS
<1>. USE DEF Honest
<1>t. /\ mem \in [Deletions -> Locals] /\ NoToken \notin live /\ NoToken \notin live'
      /\ record \in [Deletions -> [Providers -> StoredRevocations \cup {"absent"}]]
  BY DeletionConstants DEF TypeOK
<1>a. \A d \in Deletions : /\ mem[d].seen \in [Providers -> TokenIds \cup {NoToken}]
                           /\ mem[d].attempt \in [Providers -> Outcomes \cup {"not_asked"}]
  BY <1>t DEF Locals
<1>b. \A d \in Deletions : Moves(d) /\ RecordMoves(d)
  BY Move, RecordMove
<1>c. \A d \in Deletions, p \in Providers : mem[d].seen[p] \notin live => mem[d].seen[p] \notin live'
  BY <1>t, TokenMove DEF HeldIsIssued
<1>1. HeldIsIssued'
  <2>1. ASSUME NEW d \in Deletions, NEW p \in Providers PROVE mem'[d].seen[p] \in Issued' \cup {NoToken}
    <3>1. mem[d].seen[p] \in Issued' \cup {NoToken} /\ token[p] \in Issued' \cup {NoToken}
      BY TokenMove DEF HeldIsIssued
    <3>2. mem'[d].seen[p] \in {mem[d].seen[p], token[p], NoToken}
      <4>1. CASE SameTokens(d)
        BY <4>1 DEF SameTokens
      <4>2. CASE Forgets(d)
        BY <4>2 DEF Forgets
      <4>3. ASSUME NEW q \in Providers, ReadsToken(d, q) PROVE mem'[d].seen[p] \in {mem[d].seen[p], token[p]}
        BY <1>a, <4>3 DEF ReadsToken
      <4>4. ASSUME NEW q \in Providers, NEW outcome \in Outcomes, AsksGoogle(d, q, outcome)
            PROVE  mem'[d].seen[p] = mem[d].seen[p]
        BY <4>4 DEF AsksGoogle
      <4>. QED BY <1>b, <4>1, <4>2, <4>3, <4>4 DEF Moves
    <3>. QED BY <3>1, <3>2
  <2>. QED BY <2>1, TokenMove DEF HeldIsIssued
<1>2. AskedAfterReading'
  <2>. SUFFICES ASSUME NEW d \in Deletions, NEW p \in Providers, pc'[d] = "reading" \/ mem'[d].seen[p] = NoToken
                PROVE  mem'[d].attempt[p] = "not_asked"
    BY DEF AskedAfterReading
  <2>1. CASE SameTokens(d) /\ (pc'[d] = "reading" => pc[d] = "reading")
    BY <2>1 DEF AskedAfterReading, SameTokens
  <2>2. CASE Forgets(d)
    BY <2>2 DEF Forgets
  <2>3. ASSUME NEW q \in Providers, ReadsToken(d, q) PROVE mem'[d].attempt[p] = "not_asked"
    BY <2>3 DEF ReadsToken, AskedAfterReading
  <2>4. ASSUME NEW q \in Providers, NEW outcome \in Outcomes, AsksGoogle(d, q, outcome)
        PROVE  mem'[d].attempt[p] = "not_asked"
    BY <1>a, <2>4 DEF AsksGoogle, AskedAfterReading
  <2>. QED BY <1>b, <2>1, <2>2, <2>3, <2>4 DEF Moves
<1>3. ConfirmedIsDead'
  <2>. SUFFICES ASSUME NEW d \in Deletions, NEW p \in Providers, mem'[d].attempt[p] \in Confirmed
                PROVE  mem'[d].seen[p] \notin live'
    BY DEF ConfirmedIsDead
  <2>1. CASE SameTokens(d)
    BY <1>c, <2>1 DEF ConfirmedIsDead, SameTokens
  <2>2. CASE Forgets(d)
    BY <2>2 DEF Forgets, Confirmed
  <2>3. ASSUME NEW q \in Providers, ReadsToken(d, q) PROVE mem'[d].seen[p] \notin live'
    BY <2>3 DEF ReadsToken, AskedAfterReading, Confirmed
  <2>4. ASSUME NEW q \in Providers, NEW outcome \in Outcomes, AsksGoogle(d, q, outcome)
        PROVE  mem'[d].seen[p] \notin live'
    BY <1>a, <1>c, <2>4 DEF AsksGoogle, ConfirmedIsDead
  <2>. QED BY <1>b, <2>1, <2>2, <2>3, <2>4 DEF Moves
<1>4. RecordKept'
  <2>. SUFFICES ASSUME NEW d \in Deletions, NEW p \in Providers, record'[d][p] # "absent"
                PROVE  /\ pc'[d] \in {"answered", "crashed"}
                       /\ ~account'
                       /\ (record'[d][p] = "not_connected") = (mem'[d].seen[p] = NoToken)
                       /\ record'[d][p] \in Confirmed => mem'[d].seen[p] \notin live'
    BY DEF RecordKept
  <2>0. ~account'
    BY DEF Gone
  <2>1. CASE record'[d] = record[d]
    <3>1. pc'[d] \in {"answered", "crashed"} /\ SameTokens(d)
      BY <2>1, RecordEnds DEF RecordKept
    <3>. QED BY <1>c, <2>0, <2>1, <3>1 DEF RecordKept, SameTokens
  <2>2. CASE Writes(d)
    <3>1. record'[d][p] = StoredRevocation(d, p)
      BY <2>2 DEF Writes
    <3>2. /\ (StoredRevocation(d, p) = "not_connected") = (mem[d].seen[p] = NoToken)
          /\ StoredRevocation(d, p) \in Confirmed => mem[d].attempt[p] \in Confirmed
      <4>1. CASE mem[d].seen[p] = NoToken
        <5>1. StoredRevocation(d, p) = "not_connected"
          BY <4>1 DEF StoredRevocation, AskedAfterReading, Confirmed
        <5>. QED BY <4>1, <5>1 DEF Confirmed
      <4>2. CASE mem[d].seen[p] # NoToken /\ mem[d].attempt[p] \in Confirmed
        BY <4>2 DEF StoredRevocation, Confirmed
      <4>3. CASE mem[d].seen[p] # NoToken /\ mem[d].attempt[p] \notin Confirmed
        <5>1. StoredRevocation(d, p) \in {"unconfirmed", "not_revocable"}
          BY <4>3 DEF StoredRevocation
        <5>. QED BY <4>3, <5>1 DEF Confirmed
      <4>. QED BY <4>1, <4>2, <4>3
    <3>3. StoredRevocation(d, p) \in Confirmed => mem[d].seen[p] \notin live'
      BY <1>c, <3>2 DEF ConfirmedIsDead
    <3>. QED BY <2>0, <2>2, <3>1, <3>2, <3>3 DEF Writes, SameTokens
  <2>3. ASSUME NEW q \in Providers, NEW outcome \in Outcomes, Corrects(d, q, outcome)
        PROVE  /\ pc'[d] \in {"answered", "crashed"}
               /\ (record'[d][p] = "not_connected") = (mem'[d].seen[p] = NoToken)
               /\ record'[d][p] \in Confirmed => mem'[d].seen[p] \notin live'
    <3>1. pc'[d] = "answered" /\ mem'[d].seen = mem[d].seen
      BY <2>3 DEF Corrects, SameTokens
    <3>2. CASE record'[d][p] = record[d][p]
      BY <1>c, <3>1, <3>2 DEF RecordKept
    <3>3. CASE record'[d][p] # record[d][p]
      <4>1. /\ p = q /\ record[d][p] = "unconfirmed"
            /\ record'[d][p] = IF outcome \in Confirmed THEN outcome ELSE "not_revocable"
        BY <1>t, <2>3, <3>3 DEF Corrects, RecordLate
      <4>2. mem[d].seen[p] # NoToken
        BY <4>1 DEF RecordKept
      <4>3. outcome \in Confirmed => mem[d].seen[p] \notin live'
        BY <2>3, <4>1 DEF Corrects
      <4>. QED BY <3>1, <4>1, <4>2, <4>3 DEF Confirmed
    <3>. QED BY <3>2, <3>3
  <2>. QED BY <1>b, <2>0, <2>1, <2>2, <2>3 DEF RecordMoves
<1>. QED BY <1>1, <1>2, <1>3, <1>4

\* Neither the landing page nor a deletion record claims a token dead that Google would still honour,
\* also after background retries, and a record is of a gone account and of what its request read
\* (deletion.ts:36, 157-186).
THEOREM RecordsTellTheTruth == Spec => []RecordIsTrue
<1>1. Honest => RecordIsTrue
  BY DEF Honest, ConfirmedIsDead, RecordKept, RecordIsTrue, RevokedOnlyIfGoogleSaidSo,
     RecordIsOfAGoneAccount, NotRevoked, Confirmed
<1>. QED BY <1>1, HonestInit, HonestStep, GoneAlways, TypeCorrect, PTL DEF Spec


=============================================================================
