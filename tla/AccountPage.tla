---------------------------- MODULE AccountPage ----------------------------
(***************************************************************************)
(* "Your data" on the settings page: the download of everything the        *)
(* account holds, read table by table and page by page while the account   *)
(* is written, and the dialog that deletes it.  The dialog offers the      *)
(* download, so both can be under way.  The deletion itself is             *)
(* AccountDeletion's; here it is its two commits, the rows and the         *)
(* sign-in, and the answers the page can get to it.                        *)
(***************************************************************************)
EXTENDS Integers, FiniteSets

CONSTANTS
    Keys,           \* the unique keys rows of a table are paged by
    ReadPage,       \* PAGE_SIZE
    MaxRows,        \* MAX_ROWS
    MaxRequests,    \* bound: deletion requests sent
    MaxRowWrites,   \* bound: rows another tab writes or removes
    MaxLost         \* bound: statements that fail, answers lost or unreadable

ASSUME PageAssumption ==
    /\ ReadPage \in Nat \ {0} /\ MaxRows \in Nat /\ MaxRequests \in Nat \ {0} /\ MaxRowWrites \in Nat
    /\ Keys \subseteq Int /\ IsFiniteSet(Keys)

VARIABLES
    account,    \* [rows : table -> keys held, signIn : it can sign in]
    reading,    \* the export: its stage and, per table, the rows read, how many came, whether its read has ended
    kept,       \* history: the rows held when the export was asked for
    ripped,     \* history: a row was removed since
    dialog,     \* [open, typed, busy, problem, left]
    asked,      \* the deletion requests: where each is
    rowWrites, losses

accountVars == <<account, reading, kept, ripped, dialog, asked, rowWrites, losses>>

\* The digest items of a delivery are read by the ids of the deliveries read.
OwnedTables == {"watchlist_items", "email_digest_deliveries"}
Exported == OwnedTables \cup {"email_digest_items"}
AllRows == Exported \X Keys
NoRows == [t \in Exported |-> {}]
NotReading == [stage |-> "idle", read |-> NoRows, came |-> [t \in Exported |-> 0], ended |-> {}]

\* An item belongs to the delivery of its own key.
Selected(t) ==
    IF t = "email_digest_items" THEN account.rows[t] \cap reading.read["email_digest_deliveries"]
    ELSE account.rows[t]
\* The place of a row among those selected, in the order of the key.
PlaceIn(ks, k) == Cardinality({j \in ks : j <= k})

Refuses == ~account.signIn
\* What references the user goes with it.
NoAccount == [rows |-> [t \in Exported |-> {}], signIn |-> FALSE]

----------------------------------------------------------------------------

Download ==
    /\ reading.stage = "idle" /\ dialog.left = FALSE
    /\ IF Refuses THEN UNCHANGED <<reading, kept, ripped>>
       ELSE /\ reading' = [NotReading EXCEPT !.stage = "reading"]
            /\ kept' = {r \in AllRows : r[2] \in account.rows[r[1]]}
            /\ ripped' = FALSE
    /\ UNCHANGED <<account, dialog, asked, rowWrites, losses>>

\* The owned tables are read side by side, the items when the deliveries are.
CanRead(t) ==
    /\ reading.stage = "reading" /\ t \notin reading.ended
    /\ t \in OwnedTables \/ OwnedTables \subseteq reading.ended

\* One page of fetchAll, from the number of rows that came; a short page is the last.
PageFrom(ks, from) == {k \in ks : from < PlaceIn(ks, k) /\ PlaceIn(ks, k) <= from + ReadPage}
FetchPage(t) ==
    LET page == PageFrom(Selected(t), reading.came[t])
        size == Cardinality(page) IN
    /\ CanRead(t)
    /\ reading' = IF size = ReadPage /\ reading.came[t] + ReadPage >= MaxRows THEN NotReading
                  ELSE [reading EXCEPT !.read[t] = @ \cup page, !.came[t] = @ + size,
                                       !.ended = IF size < ReadPage THEN @ \cup {t} ELSE @]
    /\ UNCHANGED <<account, kept, ripped, dialog, asked, rowWrites, losses>>

FetchFails ==
    /\ reading.stage = "reading" /\ losses < MaxLost
    /\ losses' = losses + 1 /\ reading' = NotReading
    /\ UNCHANGED <<account, kept, ripped, dialog, asked, rowWrites>>

SaveFile ==
    /\ reading.stage = "reading" /\ reading.ended = Exported
    /\ reading' = [reading EXCEPT !.stage = "saved"]
    /\ UNCHANGED <<account, kept, ripped, dialog, asked, rowWrites, losses>>

\* Another tab follows a program, sends a digest, or unfollows.
WriteRow1(t, k) ==
    /\ rowWrites < MaxRowWrites /\ account.signIn /\ t \in OwnedTables
    /\ k \notin account.rows[t]
    /\ rowWrites' = rowWrites + 1
    /\ account' = [account EXCEPT !.rows[t] = @ \cup {k},
                       !.rows["email_digest_items"] = IF t = "email_digest_deliveries" THEN @ \cup {k} ELSE @]
    /\ UNCHANGED <<reading, kept, ripped, dialog, asked, losses>>
RemoveRow(k) ==
    /\ rowWrites < MaxRowWrites /\ k \in account.rows["watchlist_items"]
    /\ rowWrites' = rowWrites + 1 /\ ripped' = (reading.stage = "reading" \/ ripped)
    /\ account' = [account EXCEPT !.rows["watchlist_items"] = @ \ {k}]
    /\ UNCHANGED <<reading, kept, dialog, asked, losses>>

----------------------------------------------------------------------------

OpenDialog ==
    /\ ~dialog.open /\ ~dialog.left /\ asked[1] = "unsent"
    /\ dialog' = [dialog EXCEPT !.open = TRUE]
    /\ UNCHANGED <<account, reading, kept, ripped, asked, rowWrites, losses>>
TypePhrase ==
    /\ dialog.open /\ ~dialog.typed /\ ~dialog.busy
    /\ dialog' = [dialog EXCEPT !.typed = TRUE]
    /\ UNCHANGED <<account, reading, kept, ripped, asked, rowWrites, losses>>
CloseDialog ==
    /\ dialog.open /\ ~dialog.busy
    /\ dialog' = [dialog EXCEPT !.open = FALSE, !.typed = FALSE, !.problem = "none"]
    /\ UNCHANGED <<account, reading, kept, ripped, asked, rowWrites, losses>>

SubmitDeletion(n) ==
    /\ dialog.open /\ dialog.typed /\ ~dialog.busy
    /\ asked[n] = "unsent" /\ (\A m \in 1..(n - 1) : asked[m] # "unsent")
    /\ asked' = [asked EXCEPT ![n] = IF Refuses THEN "unauthorized" ELSE "under way"]
    /\ dialog' = [dialog EXCEPT !.busy = TRUE, !.problem = "none"]
    /\ UNCHANGED <<account, reading, kept, ripped, rowWrites, losses>>

\* The rows go in one transaction, whose answer can be lost; then the sign-in.
DeleteRows(n) ==
    /\ asked[n] = "under way"
    /\ \E gone, told \in BOOLEAN :
        /\ ~(gone /\ told) => losses < MaxLost
        /\ losses' = IF gone /\ told THEN losses ELSE losses + 1
        /\ told => gone
        /\ account' = IF gone THEN [account EXCEPT !.rows = [t \in Exported |-> {}]] ELSE account
        /\ ripped' = (ripped \/ gone)
        /\ asked' = [asked EXCEPT ![n] = IF told THEN "rows deleted" ELSE "deletion_failed"]
    /\ UNCHANGED <<reading, kept, dialog, rowWrites>>

\* (Mutant) an error of the delete is taken for the user being gone.
MutantDeleteUser(n) ==
    /\ asked[n] = "rows deleted"
    /\ \E gone \in BOOLEAN :
        /\ ~gone => losses < MaxLost
        /\ losses' = IF gone THEN losses ELSE losses + 1
        /\ account' = IF gone THEN NoAccount ELSE account
        /\ ripped' = (ripped \/ gone)
        /\ asked' = [asked EXCEPT ![n] = "deleted"]
    /\ UNCHANGED <<reading, kept, dialog, rowWrites>>

\* The user is deleted, or was found not to be there; else it may be either.
DeleteUser(n) ==
    /\ asked[n] = "rows deleted"
    /\ \E gone, seen \in BOOLEAN :
        /\ ~seen => losses < MaxLost
        /\ losses' = IF seen THEN losses ELSE losses + 1
        /\ seen => gone
        /\ account' = IF gone THEN NoAccount ELSE account
        /\ ripped' = (ripped \/ gone)
        /\ asked' = [asked EXCEPT ![n] = IF seen THEN "deleted" ELSE "sign_in_not_deleted"]
    /\ UNCHANGED <<reading, kept, dialog, rowWrites>>

Codes == {"unauthorized", "deletion_failed", "sign_in_not_deleted"}

\* The answer arrives: the page leaves, or says what the code means.
Arrives(n) ==
    /\ asked[n] \in Codes \cup {"deleted"}
    /\ dialog.busy /\ \A m \in DOMAIN asked : (m > n => asked[m] = "unsent")
    /\ IF asked[n] = "deleted"
       THEN /\ dialog' = [dialog EXCEPT !.left = TRUE, !.open = FALSE]
            /\ reading' = NotReading
       ELSE dialog' = [dialog EXCEPT !.problem = asked[n], !.busy = FALSE] /\ UNCHANGED reading
    /\ asked' = [asked EXCEPT ![n] = "answered"]
    /\ UNCHANGED <<account, kept, ripped, rowWrites, losses>>

\* The request breaks off, or is answered by something that is no code: a page of
\* the edge's own.  What was under way goes on.
BreaksOff(n) ==
    /\ asked[n] \notin {"unsent", "answered"} /\ losses < MaxLost
    /\ dialog.busy /\ \A m \in DOMAIN asked : (m > n => asked[m] = "unsent")
    /\ losses' = losses + 1
    /\ \E what \in {"unknown", "no code"} : dialog' = [dialog EXCEPT !.problem = what, !.busy = FALSE]
    /\ asked' = [asked EXCEPT ![n] = IF @ \in {"under way", "rows deleted"} THEN @ ELSE "answered"]
    /\ UNCHANGED <<account, reading, kept, ripped, rowWrites>>

AccountInit ==
    /\ \E watched, sent \in SUBSET Keys :
        account = [rows |-> [t \in Exported |-> IF t = "watchlist_items" THEN watched ELSE sent], signIn |-> TRUE]
    /\ reading = NotReading /\ kept = {} /\ ripped = FALSE
    /\ dialog = [open |-> FALSE, typed |-> FALSE, busy |-> FALSE, problem |-> "none", left |-> FALSE]
    /\ asked = [n \in 1..MaxRequests |-> "unsent"]
    /\ rowWrites = 0 /\ losses = 0

AccountNext ==
    \/ Download \/ FetchFails \/ SaveFile
    \/ \E t \in Exported : FetchPage(t) \/ \E k \in Keys : WriteRow1(t, k)
    \/ \E k \in Keys : RemoveRow(k)
    \/ OpenDialog \/ TypePhrase \/ CloseDialog
    \/ \E n \in DOMAIN asked : SubmitDeletion(n) \/ DeleteRows(n) \/ DeleteUser(n) \/ Arrives(n) \/ BreaksOff(n)

AccountSpec == AccountInit /\ [][AccountNext]_accountVars

----------------------------------------------------------------------------

\* A saved file holds every row the account held when it was asked for, if no row
\* was removed meanwhile: rows written beside a paged read move others to a later
\* page, never past the cursor.
CopyIsWhole ==
    reading.stage = "saved" /\ ~ripped => \A r \in kept : r[2] \in reading.read[r[1]]

\* The page leaves for "your account is deleted" only when nothing of it is left,
\* however the requests before broke off.
LeftWhenGone == dialog.left => ~account.signIn /\ \A t \in Exported : account.rows[t] = {}

\* A code's message is true of the request it answers, when it is the only one
\* and no other tab writes: which of the data and the sign-in are gone.
CodeIsTrue ==
    dialog.problem \in Codes /\ (\A n \in DOMAIN asked : n > 1 => asked[n] = "unsent")
    => /\ dialog.problem = "unauthorized" => account.signIn
       /\ dialog.problem = "deletion_failed" => account.signIn
       /\ dialog.problem = "sign_in_not_deleted" => rowWrites > 0 \/ \A t \in Exported : account.rows[t] = {}

\* What the account page tells its holder is so: the copy it saves, that the
\* account is deleted, and how far a deletion that broke off came.
AccountIsAsTold == CopyIsWhole /\ LeftWhenGone /\ CodeIsTrue

=============================================================================
