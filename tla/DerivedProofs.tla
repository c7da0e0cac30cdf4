---------------------------- MODULE DerivedProofs ----------------------------
(***************************************************************************)
(* What is derived from stored evidence is what the evidence says: the     *)
(* scope of a role (RoleScope) and the forecasts (ForecastPasses), for any *)
(* titles, rules, roles and evidence, and however many runs, reviews,      *)
(* passes, questions and failures there are.                               *)
(*                                                                         *)
(* The scope. Whether a company has nothing left to do is a matter of the  *)
(* key alone (NothingIsLeft), so a key learned once may be met again at    *)
(* any time. It is learned at the end of a run that changed nothing, and   *)
(* the invariant says what that shows: everything a key is made of only    *)
(* grows while a run is at work but for the scope, and the scope changes   *)
(* with a review or by the run's own hand. So inputs that are equal at     *)
(* both ends were equal in between, where the run matched every posting    *)
(* and classified the role as it stands.                                   *)
(*                                                                         *)
(* The forecasts. A role is covered by the cursor, or by the regeneration  *)
(* at work, when none of its changes is newer (Unmoved): nothing can       *)
(* change its evidence and leave it covered but a late commit, which the   *)
(* model counts, and a signal of the whole company, which the pass that    *)
(* stores it has yet to compute (Pending). So what a pass has loaded of a  *)
(* covered role is what is there, and what it saves of it stands.          *)
(*                                                                         *)
(* The digests, which carry forecasts to their reader (DigestDelivery),    *)
(* share no state with either: for any digests, requests, addresses,       *)
(* retries and failures, what a request knows by its stage is so (Sound).  *)
(***************************************************************************)
EXTENDS DigestDelivery, ForecastPasses, RoleScope, FiniteSetTheorems, TLAPS

(* The scope of a role. *)

Scopes == [status : Verdicts \cup {NoVerdict}, method : {"none", "rules", "model", "human"},
           of : SUBSET Titles, by : 0..MaxReleases, at : Nat]
Reviews == [status : Verdicts \cup {NoVerdict}, of : SUBSET Titles, n : Nat]
Readings == (SUBSET Titles) \X (SUBSET Titles) \X (SUBSET Titles) \X Scopes \X Reviews
Keys == [inputs : Readings \cup {<<>>}, release : 0..MaxReleases]
RunStages == {"idle", "open", "aliases", "matches", "replay", "classify", "read", "save", "after", "persist"}
Runs == [at : RunStages, before : Keys, queue : SUBSET Titles, left : SUBSET Titles, failed : BOOLEAN,
         row : Scopes, titles : SUBSET Titles, result : Scopes, keep : BOOLEAN]

ScopeTypeOK ==
    /\ postings \in SUBSET Titles /\ aliases \in SUBSET Titles /\ matched \in SUBSET Titles
    /\ scope \in Scopes /\ review \in Reviews /\ release \in 0..MaxReleases
    /\ noopKey \in Keys /\ run \in Runs
    /\ reviewing \in [open : BOOLEAN, at : Nat, of : SUBSET Titles]

\* A title is known to the role before its posting is matched, and nothing is matched that is not posted.
TitlesAreKnown ==
    /\ matched \subseteq aliases /\ matched \subseteq postings
    /\ review.of \subseteq aliases /\ reviewing.of \subseteq aliases
    /\ run.queue \subseteq postings /\ run.left \subseteq postings
    /\ run.at = "matches" => run.queue \subseteq aliases

Timeless(held) == [held EXCEPT !.at = 0]
\* What the run at work read when it began.
Began == run.before.inputs
BeforeSave == {"open", "aliases", "matches", "replay", "classify", "read", "save"}

\* Since then everything grew, a review is a new one, and the scope is the one it read as long as
\* the review is.
SinceItBegan ==
    run.at # "idle" =>
        /\ Began \in Readings
        /\ Began[1] \subseteq postings
        /\ Began[2] \subseteq aliases /\ Began[3] \subseteq matched
        /\ Began[5].n <= review.n /\ (Began[5].n = review.n => Began[5] = review)
        /\ run.at \in BeforeSave /\ Began[5] = review => Began[4] = Timeless(scope)

\* A run drops no posting it found, unless it counts a failure.
NothingIsDropped ==
    run.at \in (BeforeSave \ {"open"}) \cup {"after"} /\ ~run.failed =>
        Began[1] \subseteq matched \cup run.queue \cup run.left
QueuesAreWorked ==
    /\ run.at # "replay" => run.left = {}
    /\ run.at \notin {"aliases", "matches"} => run.queue = {}

\* The row a run classifies is the stored one until its time of classification moves on.
RowWasRead ==
    run.at \in {"read", "save"} =>
        /\ run.titles = aliases
        /\ run.row.at <= scope.at /\ (run.row.at = scope.at => run.row = scope)
        /\ Began[5] = review => run.row = scope

\* What it will save is a classification of that row, and a person's outcome only where it is the row's.
ResultIsOfTheRow ==
    run.at = "save" =>
        /\ run.result.at = 0
        /\ run.result.method = "human" => run.result = Timeless(run.row)
        /\ run.row = scope => \E c \in Classifications(run.row, run.titles, review.of, run.before.release) :
                                  run.result = Timeless(c)

\* Classifying the row again could leave it as it is.
Settled(held, titles, reviewed, by) ==
    \E c \in Classifications(held, titles, reviewed, by) : c.status = held.status /\ c.of = held.of

\* A company with this key has nothing left to do.
NothingIsLeft(key) ==
    /\ key.inputs[1] = key.inputs[3] /\ key.inputs[3] \subseteq key.inputs[2]
    /\ Settled(key.inputs[4], key.inputs[2], key.inputs[5].of, key.release)

\* A run whose inputs are what they were when it began, and failed nothing, has done all there is; so
\* has every run whose key was kept.
KeysAreEarned ==
    /\ run.at = "after" /\ ~run.failed /\ Inputs = Began =>
           Settled(scope, aliases, review.of, run.before.release)
    /\ run.at = "persist" /\ run.keep => NothingIsLeft(run.before)
    /\ noopKey # NoKey => noopKey.inputs # <<>> /\ NothingIsLeft(noopKey)

ScopeInv ==
    /\ ScopeTypeOK /\ TitlesAreKnown /\ SinceItBegan /\ NothingIsDropped /\ QueuesAreWorked
    /\ RowWasRead /\ ResultIsOfTheRow /\ KeysAreEarned /\ DecisionStands

-----------------------------------------------------------------------------
(* What the definitions come to. *)

LEMMA NothingYet ==
    /\ Unclassified \in Scopes /\ NoKey \in Keys /\ NoRun \in Runs /\ NoReview \in Reviews
    /\ Unclassified.method = "none"
<1>1. 0 \in 0..MaxReleases /\ 0 \in Nat
  BY ReleasesAreCounted
<1>2. Unclassified \in Scopes /\ Unclassified.method = "none"
  BY <1>1 DEF Unclassified, Scopes
<1>3. NoKey \in Keys
  BY <1>1 DEF NoKey, Keys
<1> QED BY <1>1, <1>2, <1>3 DEF NoRun, Runs, RunStages, NoReview, Reviews

LEMMA TimelessIs ==
    ASSUME NEW held \in Scopes
    PROVE  /\ Timeless(held) \in Scopes /\ Timeless(held).at = 0
           /\ Timeless(held).status = held.status /\ Timeless(held).method = held.method
           /\ Timeless(held).of = held.of /\ Timeless(held).by = held.by
           /\ held.at = 0 => Timeless(held) = held
BY DEF Timeless, Scopes

LEMMA SameAtAnyTime ==
    ASSUME NEW held \in Scopes, NEW n \in Nat
    PROVE  [held EXCEPT !.at = n] \in Scopes /\ Timeless([held EXCEPT !.at = n]) = Timeless(held)
BY DEF Timeless, Scopes

LEMMA RulesAre ==
    ASSUME NEW titles \in SUBSET Titles, NEW by \in 0..MaxReleases
    PROVE  /\ ByRules(titles, by) \in Scopes /\ ByRules(titles, by).method = "rules"
           /\ [ByRules(titles, by) EXCEPT !.method = "model"] \in Scopes
           /\ [ByRules(titles, by) EXCEPT !.method = "model"].method = "model"
<1>1. RuleVerdict[by][titles] \in Verdicts
  BY RulesAreTotal
<1> QED BY <1>1 DEF ByRules, Scopes

\* A person's outcome comes of nothing but a person's, and stays on the same titles.
LEMMA ClassificationsAre ==
    ASSUME NEW held \in Scopes, NEW titles \in SUBSET Titles, NEW reviewed, NEW by \in 0..MaxReleases,
           NEW c \in Classifications(held, titles, reviewed, by)
    PROVE  /\ c \in Scopes
           /\ c.method = "human" => c = held
           /\ held.method = "human" /\ reviewed = titles => c = held
<1>1. c \in {held, ByRules(titles, by), [ByRules(titles, by) EXCEPT !.method = "model"]}
  BY DEF Classifications
<1>2. held.method = "human" /\ reviewed = titles => c = held
  BY DEF Classifications
<1> QED BY <1>1, <1>2, RulesAre

\* The time a row was classified at does not matter to what it would be classified as.
LEMMA SettledAlike ==
    ASSUME NEW held, NEW other, NEW titles, NEW reviewed, NEW by,
           other.status = held.status, other.method = held.method, other.of = held.of, other.by = held.by,
           Settled(held, titles, reviewed, by)
    PROVE  Settled(other, titles, reviewed, by)
<1> DEFINE fresh == ByRules(titles, by)
           suggested == [fresh EXCEPT !.method = "model"]
           Stays(r) == \/ r.method = "human" /\ reviewed = titles
                       \/ fresh.status = "ambiguous" /\ r.method = "model" /\ r.of = titles /\ r.by = by
<1>1. \A r : Classifications(r, titles, reviewed, by) =
         IF Stays(r) THEN {r} ELSE IF fresh.status # "ambiguous" THEN {fresh} ELSE {fresh, suggested}
  BY DEF Classifications
<1>2. Stays(held) <=> Stays(other)
  OBVIOUS
<1>3. PICK c \in Classifications(held, titles, reviewed, by) : c.status = held.status /\ c.of = held.of
  BY DEF Settled
<1> HIDE DEF fresh, suggested, Stays
<1>4. CASE Stays(held)
  <2>1. other \in Classifications(other, titles, reviewed, by)
    BY <1>1, <1>2, <1>4
  <2> QED BY <2>1 DEF Settled
<1>5. CASE ~Stays(held)
  <2>1. Classifications(other, titles, reviewed, by) = Classifications(held, titles, reviewed, by)
    BY <1>1, <1>2, <1>5
  <2> QED BY <1>3, <2>1 DEF Settled
<1> QED BY <1>4, <1>5

LEMMA InputsAre ==
    /\ Inputs[1] = postings /\ Inputs[2] = aliases /\ Inputs[3] = matched
    /\ Inputs[4] = Timeless(scope) /\ Inputs[5] = review /\ Inputs # <<>>
    /\ ScopeTypeOK => Inputs \in Readings
<1>1. Inputs # <<>>
  BY DEF Inputs
<1>2. ScopeTypeOK => Inputs \in Readings
  BY TimelessIs DEF ScopeTypeOK, Inputs, Readings, Timeless
<1> QED BY <1>1, <1>2 DEF Inputs, Timeless


-----------------------------------------------------------------------------
(* Beside the runs. *)

\* What was learned of a key stays learned.
LEMMA KeysStay ==
    ASSUME KeysAreEarned, noopKey' = noopKey, run'.before = run.before,
           run'.at = "persist" /\ run'.keep => run.at = "persist" /\ run.keep,
           run'.at = "after" /\ ~run'.failed /\ Inputs' = Began' =>
               Settled(scope, aliases, review.of, run.before.release)'
    PROVE  KeysAreEarned'
<1>1. NothingIsLeft(run.before)' = NothingIsLeft(run.before)
  BY DEF NothingIsLeft, Settled, Classifications, ByRules
<1>2. NothingIsLeft(noopKey)' = NothingIsLeft(noopKey)
  BY DEF NothingIsLeft, Settled, Classifications, ByRules
<1> QED BY <1>1, <1>2 DEF KeysAreEarned

LEMMA ResultStays ==
    ASSUME ResultIsOfTheRow, run' = run, scope' = scope, review' = review
    PROVE  ResultIsOfTheRow'
<1>1. Classifications(run.row, run.titles, review.of, run.before.release)' =
      Classifications(run.row, run.titles, review.of, run.before.release)
  BY DEF Classifications, ByRules
<1> QED BY <1>1 DEF ResultIsOfTheRow, Timeless

\* A step that changes nothing of the role, its run and its key.
RoleIsLeft == UNCHANGED <<postings, aliases, matched, scope, review, noopKey, run, reviewLost>>

LEMMA LeavesTheRole ==
    ASSUME ScopeInv, RoleIsLeft, release' \in 0..MaxReleases,
           reviewing' \in [open : BOOLEAN, at : Nat, of : SUBSET Titles], reviewing'.of \subseteq aliases
    PROVE  ScopeInv'
<1> USE DEF RoleIsLeft
<1>1. Inputs' = Inputs
  BY DEF Inputs
<1>2. ScopeTypeOK'
  BY DEF ScopeInv, ScopeTypeOK
<1>3. TitlesAreKnown'
  BY DEF ScopeInv, TitlesAreKnown
<1>4. SinceItBegan' /\ NothingIsDropped' /\ QueuesAreWorked'
  BY DEF ScopeInv, SinceItBegan, NothingIsDropped, QueuesAreWorked, Began, Timeless
<1>5. RowWasRead' /\ ResultIsOfTheRow'
  <2> USE DEF ScopeInv
  <2>1. RowWasRead'
    BY DEF RowWasRead, Began
  <2>2. ResultIsOfTheRow'
    BY ResultStays DEF ScopeInv
  <2> QED BY <2>1, <2>2
<1>6. KeysAreEarned' /\ DecisionStands'
  <2>1. Settled(scope, aliases, review.of, run.before.release)' = Settled(scope, aliases, review.of, run.before.release)
    BY DEF Settled, Classifications, ByRules
  <2>2. run'.at = "after" /\ ~run'.failed /\ Inputs' = Began' =>
            Settled(scope, aliases, review.of, run.before.release)'
    BY <1>1, <2>1 DEF ScopeInv, KeysAreEarned, Began
  <2> QED BY <2>2, KeysStay DEF ScopeInv, DecisionStands
<1> QED BY <1>2, <1>3, <1>4, <1>5, <1>6 DEF ScopeInv

LEMMA ObserveKeeps ==
    ASSUME ScopeInv, NEW t \in Titles, Observe(t)
    PROVE  ScopeInv'
<1> USE DEF Observe
<1>1. ScopeTypeOK'
  BY DEF ScopeInv, ScopeTypeOK
<1>2. TitlesAreKnown'
  BY DEF ScopeInv, TitlesAreKnown
<1>3. SinceItBegan' /\ NothingIsDropped' /\ QueuesAreWorked'
  BY DEF ScopeInv, SinceItBegan, NothingIsDropped, QueuesAreWorked, Began, Timeless
<1>4. RowWasRead' /\ ResultIsOfTheRow'
  <2> USE DEF ScopeInv
  <2>1. RowWasRead'
    BY DEF RowWasRead, Began
  <2>2. ResultIsOfTheRow'
    BY ResultStays DEF ScopeInv
  <2> QED BY <2>1, <2>2
<1>5. run.at = "after" => Inputs' # Began
  BY InputsAre DEF ScopeInv, SinceItBegan, Inputs
<1>6. KeysAreEarned' /\ DecisionStands'
  <2>1. run'.at = "after" => Inputs' # Began'
    BY <1>5 DEF Began
  <2> QED BY <2>1, KeysStay DEF ScopeInv, DecisionStands
<1> QED BY <1>1, <1>2, <1>3, <1>4, <1>6 DEF ScopeInv

\* The review is the newest, and the row's time moves on: nothing a run read is taken for it.
LEMMA ReviewKeeps ==
    ASSUME ScopeInv, NEW verdict \in Decided, RecordReview(verdict), review' # review
    PROVE  ScopeInv'
<1>1. /\ scope' = [status |-> verdict, method |-> "human", of |-> reviewing.of, by |-> release, at |-> scope.at + 1]
      /\ review' = [status |-> verdict, of |-> reviewing.of, n |-> review.n + 1]
      /\ reviewing' = NoItem
      /\ UNCHANGED <<postings, aliases, matched, release, noopKey, run>>
  BY DEF RecordReview
<1>2. /\ scope' \in Scopes /\ review' \in Reviews
      /\ scope.at \in Nat /\ scope'.at = scope.at + 1 /\ review.n \in Nat /\ review'.n = review.n + 1
  BY <1>1 DEF ScopeInv, ScopeTypeOK, Scopes, Reviews, Decided, Verdicts
<1>3. ScopeTypeOK'
  BY <1>1, <1>2 DEF ScopeInv, ScopeTypeOK, NoItem
<1>4. TitlesAreKnown'
  BY <1>1 DEF ScopeInv, TitlesAreKnown, NoItem
<1>5. run.at # "idle" => Began[5].n \in Nat /\ Began[5].n <= review.n /\ Began[5] # review'
  BY <1>2 DEF ScopeInv, SinceItBegan, Readings, Reviews
<1>6. SinceItBegan' /\ NothingIsDropped' /\ QueuesAreWorked'
  BY <1>1, <1>2, <1>5 DEF ScopeInv, SinceItBegan, NothingIsDropped, QueuesAreWorked, Began
<1>7. RowWasRead' /\ ResultIsOfTheRow'
  <2>1. run.at \in {"read", "save"} => run.row.at \in Nat /\ run.row.at <= scope.at /\ run.row # scope'
    BY <1>2 DEF ScopeInv, RowWasRead, ScopeTypeOK, Runs, Scopes
  <2>2. RowWasRead'
    BY <1>1, <1>2, <1>5, <2>1 DEF ScopeInv, RowWasRead, Began
  <2>3. ResultIsOfTheRow'
    BY <1>1, <2>1 DEF ScopeInv, ResultIsOfTheRow, Timeless
  <2> QED BY <2>2, <2>3
<1>8. KeysAreEarned'
  <2>1. run.at = "after" => Inputs' # Began
    BY <1>5 DEF Inputs
  <2>2. run'.before = run.before /\ Began' = Began
    BY <1>1 DEF Began
  <2> QED BY <1>1, <2>1, <2>2, KeysStay DEF ScopeInv
<1>9. DecisionStands'
  BY <1>1 DEF DecisionStands
<1> QED BY <1>3, <1>4, <1>6, <1>7, <1>8, <1>9 DEF ScopeInv

-----------------------------------------------------------------------------
(* A run. *)

\* A step of the run that leaves the role and the key alone keeps the invariant, if it keeps what is
\* said of the run.
RunMoves == Unread /\ RoleStays /\ UNCHANGED noopKey

LEMMA RunIsAllThatMoved ==
    ASSUME ScopeInv, RunMoves,
           run' \in Runs, run'.queue \subseteq postings, run'.left \subseteq postings,
           run'.at # "matches",
           (SinceItBegan /\ NothingIsDropped /\ QueuesAreWorked /\ RowWasRead /\ ResultIsOfTheRow)',
           run'.at = "after" /\ ~run'.failed => run' = run,
           run'.at = "persist" /\ run'.keep => NothingIsLeft(run'.before)
    PROVE  ScopeInv'
<1> USE DEF RunMoves, Unread, RoleStays
<1>1. ScopeTypeOK'
  BY DEF ScopeInv, ScopeTypeOK
<1>2. TitlesAreKnown'
  BY DEF ScopeInv, TitlesAreKnown
<1>3. Inputs' = Inputs
  BY DEF Inputs
<1>4. KeysAreEarned'
  <2>1. run'.at = "after" /\ ~run'.failed /\ Inputs' = Began' =>
            Settled(scope, aliases, review.of, run'.before.release)
    BY <1>3 DEF ScopeInv, KeysAreEarned, Began
  <2> QED BY <2>1 DEF ScopeInv, KeysAreEarned, NothingIsLeft, Settled, Classifications, ByRules
<1>5. DecisionStands'
  BY DEF ScopeInv, DecisionStands
<1> QED BY <1>1, <1>2, <1>4, <1>5 DEF ScopeInv

LEMMA RunFields ==
    ASSUME ScopeInv
    PROVE  /\ run \in Runs
           /\ run.at \in RunStages /\ run.before \in Keys /\ run.queue \in SUBSET Titles
           /\ run.left \in SUBSET Titles /\ run.failed \in BOOLEAN /\ run.row \in Scopes
           /\ run.titles \in SUBSET Titles /\ run.result \in Scopes /\ run.keep \in BOOLEAN
           /\ run.queue \subseteq postings /\ run.left \subseteq postings
           /\ run.before.release \in 0..MaxReleases
BY DEF ScopeInv, ScopeTypeOK, TitlesAreKnown, Runs, Keys

LEMMA StartKeeps ==
    ASSUME ScopeInv, NEW force \in BOOLEAN, StartRun(force)
    PROVE  ScopeInv'
<1>1. RunMoves
  BY DEF StartRun, RunMoves
<1>2. CurrentKey \in Keys /\ CurrentKey.inputs = Inputs
  BY InputsAre DEF ScopeInv, ScopeTypeOK, CurrentKey, Keys
<1>3. /\ run' \in Runs /\ run'.at = "open" /\ run'.before = CurrentKey
      /\ run'.queue = {} /\ run'.left = {}
  BY <1>2, NothingYet DEF StartRun, NoRun, Runs, RunStages
<1>4. SinceItBegan'
  <2>1. review.n \in Nat
    BY DEF ScopeInv, ScopeTypeOK, Reviews
  <2>2. Began' = Inputs
    BY <1>2, <1>3 DEF Began
  <2> QED BY <1>1, <2>1, <2>2, InputsAre
         DEF ScopeInv, SinceItBegan, RunMoves, Unread, RoleStays, Timeless
<1>5. (NothingIsDropped /\ QueuesAreWorked /\ RowWasRead /\ ResultIsOfTheRow)'
  BY <1>3 DEF NothingIsDropped, QueuesAreWorked, RowWasRead, ResultIsOfTheRow
<1> QED BY <1>1, <1>3, <1>4, <1>5, RunIsAllThatMoved

LEMMA OpenKeeps ==
    ASSUME ScopeInv, OpenSession
    PROVE  ScopeInv'
<1>1. RunMoves /\ run.at = "open"
  BY DEF OpenSession, RunMoves
<1>2. /\ run' \in Runs /\ run'.at = "aliases" /\ run'.before = run.before
      /\ run'.queue = postings \ matched /\ run'.left = run.left
  BY RunFields DEF OpenSession, Runs, RunStages, ScopeInv, ScopeTypeOK
<1>3. (SinceItBegan /\ NothingIsDropped)'
  BY <1>1, <1>2 DEF ScopeInv, SinceItBegan, NothingIsDropped, Began, BeforeSave, RunMoves, Unread, RoleStays, Timeless
<1>4. (QueuesAreWorked /\ RowWasRead /\ ResultIsOfTheRow)'
  BY <1>1, <1>2 DEF ScopeInv, QueuesAreWorked, RowWasRead, ResultIsOfTheRow
<1> QED BY <1>1, <1>2, <1>3, <1>4, RunFields, RunIsAllThatMoved

LEMMA BulkRefusedKeeps ==
    ASSUME ScopeInv, BulkRefused
    PROVE  ScopeInv'
<1>1. RunMoves /\ run.at \in {"aliases", "matches"}
  BY DEF BulkRefused, RunMoves
<1>2. /\ run' \in Runs /\ run'.at = "replay" /\ run'.before = run.before /\ run'.failed = run.failed
      /\ run'.queue = {} /\ run'.left = run.queue
  BY RunFields DEF BulkRefused, Runs, RunStages
<1>3. (SinceItBegan /\ NothingIsDropped)'
  BY <1>1, <1>2 DEF ScopeInv, SinceItBegan, NothingIsDropped, QueuesAreWorked, Began, BeforeSave,
                    RunMoves, Unread, RoleStays, Timeless
<1>4. (QueuesAreWorked /\ RowWasRead /\ ResultIsOfTheRow)'
  BY <1>1, <1>2 DEF ScopeInv, QueuesAreWorked, RowWasRead, ResultIsOfTheRow
<1> QED BY <1>1, <1>2, <1>3, <1>4, RunFields, RunIsAllThatMoved

LEMMA EndReplayKeeps ==
    ASSUME ScopeInv, EndReplay
    PROVE  ScopeInv'
<1>1. RunMoves /\ run.at = "replay" /\ run.left = {}
  BY DEF EndReplay, RunMoves
<1>2. /\ run' \in Runs /\ run'.at = "classify" /\ run'.before = run.before /\ run'.failed = run.failed
      /\ run'.queue = run.queue /\ run'.left = run.left
  BY RunFields DEF EndReplay, Runs, RunStages
<1>3. (SinceItBegan /\ NothingIsDropped)'
  BY <1>1, <1>2 DEF ScopeInv, SinceItBegan, NothingIsDropped, QueuesAreWorked, Began, BeforeSave,
                    RunMoves, Unread, RoleStays, Timeless
<1>4. (QueuesAreWorked /\ RowWasRead /\ ResultIsOfTheRow)'
  BY <1>1, <1>2 DEF ScopeInv, QueuesAreWorked, RowWasRead, ResultIsOfTheRow
<1> QED BY <1>1, <1>2, <1>3, <1>4, RunFields, RunIsAllThatMoved

LEMMA ReadRoleKeeps ==
    ASSUME ScopeInv, ReadRole
    PROVE  ScopeInv'
<1>1. RunMoves /\ run.at = "classify"
  BY DEF ReadRole, RunMoves
<1>2. scope \in Scopes /\ scope.at \in Nat /\ aliases \in SUBSET Titles
  BY DEF ScopeInv, ScopeTypeOK, Scopes
<1>3. /\ run' \in Runs /\ run'.at = "read" /\ run'.before = run.before /\ run'.failed = run.failed
      /\ run'.queue = run.queue /\ run'.left = run.left /\ run'.row = scope /\ run'.titles = aliases
  BY <1>2, RunFields DEF ReadRole, Runs, RunStages
<1>4. (SinceItBegan /\ NothingIsDropped)'
  BY <1>1, <1>3 DEF ScopeInv, SinceItBegan, NothingIsDropped, QueuesAreWorked, Began, BeforeSave,
                    RunMoves, Unread, RoleStays, Timeless
<1>5. (QueuesAreWorked /\ RowWasRead /\ ResultIsOfTheRow)'
  BY <1>1, <1>2, <1>3 DEF ScopeInv, QueuesAreWorked, RowWasRead, ResultIsOfTheRow, RunMoves, RoleStays
<1> QED BY <1>1, <1>3, <1>4, <1>5, RunFields, RunIsAllThatMoved

LEMMA ClassifyKeeps ==
    ASSUME ScopeInv, ClassifyRole
    PROVE  ScopeInv'
<1>1. RunMoves /\ run.at = "read"
  BY DEF ClassifyRole, RunMoves
<1>2. PICK c \in Classifications(run.row, run.titles, review.of, run.before.release) :
           run' = [run EXCEPT !.at = "save", !.result = Timeless(c)]
  BY DEF ClassifyRole, Timeless
<1>3. c \in Scopes /\ (c.method = "human" => c = run.row)
  BY ClassificationsAre, RunFields
<1>4. Timeless(c) \in Scopes /\ Timeless(c).at = 0 /\ Timeless(c).method = c.method
  BY <1>3, TimelessIs
<1> HIDE DEF Timeless
<1>5. /\ run' \in Runs /\ run'.at = "save" /\ run'.before = run.before /\ run'.failed = run.failed
      /\ run'.queue = run.queue /\ run'.left = run.left /\ run'.row = run.row /\ run'.titles = run.titles
      /\ run'.result = Timeless(c)
  BY <1>2, <1>4, RunFields DEF Runs, RunStages
<1>6. SinceItBegan'
  BY <1>1, <1>5 DEF ScopeInv, SinceItBegan, Began, BeforeSave, RunMoves, Unread, RoleStays, Timeless
<1>7. (NothingIsDropped /\ QueuesAreWorked)'
  BY <1>1, <1>5 DEF ScopeInv, NothingIsDropped, QueuesAreWorked, Began, BeforeSave, RunMoves, RoleStays
<1>8. RowWasRead'
  BY <1>1, <1>5 DEF ScopeInv, RowWasRead, Began, RunMoves, Unread, RoleStays
<1>9. ResultIsOfTheRow'
  <2>1. run'.result.method = "human" => run'.result = Timeless(run'.row)
    BY <1>3, <1>4, <1>5
  <2>2. review' = review
    BY <1>1 DEF RunMoves, Unread
  <2>3. c \in Classifications(run'.row, run'.titles, review'.of, run'.before.release)
    BY <1>5, <2>2
  <2> QED BY <1>4, <1>5, <2>1, <2>3 DEF ResultIsOfTheRow, Timeless, Classifications, ByRules
<1> QED BY <1>1, <1>5, <1>6, <1>7, <1>8, <1>9, RunFields, RunIsAllThatMoved

\* A failure is counted, and no key comes of it.
LEMMA ScopeFailsKeeps ==
    ASSUME ScopeInv, ScopeFails
    PROVE  ScopeInv'
<1>1. RunMoves /\ run.at \in {"classify", "read", "save"}
  BY DEF ScopeFails, RunMoves
<1>2. /\ run' \in Runs /\ run'.at = "after" /\ run'.before = run.before /\ run'.failed
      /\ run'.queue = run.queue /\ run'.left = run.left
  BY RunFields, NothingYet DEF ScopeFails, Runs, RunStages
<1>3. (SinceItBegan /\ NothingIsDropped /\ QueuesAreWorked /\ RowWasRead /\ ResultIsOfTheRow)'
  BY <1>1, <1>2 DEF ScopeInv, SinceItBegan, NothingIsDropped, QueuesAreWorked, RowWasRead, ResultIsOfTheRow,
                    Began, BeforeSave, RunMoves, Unread, RoleStays, Timeless
<1> QED BY <1>1, <1>2, <1>3, RunFields, RunIsAllThatMoved

\* A key is kept where the inputs are what they were, every posting has a match and the role is settled.
LEMMA FingerprintKeeps ==
    ASSUME ScopeInv, TakeFingerprint
    PROVE  ScopeInv'
<1>1. RunMoves /\ run.at = "after"
  BY DEF TakeFingerprint, RunMoves
<1>2. /\ run' \in Runs /\ run'.at = "persist" /\ run'.before = run.before
      /\ run'.queue = run.queue /\ run'.left = run.left
      /\ run'.keep = (~run.failed /\ Inputs = Began)
  BY RunFields DEF TakeFingerprint, Runs, RunStages, Began
<1>3. (SinceItBegan /\ NothingIsDropped /\ QueuesAreWorked /\ RowWasRead /\ ResultIsOfTheRow)'
  BY <1>1, <1>2 DEF ScopeInv, SinceItBegan, NothingIsDropped, QueuesAreWorked, RowWasRead, ResultIsOfTheRow,
                    Began, BeforeSave, RunMoves, Unread, RoleStays, Timeless
<1>4. ASSUME ~run.failed, Inputs = Began PROVE NothingIsLeft(run.before)
  <2>1. postings = matched /\ matched \subseteq aliases
    BY <1>1, <1>4, InputsAre DEF ScopeInv, NothingIsDropped, QueuesAreWorked, TitlesAreKnown
  <2>2. Settled(scope, aliases, review.of, run.before.release)
    BY <1>1, <1>4 DEF ScopeInv, KeysAreEarned
  <2>3. Settled(Timeless(scope), aliases, review.of, run.before.release)
    <3>1. scope \in Scopes
      BY DEF ScopeInv, ScopeTypeOK
    <3> QED BY <2>2, <3>1, SettledAlike, TimelessIs
  <2> QED BY <1>4, <2>1, <2>3, InputsAre DEF NothingIsLeft, Began
<1> QED BY <1>1, <1>2, <1>3, <1>4, RunFields, RunIsAllThatMoved

LEMMA LearnsNothingKeeps ==
    ASSUME ScopeInv, LearnsNothing
    PROVE  ScopeInv'
<1>1. RunMoves /\ run.at \in {"open", "after"}
  BY DEF LearnsNothing, RunMoves
<1>2. /\ run' \in Runs /\ run'.at = "persist" /\ run'.before = run.before /\ ~run'.keep
      /\ run'.queue = run.queue /\ run'.left = run.left
  BY RunFields DEF LearnsNothing, Runs, RunStages
<1>3. (SinceItBegan /\ NothingIsDropped /\ QueuesAreWorked /\ RowWasRead /\ ResultIsOfTheRow)'
  BY <1>1, <1>2 DEF ScopeInv, SinceItBegan, NothingIsDropped, QueuesAreWorked, RowWasRead, ResultIsOfTheRow,
                    Began, BeforeSave, RunMoves, Unread, RoleStays, Timeless
<1> QED BY <1>1, <1>2, <1>3, RunFields, RunIsAllThatMoved

LEMMA RunEndsKeeps ==
    ASSUME ScopeInv, RunEnds
    PROVE  ScopeInv'
<1>1. RunMoves /\ run' = NoRun
  BY DEF RunEnds, RunMoves
<1>2. run' \in Runs /\ run'.at = "idle" /\ run'.queue = {} /\ run'.left = {}
  BY <1>1, NothingYet DEF NoRun
<1>3. (SinceItBegan /\ NothingIsDropped /\ QueuesAreWorked /\ RowWasRead /\ ResultIsOfTheRow)'
  BY <1>2 DEF SinceItBegan, NothingIsDropped, QueuesAreWorked, RowWasRead, ResultIsOfTheRow, BeforeSave
<1> QED BY <1>1, <1>2, <1>3, RunIsAllThatMoved

\* The aliases of the postings found, and then their matches, or both of one posting.
LEMMA RoleGrows ==
    ASSUME ScopeInv, Unread, UNCHANGED <<scope, noopKey, reviewLost>>,
           aliases \subseteq aliases', aliases' \in SUBSET Titles,
           matched \subseteq matched', matched' \subseteq aliases', matched' \subseteq postings,
           run' \in Runs, run'.before = run.before,
           run'.queue \subseteq postings, run'.left \subseteq postings,
           run'.at = "matches" => run'.queue \subseteq aliases',
           run.at \in BeforeSave, run'.at \in {"matches", "classify", "replay"},
           (NothingIsDropped /\ QueuesAreWorked)'
    PROVE  ScopeInv'
<1> USE DEF Unread
<1>1. ScopeTypeOK'
  BY DEF ScopeInv, ScopeTypeOK
<1>2. TitlesAreKnown'
  BY DEF ScopeInv, TitlesAreKnown
<1>3. SinceItBegan'
  BY DEF ScopeInv, SinceItBegan, Began, BeforeSave, Timeless
<1>4. (RowWasRead /\ ResultIsOfTheRow)'
  BY DEF RowWasRead, ResultIsOfTheRow
<1>5. KeysAreEarned'
  BY DEF ScopeInv, KeysAreEarned, NothingIsLeft, Settled, Classifications, ByRules
<1>6. DecisionStands'
  BY DEF ScopeInv, DecisionStands, TitlesAreKnown
<1> QED BY <1>1, <1>2, <1>3, <1>4, <1>5, <1>6 DEF ScopeInv

LEMMA AliasesKeep ==
    ASSUME ScopeInv, WriteAliases
    PROVE  ScopeInv'
<1>1. /\ run.at = "aliases" /\ Unread /\ UNCHANGED <<matched, scope, noopKey, reviewLost>>
      /\ aliases' = aliases \cup run.queue
  BY DEF WriteAliases
<1>2. /\ run' \in Runs /\ run'.at = "matches" /\ run'.before = run.before /\ run'.failed = run.failed
      /\ run'.queue = run.queue /\ run'.left = run.left
  BY RunFields DEF WriteAliases, Runs, RunStages
<1>3. (NothingIsDropped /\ QueuesAreWorked)'
  BY <1>1, <1>2 DEF ScopeInv, NothingIsDropped, QueuesAreWorked, Began, BeforeSave
<1>4. matched \subseteq aliases /\ matched \subseteq postings /\ aliases \in SUBSET Titles
  BY DEF ScopeInv, TitlesAreKnown, ScopeTypeOK
<1> QED BY <1>1, <1>2, <1>3, <1>4, RunFields, RoleGrows DEF BeforeSave

LEMMA MatchesKeep ==
    ASSUME ScopeInv, WriteMatches
    PROVE  ScopeInv'
<1>1. /\ run.at = "matches" /\ Unread /\ UNCHANGED <<aliases, scope, noopKey, reviewLost>>
      /\ matched' = matched \cup run.queue
  BY DEF WriteMatches
<1>2. /\ run' \in Runs /\ run'.at = "classify" /\ run'.before = run.before /\ run'.failed = run.failed
      /\ run'.queue = {} /\ run'.left = run.left
  BY RunFields DEF WriteMatches, Runs, RunStages
<1>3. (NothingIsDropped /\ QueuesAreWorked)'
  BY <1>1, <1>2 DEF ScopeInv, NothingIsDropped, QueuesAreWorked, Began, BeforeSave
<1>4. /\ matched \subseteq aliases /\ matched \subseteq postings /\ aliases \in SUBSET Titles
      /\ run.queue \subseteq aliases
  BY <1>1 DEF ScopeInv, TitlesAreKnown, ScopeTypeOK
<1> QED BY <1>1, <1>2, <1>3, <1>4, RunFields, RoleGrows DEF BeforeSave

LEMMA SaveResolutionKeeps ==
    ASSUME ScopeInv, NEW t \in Titles, SaveResolution(t)
    PROVE  ScopeInv'
<1>1. /\ run.at = "replay" /\ t \in run.left /\ Unread /\ UNCHANGED <<scope, noopKey, reviewLost>>
      /\ aliases' = aliases \cup {t} /\ matched' = matched \cup {t}
  BY DEF SaveResolution
<1>2. /\ run' \in Runs /\ run'.at = "replay" /\ run'.before = run.before /\ run'.failed = run.failed
      /\ run'.queue = run.queue /\ run'.left = run.left \ {t}
  BY <1>1, RunFields DEF SaveResolution, Runs, RunStages
<1>3. (NothingIsDropped /\ QueuesAreWorked)'
  BY <1>1, <1>2 DEF ScopeInv, NothingIsDropped, QueuesAreWorked, Began, BeforeSave
<1>4. /\ matched \subseteq aliases /\ matched \subseteq postings /\ aliases \in SUBSET Titles
  BY DEF ScopeInv, TitlesAreKnown, ScopeTypeOK
<1> QED BY <1>1, <1>2, <1>3, <1>4, RunFields, RoleGrows DEF BeforeSave

LEMMA ResolutionFailsKeeps ==
    ASSUME ScopeInv, NEW t \in Titles, ResolutionFails(t)
    PROVE  ScopeInv'
<1>1. /\ run.at = "replay" /\ t \in run.left /\ Unread /\ UNCHANGED <<matched, scope, noopKey, reviewLost>>
      /\ aliases' \in {aliases, aliases \cup {t}}
  BY DEF ResolutionFails
<1>2. /\ run' \in Runs /\ run'.at = "replay" /\ run'.before = run.before /\ run'.failed
      /\ run'.queue = run.queue /\ run'.left = run.left \ {t}
  BY <1>1, RunFields DEF ResolutionFails, Runs, RunStages
<1>3. (NothingIsDropped /\ QueuesAreWorked)'
  BY <1>1, <1>2 DEF ScopeInv, NothingIsDropped, QueuesAreWorked
<1>4. /\ matched \subseteq aliases /\ matched \subseteq postings /\ aliases \in SUBSET Titles
  BY DEF ScopeInv, TitlesAreKnown, ScopeTypeOK
<1> QED BY <1>1, <1>2, <1>3, <1>4, RunFields, RoleGrows DEF BeforeSave

\* The key of a run that is over: what it earned stays true, since nothing in it is about the present.
LEMMA PersistKeeps ==
    ASSUME ScopeInv, PersistKeys
    PROVE  ScopeInv'
<1>1. /\ run.at = "persist" /\ Unread /\ RoleStays /\ run' = NoRun
      /\ noopKey' = IF run.keep THEN run.before ELSE NoKey
  BY DEF PersistKeys
<1> USE DEF Unread, RoleStays
<1>2. run' \in Runs /\ run'.at = "idle" /\ run'.queue = {} /\ run'.left = {}
  BY <1>1, NothingYet DEF NoRun
<1>3. noopKey' \in Keys
  BY <1>1, RunFields, NothingYet
<1>4. (ScopeTypeOK /\ TitlesAreKnown)'
  BY <1>1, <1>2, <1>3 DEF ScopeInv, ScopeTypeOK, TitlesAreKnown
<1>5. (SinceItBegan /\ NothingIsDropped /\ QueuesAreWorked /\ RowWasRead /\ ResultIsOfTheRow)'
  BY <1>2 DEF SinceItBegan, NothingIsDropped, QueuesAreWorked, RowWasRead, ResultIsOfTheRow, BeforeSave
<1>6. run.keep => run.before.inputs # <<>> /\ NothingIsLeft(run.before)
  <2>1. run.before.inputs \in Readings
    BY <1>1 DEF ScopeInv, SinceItBegan, Began
  <2>2. run.before.inputs # <<>>
    <3>1. \A p, a, m, s, v : <<p, a, m, s, v>> # <<>>
      OBVIOUS
    <3>2. \E p, a, m, s, v : run.before.inputs = <<p, a, m, s, v>>
      BY <2>1 DEF Readings
    <3> QED BY <3>1, <3>2
  <2> QED BY <1>1, <2>2 DEF ScopeInv, KeysAreEarned
<1>7. noopKey' # NoKey => noopKey'.inputs # <<>> /\ NothingIsLeft(noopKey')
  BY <1>1, <1>6 DEF ScopeInv, KeysAreEarned
<1>8. KeysAreEarned'
  BY <1>2, <1>7 DEF KeysAreEarned, NothingIsLeft, Settled, Classifications, ByRules
<1>9. DecisionStands'
  BY <1>1 DEF ScopeInv, DecisionStands
<1> QED BY <1>4, <1>5, <1>8, <1>9 DEF ScopeInv

-----------------------------------------------------------------------------
(* What a run saves of the scope. *)

LEMMA SaveScopeKeeps ==
    ASSUME ScopeInv, SaveScope
    PROVE  ScopeInv'
<1>1. /\ run.at = "save" /\ Unread /\ UNCHANGED <<aliases, matched, noopKey>>
      /\ run' = [run EXCEPT !.at = "after", !.row = Unclassified, !.result = Unclassified, !.titles = {}]
  BY DEF SaveScope
<1> DEFINE same == run.result = Timeless(run.row)
<1>2. /\ same => UNCHANGED <<scope, reviewLost>>
      /\ ~same => /\ scope' = [run.result EXCEPT !.at = scope.at + 1]
                  /\ reviewLost' = (reviewLost \/ (scope.method = "human" /\ scope # run.row))
  BY DEF SaveScope, Timeless
<1> USE DEF Unread
<1>3. /\ run' \in Runs /\ run'.at = "after" /\ run'.before = run.before /\ run'.failed = run.failed
      /\ run'.queue = run.queue /\ run'.left = run.left
  BY <1>1, RunFields, NothingYet DEF Runs, RunStages
<1>4. scope \in Scopes /\ scope.at \in Nat /\ scope.at + 1 \in Nat /\ run.result \in Scopes /\ run.row \in Scopes
  BY RunFields DEF ScopeInv, ScopeTypeOK, Scopes
<1>5. run.result.at = 0 /\ Timeless(run.result) = run.result
  BY <1>1, <1>4, TimelessIs DEF ScopeInv, ResultIsOfTheRow
<1>6. ~same => /\ scope' \in Scopes /\ Timeless(scope') = run.result
               /\ scope'.method = run.result.method
  <2>1. ASSUME ~same PROVE scope' \in Scopes /\ Timeless(scope') = Timeless(run.result)
    BY <1>2, <1>4, <2>1, SameAtAnyTime
  <2>2. ASSUME ~same PROVE scope'.method = run.result.method
    BY <1>2, <1>4, <2>2 DEF Scopes
  <2> QED BY <1>5, <2>1, <2>2
<1>7. ScopeTypeOK'
  BY <1>1, <1>2, <1>3, <1>4, <1>6 DEF ScopeInv, ScopeTypeOK
<1>8. TitlesAreKnown'
  BY <1>1, <1>3 DEF ScopeInv, TitlesAreKnown
<1>9. (SinceItBegan /\ NothingIsDropped /\ QueuesAreWorked)'
  BY <1>1, <1>3 DEF ScopeInv, SinceItBegan, NothingIsDropped, QueuesAreWorked, Began, BeforeSave
<1>10. (RowWasRead /\ ResultIsOfTheRow)'
  BY <1>3 DEF RowWasRead, ResultIsOfTheRow
<1>11. KeysAreEarned'
  <2>1. ASSUME Inputs' = Began PROVE Settled(scope', aliases, review.of, run.before.release)
    <3>1. review = Began[5] /\ Timeless(scope') = Began[4]
      BY <1>1, <2>1 DEF Inputs, Timeless
    <3>2. run.row = scope /\ Began[4] = Timeless(scope) /\ run.titles = aliases
      BY <1>1, <3>1 DEF ScopeInv, RowWasRead, SinceItBegan, BeforeSave
    <3>3. same
      BY <1>6, <3>1, <3>2
    <3>4. PICK c \in Classifications(scope, aliases, review.of, run.before.release) : run.result = Timeless(c)
      BY <1>1, <3>2 DEF ScopeInv, ResultIsOfTheRow
    <3>5. c \in Scopes
      BY <1>4, RunFields, ClassificationsAre DEF ScopeInv, ScopeTypeOK
    <3>6. c.status = scope.status /\ c.of = scope.of
      <4>1. Timeless(c) = Timeless(scope)
        BY <3>2, <3>3, <3>4
      <4> QED BY <1>4, <3>5, <4>1, TimelessIs
    <3>7. scope' = scope
      BY <1>2, <3>3
    <3> QED BY <3>4, <3>6, <3>7 DEF Settled
  <2>2. Began' = Began
    BY <1>3 DEF Began
  <2>3. run'.at = "after" /\ ~run'.failed /\ Inputs' = Began' =>
            Settled(scope', aliases', review'.of, run'.before.release)
    BY <1>1, <1>3, <2>1, <2>2
  <2> QED BY <1>1, <1>3, <2>3, KeysStay DEF ScopeInv
<1>12. DecisionStands'
  <2>1. CASE same
    BY <1>1, <1>2, <2>1 DEF ScopeInv, DecisionStands
  <2>2. CASE ~same
    <3>1. scope'.method # "human"
      BY <1>1, <1>6, <2>2 DEF ScopeInv, ResultIsOfTheRow
    <3>2. ASSUME review.n > 0, review.of = aliases, ~reviewLost'
          PROVE  FALSE
      <4>1. scope.method = "human" /\ scope = run.row
        BY <1>2, <2>2, <3>2 DEF ScopeInv, DecisionStands
      <4>2. run.titles = aliases
        BY <1>1 DEF ScopeInv, RowWasRead
      <4>3. PICK c \in Classifications(run.row, run.titles, review.of, run.before.release) :
                run.result = Timeless(c)
        BY <1>1, <4>1 DEF ScopeInv, ResultIsOfTheRow
      <4>4. c = run.row
        BY <1>4, <3>2, <4>1, <4>2, <4>3, RunFields, ClassificationsAre
      <4> QED BY <2>2, <4>3, <4>4
    <3> QED BY <1>1, <3>1, <3>2 DEF DecisionStands
  <2> QED BY <2>1, <2>2
<1> QED BY <1>7, <1>8, <1>9, <1>10, <1>11, <1>12 DEF ScopeInv

-----------------------------------------------------------------------------
LEMMA ScopeInit == RoleScopeInit => ScopeInv
<1> SUFFICES ASSUME RoleScopeInit PROVE ScopeInv
  OBVIOUS
<1> USE DEF RoleScopeInit
<1>1. ScopeTypeOK
  BY NothingYet, FirstIsATitle, ReleasesAreCounted DEF ScopeTypeOK, NoItem
<1>2. TitlesAreKnown
  BY FirstIsATitle DEF TitlesAreKnown, NoReview, NoItem, NoRun
<1>3. SinceItBegan /\ NothingIsDropped /\ QueuesAreWorked /\ RowWasRead /\ ResultIsOfTheRow
  BY DEF SinceItBegan, NothingIsDropped, QueuesAreWorked, RowWasRead, ResultIsOfTheRow, NoRun, BeforeSave
<1>4. KeysAreEarned /\ DecisionStands
  BY DEF KeysAreEarned, DecisionStands, NoRun, NoReview, Unclassified
<1> QED BY <1>1, <1>2, <1>3, <1>4 DEF ScopeInv

LEMMA ScopeStep == ScopeInv /\ [RoleScopeNext]_scopeVars => ScopeInv'
<1> SUFFICES ASSUME ScopeInv, [RoleScopeNext]_scopeVars PROVE ScopeInv'
  OBVIOUS
<1>1. /\ release \in 0..MaxReleases /\ reviewing \in [open : BOOLEAN, at : Nat, of : SUBSET Titles]
      /\ reviewing.of \subseteq aliases /\ scope.at \in Nat /\ aliases \in SUBSET Titles
  BY DEF ScopeInv, ScopeTypeOK, TitlesAreKnown, Scopes
<1>2. CASE UNCHANGED scopeVars
  BY <1>1, <1>2, LeavesTheRole DEF scopeVars, RoleIsLeft
<1>3. CASE Deploy
  <2>1. release' \in 0..MaxReleases
    BY <1>1, <1>3, ReleasesAreCounted DEF Deploy
  <2> QED BY <1>1, <1>3, <2>1, LeavesTheRole DEF Deploy, RoleIsLeft
<1>4. CASE ReadItem
  <2>1. /\ reviewing' \in [open : BOOLEAN, at : Nat, of : SUBSET Titles] /\ reviewing'.of = aliases
    BY <1>1, <1>4 DEF ReadItem
  <2> QED BY <1>1, <1>4, <2>1, LeavesTheRole DEF ReadItem, RoleIsLeft
<1>5. ASSUME NEW verdict \in Decided, RecordReview(verdict) PROVE ScopeInv'
  <2>1. CASE review' # review
    BY <1>5, <2>1, ReviewKeeps
  <2>2. CASE review' = review
    <3>1. RoleIsLeft
      <4>1. review.n \in Nat
        BY DEF ScopeInv, ScopeTypeOK, Reviews
      <4>2. review.n + 1 # review.n
        BY <4>1
      <4> QED BY <1>5, <2>2, <4>2 DEF RecordReview, RoleIsLeft
    <3>2. reviewing' \in [open : BOOLEAN, at : Nat, of : SUBSET Titles] /\ reviewing'.of = {}
          /\ release' = release
      BY <1>5 DEF RecordReview, NoItem
    <3> QED BY <1>1, <3>1, <3>2, LeavesTheRole
  <2> QED BY <2>1, <2>2
<1>6. ASSUME NEW t \in Titles, Observe(t) \/ SaveResolution(t) \/ ResolutionFails(t) PROVE ScopeInv'
  BY <1>6, ObserveKeeps, SaveResolutionKeeps, ResolutionFailsKeeps
<1>7. ASSUME NEW force \in BOOLEAN, StartRun(force) PROVE ScopeInv'
  BY <1>7, StartKeeps
<1>8. CASE OpenSession \/ WriteAliases \/ WriteMatches \/ BulkRefused \/ EndReplay
  BY <1>8, OpenKeeps, AliasesKeep, MatchesKeep, BulkRefusedKeeps, EndReplayKeeps
<1>9. CASE ReadRole \/ ClassifyRole \/ SaveScope \/ ScopeFails
  BY <1>9, ReadRoleKeeps, ClassifyKeeps, SaveScopeKeeps, ScopeFailsKeeps
<1>10. CASE TakeFingerprint \/ LearnsNothing \/ PersistKeys \/ RunEnds
  BY <1>10, FingerprintKeeps, LearnsNothingKeeps, PersistKeeps, RunEndsKeeps
<1> QED BY <1>2, <1>3, <1>4, <1>5, <1>6, <1>7, <1>8, <1>9, <1>10 DEF RoleScopeNext

\* A stored key that is met again is one whose company has nothing left to do.
LEMMA ScopeInvSuffices == ScopeInv => ScopeIsKept
<1> SUFFICES ASSUME ScopeInv, noopKey = CurrentKey PROVE SkippedMeansDone
  BY DEF ScopeInv, ScopeIsKept, SkippedMeansDone
<1>1. CurrentKey.inputs = Inputs /\ CurrentKey.release = release
  BY DEF CurrentKey
<1>2. noopKey # NoKey
  BY <1>1, InputsAre DEF NoKey
<1>3. NothingIsLeft(CurrentKey)
  BY <1>2 DEF ScopeInv, KeysAreEarned
<1>4. postings = matched /\ matched \subseteq aliases /\ Settled(Timeless(scope), aliases, review.of, release)
  BY <1>1, <1>3, InputsAre DEF NothingIsLeft
<1>5. Settled(scope, aliases, review.of, release)
  <2>1. scope \in Scopes
    BY DEF ScopeInv, ScopeTypeOK
  <2> QED BY <1>4, <2>1, SettledAlike, TimelessIs
<1> QED BY <1>4, <1>5 DEF SkippedMeansDone, Settled

\* The role's row, the stored key and the run at work are what the code takes them for.
THEOREM ScopeTypeCorrect == RoleScopeSpec => []ScopeTypeOK
<1>1. ScopeInv => ScopeTypeOK
  BY DEF ScopeInv
<1> QED BY <1>1, ScopeInit, ScopeStep, PTL DEF RoleScopeSpec

(* A company the enrichment skips has nothing left to do, and a person's decision on
   the titles a role has stands until a pass that had not read it saves over it
   (enrichment_fingerprints.py, scope.py): for any titles and any rules, however many
   releases, runs, reviews and failures there are. *)
THEOREM ScopeStaysTrue == RoleScopeSpec => []ScopeIsKept
BY ScopeInit, ScopeStep, ScopeInvSuffices, PTL DEF RoleScopeSpec

-----------------------------------------------------------------------------
(* How evidence reaches the forecasts. *)

Places == ForecastRoles \cup {Everyone, Nowhere}
Passes == [kind : {"none", "signals", "regenerate"}, at : {"idle", "store", "changed", "load", "roles"},
           started : Nat, left : SUBSET (ForecastRoles \cup SignalItems), new : SUBSET ForecastRoles,
           role : ForecastRoles \cup {Nowhere}, data : [ForecastRoles -> SUBSET Items], n : Nat, failed : BOOLEAN]
Versions == [inputs : SUBSET Items, n : Nat, stands : SUBSET Items]

ForecastTypeOK ==
    /\ time \in Nat /\ cursor \in Int
    /\ evidence \in [Items -> Places] /\ changedAt \in [ForecastRoles -> Nat]
    /\ inScope \in SUBSET ForecastRoles /\ careersPage \in SUBSET SignalItems
    /\ remembered \in (SUBSET SignalItems) \cup {NoState}
    /\ version \in [ForecastRoles -> Versions]
    /\ builds \in [ForecastRoles -> Nat] /\ refusedAt \in [ForecastRoles -> Nat]
    /\ overtaken \in SUBSET ForecastRoles /\ late \in SUBSET ForecastRoles
    /\ pass \in Passes
    /\ moving \in [item : OpeningItems \cup {Nowhere}, to : ForecastRoles \cup {Nowhere}, at : Nat]
    /\ question \in [at : {"idle", "read", "built"}, role : ForecastRoles \cup {Nowhere},
                     inputs : SUBSET Items, n : Nat]
    /\ forecastSpent \in [faults : Nat, questions : Nat, moves : Nat]

\* What is at work is at a stage of its kind, and the clock is ahead of every cursor.
StagesAreKept ==
    /\ pass.kind = "none" => pass = NoPass
    /\ pass.kind = "signals" => pass.at \in {"store", "load", "roles"}
    /\ pass.kind = "regenerate" => pass.at \in {"changed", "load", "roles"} /\ time = pass.started + 1
                                    /\ cursor < pass.started
    /\ pass.role # Nowhere => pass.at = "roles"
    /\ cursor < time
    /\ moving # NoMove => moving.item \in OpeningItems /\ evidence[moving.item] \in ForecastRoles
    /\ question # NoQuestion => question.role \in ForecastRoles /\ Enough(question.inputs)

\* Forecasts are computed in the order of their numbers, and a refusal comes before what is computed next.
BuildsAreCounted ==
    /\ \A r \in ForecastRoles : version[r].n <= builds[r] /\ refusedAt[r] <= builds[r]
    /\ pass.role # Nowhere => pass.n <= builds[pass.role] /\ refusedAt[pass.role] < pass.n
    /\ question.at = "built" => question.n <= builds[question.role]

\* What a signals pass read of the page is stored, or still to be stored, or is what the page began with.
PageIsStored ==
    pass.kind = "signals" /\ pass.at = "store" =>
        \A r \in ForecastRoles :
            /\ pass.data[r] \subseteq SignalItems
            /\ \A s \in pass.data[r] : s \in baseline \cup pass.left \/ evidence[s] # Nowhere

\* No change of the role is newer than the cursor, or than what the pass at work will make of it.
Unmoved(r, stamp) == r \in inScope /\ changedAt[r] <= stamp /\ r \notin late
Unchanged(r) == Unmoved(r, cursor)
PassCovers(r) == Unmoved(r, IF pass.kind = "regenerate" THEN pass.started ELSE cursor)

OfTheCompany == \E e \in Items : evidence[e] = Everyone
CompanyCounts == OfTheCompany => forecastSpent.faults = 0

\* A role the signals pass has news of and has not computed yet.
Pending(r) ==
    /\ pass.kind = "signals"
    /\ \/ pass.at = "store" /\ r \in pass.new
       \/ pass.at \in {"load", "roles"} /\ r \in pass.left
       \/ r = pass.role

\* A role with enough evidence has a forecast, and one without has none but what an overtaken agent
\* wrote; and the forecast stands for all of the evidence.
Ripe(r) == Enough(Visible(r))
HasForecast(r) == (Ripe(r) => Current(r)) /\ (r \notin overtaken /\ Current(r) => Ripe(r))
Counted(r) == Ripe(r) => version[r].stands = Visible(r)

UnchangedIsCounted(r) ==
    Unchanged(r) => HasForecast(r) /\ (r \notin overtaken /\ CompanyCounts => Counted(r) \/ Pending(r))

\* Evidence that is a role's own is news of that role alone, and makes it changed.
NewsIsStamped(r) == Pending(r) /\ ~OfTheCompany => changedAt[r] > cursor

\* What the pass has loaded of a role it covers is its evidence, and a version that overtook the pass
\* was computed from the same.
LoadedIsVisible(r) ==
    pass.at = "roles" /\ PassCovers(r) =>
        /\ pass.data[r] = Visible(r)
        /\ r = pass.role /\ version[r].n >= pass.n /\ r \notin overtaken =>
               version[r].stands = Visible(r) /\ Ripe(r)

\* A role the regeneration covers had not changed, or is still to be computed, or is counted.
RegenerationCovers(r) ==
    pass.kind = "regenerate" /\ PassCovers(r) /\ changedAt[r] > cursor =>
        /\ pass.at = "load" => r \in pass.left
        /\ pass.at = "roles" => \/ r \in pass.left \/ r = pass.role \/ pass.failed
                                \/ HasForecast(r) /\ (r \notin overtaken => Counted(r))

RoleIsKept(r) == UnchangedIsCounted(r) /\ NewsIsStamped(r) /\ LoadedIsVisible(r) /\ RegenerationCovers(r)

Workings == ForecastTypeOK /\ StagesAreKept /\ BuildsAreCounted /\ PageIsStored /\ SignalsAreKept
ForecastInv == Workings /\ \A r \in ForecastRoles : RoleIsKept(r)

LEMMA NothingAtWork ==
    /\ NoPass \in Passes /\ NoPass.kind = "none" /\ NoPass.at = "idle" /\ NoPass.role = Nowhere
    /\ NoPass.left = {} /\ NoPass.new = {} /\ ~NoPass.failed /\ NoPass.data \in [ForecastRoles -> SUBSET Items]
    /\ NoQuestion.at = "idle" /\ NoMove.item = Nowhere
BY DEF NoPass, Passes, NoQuestion, NoMove

LEMMA PassFields ==
    ASSUME ForecastTypeOK
    PROVE  /\ pass \in Passes /\ pass.kind \in {"none", "signals", "regenerate"} /\ pass.started \in Nat
           /\ pass.left \in SUBSET (ForecastRoles \cup SignalItems) /\ pass.new \in SUBSET ForecastRoles
           /\ pass.role \in ForecastRoles \cup {Nowhere} /\ pass.data \in [ForecastRoles -> SUBSET Items]
           /\ pass.n \in Nat /\ pass.failed \in BOOLEAN
BY DEF ForecastTypeOK, Passes

LEMMA VisibleIs ==
    ASSUME NEW r \in ForecastRoles
    PROVE  Visible(r) \in SUBSET Items
BY DEF Visible

LEMMA StampIs ==
    ASSUME ForecastTypeOK, NEW roles, Stamp(roles)
    PROVE  /\ changedAt' \in [ForecastRoles -> Nat]
           /\ \A r \in ForecastRoles : changedAt'[r] = IF r \in roles THEN time ELSE changedAt[r]
BY DEF ForecastTypeOK, Stamp

LEMMA SpendIs ==
    ASSUME ForecastTypeOK, NEW what \in {"faults", "questions", "moves"}, NEW limit, Spend(what, limit)
    PROVE  /\ forecastSpent' \in [faults : Nat, questions : Nat, moves : Nat]
           /\ forecastSpent'.faults = IF what = "faults" THEN forecastSpent.faults + 1 ELSE forecastSpent.faults
<1>1. forecastSpent' = [forecastSpent EXCEPT ![what] = @ + 1] /\ forecastSpent \in [faults : Nat, questions : Nat, moves : Nat]
  BY DEF Spend, ForecastTypeOK
<1>2. CASE what = "faults"
  BY <1>1, <1>2
<1>3. CASE what = "questions"
  BY <1>1, <1>3
<1>4. CASE what = "moves"
  BY <1>1, <1>4
<1> QED BY <1>2, <1>3, <1>4

LEMMA SavedIs ==
    ASSUME ForecastTypeOK, NEW r \in ForecastRoles, NEW inputs \in SUBSET Items, NEW n \in Nat
    PROVE  /\ Saved(r, inputs, n) \in [ForecastRoles -> Versions]
           /\ \A q \in ForecastRoles \ {r} : Saved(r, inputs, n)[q] = version[q]
           /\ n > version[r].n => Saved(r, inputs, n)[r] = [inputs |-> inputs, n |-> n, stands |-> inputs]
           /\ ~(n > version[r].n) => Saved(r, inputs, n)[r] = version[r]
BY DEF ForecastTypeOK, Saved, Versions

-----------------------------------------------------------------------------
(* Beside the passes. *)

\* A step that leaves the pass and what it is about.
LeavesThePass == UNCHANGED <<time, cursor, pass, remembered, baseline>>

\* Nothing of the role that a forecast or a pass could tell apart.
LeavesRole(r) ==
    /\ Visible(r)' = Visible(r) /\ (Ripe(r)' <=> Ripe(r)) /\ (OfTheCompany' <=> OfTheCompany)
    /\ version'[r] = version[r] /\ refusedAt'[r] = refusedAt[r] /\ changedAt'[r] = changedAt[r]
    /\ r \in inScope' <=> r \in inScope
    /\ r \in overtaken' <=> r \in overtaken
    /\ r \in late => r \in late'
    /\ forecastSpent'.faults >= forecastSpent.faults

LEMMA SameEvidence ==
    ASSUME evidence' = evidence
    PROVE  /\ \A r \in ForecastRoles : Visible(r)' = Visible(r) /\ (Ripe(r)' <=> Ripe(r))
           /\ OfTheCompany' <=> OfTheCompany
BY DEF Visible, Ripe, Enough, OfTheCompany

LEMMA RoleLeft ==
    ASSUME ForecastTypeOK, ForecastTypeOK', NEW r \in ForecastRoles, RoleIsKept(r),
           LeavesThePass, LeavesRole(r)
    PROVE  RoleIsKept(r)'
<1> USE DEF LeavesThePass, LeavesRole
<1>1. /\ Unmoved(r, cursor)' => Unmoved(r, cursor)
      /\ Unmoved(r, pass.started)' => Unmoved(r, pass.started)
      /\ Unchanged(r)' => Unchanged(r)
      /\ PassCovers(r)' => PassCovers(r)
  BY DEF Unmoved, Unchanged, PassCovers
<1>2. HasForecast(r)' <=> HasForecast(r)
  BY DEF HasForecast, Current
<1>3. Counted(r)' <=> Counted(r)
  BY DEF Counted
<1>4. Pending(r)' <=> Pending(r)
  BY DEF Pending
<1>5. CompanyCounts' => CompanyCounts
  BY DEF CompanyCounts, ForecastTypeOK
<1>6. UnchangedIsCounted(r)'
  BY <1>1, <1>2, <1>3, <1>4, <1>5 DEF RoleIsKept, UnchangedIsCounted
<1>7. NewsIsStamped(r)'
  BY <1>4 DEF RoleIsKept, NewsIsStamped
<1>8. LoadedIsVisible(r)'
  BY <1>1 DEF RoleIsKept, LoadedIsVisible
<1>9. RegenerationCovers(r)'
  BY <1>1, <1>2, <1>3 DEF RoleIsKept, RegenerationCovers
<1> QED BY <1>6, <1>7, <1>8, <1>9 DEF RoleIsKept

\* A role that changed, or whose change came late, is nobody's claim until it is computed again.
LEMMA RoleChanged ==
    ASSUME ForecastTypeOK, ForecastTypeOK', StagesAreKept', NEW r \in ForecastRoles,
           NewsIsStamped(r)',
           \/ r \in late'
           \/ changedAt'[r] > IF pass'.kind = "regenerate" THEN pass'.started ELSE cursor'
    PROVE  RoleIsKept(r)'
<1>1. pass'.kind = "regenerate" => cursor' < pass'.started
  BY DEF StagesAreKept
<1>2. changedAt'[r] \in Nat /\ pass'.started \in Nat /\ cursor' \in Int
  BY DEF ForecastTypeOK, Passes
<1>3. ~Unchanged(r)' /\ ~PassCovers(r)'
  BY <1>1, <1>2 DEF Unchanged, PassCovers, Unmoved
<1> QED BY <1>3 DEF RoleIsKept, UnchangedIsCounted, LoadedIsVisible, RegenerationCovers

LEMMA NoMoveOrQuestion ==
    /\ NoMove \in [item : OpeningItems \cup {Nowhere}, to : ForecastRoles \cup {Nowhere}, at : Nat]
    /\ NoQuestion \in [at : {"idle", "read", "built"}, role : ForecastRoles \cup {Nowhere},
                       inputs : SUBSET Items, n : Nat]
BY DEF NoMove, NoQuestion

\* The workings of a step that leaves the passes, what was built and the evidence.
LEMMA WorkingsLeft ==
    ASSUME ForecastInv, LeavesThePass, ForecastTypeOK',
           UNCHANGED <<evidence, moving, version, builds, refusedAt, question>>
    PROVE  Workings'
<1> USE DEF LeavesThePass
<1>1. StagesAreKept' /\ BuildsAreCounted'
  BY DEF ForecastInv, Workings, StagesAreKept, BuildsAreCounted, Enough
<1>2. PageIsStored' /\ SignalsAreKept'
  BY DEF ForecastInv, Workings, PageIsStored, SignalsAreKept
<1> QED BY <1>1, <1>2 DEF Workings

LEMMA StutterKeeps ==
    ASSUME ForecastInv, UNCHANGED forecastVars
    PROVE  ForecastInv'
<1> USE DEF forecastVars, evidenceVars, storedVars
<1>1. ForecastTypeOK' /\ ForecastTypeOK
  BY DEF ForecastInv, Workings, ForecastTypeOK
<1>2. LeavesThePass
  BY DEF LeavesThePass
<1>3. ASSUME NEW r \in ForecastRoles PROVE LeavesRole(r)
  BY <1>1, SameEvidence DEF LeavesRole, ForecastTypeOK
<1> QED BY <1>1, <1>2, <1>3, RoleLeft, WorkingsLeft DEF ForecastInv

LEMMA PageChangesKeeps ==
    ASSUME ForecastInv, NEW s \in SignalItems, PageChanges(s)
    PROVE  ForecastInv'
<1> USE DEF PageChanges, storedVars
<1>1. ForecastTypeOK
  BY DEF ForecastInv, Workings
<1>2. ForecastTypeOK' /\ forecastSpent'.faults = forecastSpent.faults /\ forecastSpent.faults \in Nat
  BY <1>1, SpendIs DEF ForecastTypeOK
<1>3. LeavesThePass
  BY DEF LeavesThePass
<1>4. ASSUME NEW r \in ForecastRoles PROVE LeavesRole(r)
  BY <1>2, SameEvidence DEF LeavesRole
<1>5. Workings'
  BY <1>2, <1>3, WorkingsLeft
<1> QED BY <1>1, <1>2, <1>3, <1>4, <1>5, RoleLeft DEF ForecastInv

\* The role is stamped with the clock, which is ahead of what the pass and the cursor cover.
LEMMA ReclassifyKeeps ==
    ASSUME ForecastInv, NEW q \in ForecastRoles, Reclassify(q)
    PROVE  ForecastInv'
<1> USE DEF Reclassify, storedVars
<1>1. ForecastTypeOK /\ StagesAreKept
  BY DEF ForecastInv, Workings
<1>2. /\ changedAt' \in [ForecastRoles -> Nat]
      /\ \A r \in ForecastRoles : changedAt'[r] = IF r = q THEN time ELSE changedAt[r]
  BY <1>1, StampIs
<1>3. ForecastTypeOK' /\ forecastSpent'.faults = forecastSpent.faults /\ forecastSpent.faults \in Nat
  BY <1>1, <1>2, SpendIs DEF ForecastTypeOK
<1>4. LeavesThePass
  BY DEF LeavesThePass
<1>5. Workings'
  BY <1>3, <1>4, WorkingsLeft
<1>6. ASSUME NEW r \in ForecastRoles, r # q PROVE RoleIsKept(r)'
  <2>1. LeavesRole(r)
    BY <1>2, <1>3, <1>6, SameEvidence DEF LeavesRole
  <2> QED BY <1>1, <1>3, <1>4, <2>1, RoleLeft DEF ForecastInv
<1>7. RoleIsKept(q)'
  <2>1. /\ time \in Nat /\ cursor \in Int /\ cursor < time
        /\ pass.kind = "regenerate" => time = pass.started + 1 /\ pass.started \in Nat
    BY <1>1, PassFields DEF ForecastTypeOK, StagesAreKept
  <2>2. NewsIsStamped(q)'
    BY <1>2, <2>1 DEF NewsIsStamped
  <2>3. changedAt'[q] > IF pass'.kind = "regenerate" THEN pass'.started ELSE cursor'
    BY <1>2, <2>1
  <2> QED BY <1>1, <1>3, <1>5, <2>2, <2>3, RoleChanged DEF Workings
<1> QED BY <1>5, <1>6, <1>7 DEF ForecastInv

\* Collection stores an opening where no pass is at work.
LEMMA StoreOpeningKeeps ==
    ASSUME ForecastInv, NEW e \in OpeningItems, NEW q \in ForecastRoles, StoreOpening(e, q)
    PROVE  ForecastInv'
<1> USE DEF StoreOpening, storedVars
<1>1. ForecastTypeOK /\ StagesAreKept
  BY DEF ForecastInv, Workings
<1>2. /\ changedAt' \in [ForecastRoles -> Nat]
      /\ \A r \in ForecastRoles : changedAt'[r] = IF r = q THEN time ELSE changedAt[r]
  BY <1>1, StampIs
<1>3. evidence' = [evidence EXCEPT ![e] = q] /\ evidence' \in [Items -> Places] /\ e \in Items
      /\ evidence[e] = Nowhere
  BY <1>1 DEF ForecastTypeOK, Items, Places
<1>4. ForecastTypeOK' /\ forecastSpent'.faults = forecastSpent.faults /\ forecastSpent.faults \in Nat
  BY <1>1, <1>2, <1>3, SpendIs DEF ForecastTypeOK
<1>5. LeavesThePass
  BY DEF LeavesThePass
<1>6. Workings'
  <2>1. StagesAreKept'
    BY <1>1, <1>3, <1>5, ForecastConstants DEF StagesAreKept, LeavesThePass, Enough, ForecastTypeOK
  <2>2. BuildsAreCounted'
    BY <1>5 DEF ForecastInv, Workings, BuildsAreCounted, LeavesThePass
  <2>3. PageIsStored' /\ SignalsAreKept'
    BY <1>1, <1>3, <1>5, ForecastConstants
       DEF ForecastInv, Workings, PageIsStored, SignalsAreKept, LeavesThePass, ForecastTypeOK
  <2> QED BY <1>4, <2>1, <2>2, <2>3 DEF Workings
<1>7. ASSUME NEW r \in ForecastRoles, r # q PROVE RoleIsKept(r)'
  <2>1. Visible(r)' = Visible(r)
    BY <1>1, <1>3, <1>7, ForecastConstants DEF Visible, ForecastTypeOK
  <2>2. Ripe(r)' <=> Ripe(r)
    BY <2>1 DEF Ripe, Enough
  <2>3. OfTheCompany' <=> OfTheCompany
    BY <1>1, <1>3, ForecastConstants DEF OfTheCompany, ForecastTypeOK
  <2>4. LeavesRole(r)
    BY <1>2, <1>4, <1>7, <2>1, <2>2, <2>3 DEF LeavesRole
  <2> QED BY <1>1, <1>4, <1>5, <2>4, RoleLeft DEF ForecastInv
<1>8. RoleIsKept(q)'
  <2>1. /\ time \in Nat /\ cursor \in Int /\ cursor < time /\ pass.kind = "none"
    BY <1>1, NothingAtWork DEF ForecastTypeOK, StagesAreKept
  <2>2. NewsIsStamped(q)'
    BY <1>2, <2>1 DEF NewsIsStamped
  <2>3. changedAt'[q] > IF pass'.kind = "regenerate" THEN pass'.started ELSE cursor'
    BY <1>2, <2>1
  <2> QED BY <1>1, <1>4, <1>6, <2>2, <2>3, RoleChanged DEF Workings
<1> QED BY <1>6, <1>7, <1>8 DEF ForecastInv

LEMMA StartMoveKeeps ==
    ASSUME ForecastInv, NEW e \in OpeningItems, NEW q \in ForecastRoles \cup {Nowhere}, StartMove(e, q)
    PROVE  ForecastInv'
<1> USE DEF StartMove, storedVars
<1>1. ForecastTypeOK /\ StagesAreKept
  BY DEF ForecastInv, Workings
<1>2. moving' = [item |-> e, to |-> q, at |-> time]
      /\ moving' \in [item : OpeningItems \cup {Nowhere}, to : ForecastRoles \cup {Nowhere}, at : Nat]
  BY <1>1 DEF ForecastTypeOK
<1>3. ForecastTypeOK' /\ forecastSpent'.faults = forecastSpent.faults /\ forecastSpent.faults \in Nat
  BY <1>1, <1>2, SpendIs DEF ForecastTypeOK
<1>4. LeavesThePass
  BY DEF LeavesThePass
<1>5. Workings'
  <2>1. StagesAreKept'
    BY <1>1, <1>2, <1>4 DEF StagesAreKept, LeavesThePass, Enough
  <2>2. BuildsAreCounted'
    BY <1>4 DEF ForecastInv, Workings, BuildsAreCounted, LeavesThePass
  <2>3. PageIsStored' /\ SignalsAreKept'
    BY <1>4 DEF ForecastInv, Workings, PageIsStored, SignalsAreKept, LeavesThePass
  <2> QED BY <1>3, <2>1, <2>2, <2>3 DEF Workings
<1>6. ASSUME NEW r \in ForecastRoles PROVE LeavesRole(r)
  BY <1>3, SameEvidence DEF LeavesRole
<1> QED BY <1>1, <1>3, <1>4, <1>5, <1>6, RoleLeft DEF ForecastInv

\* What moves is stamped with a time that is not covered, or that makes the change a late one.
LEMMA CommitMoveKeeps ==
    ASSUME ForecastInv, CommitMove
    PROVE  ForecastInv'
<1> DEFINE e == moving.item
           touched == {evidence[e], moving.to} \cap ForecastRoles
<1>1. ForecastTypeOK /\ StagesAreKept
  BY DEF ForecastInv, Workings
<1>2. /\ e \in OpeningItems /\ e \in Items /\ evidence[e] \in ForecastRoles
      /\ moving.to \in ForecastRoles \cup {Nowhere} /\ moving.at \in Nat
  BY <1>1 DEF CommitMove, StagesAreKept, ForecastTypeOK, Items
<1>3. /\ evidence' = [evidence EXCEPT ![e] = moving.to]
      /\ changedAt' = [r \in ForecastRoles |->
           IF r \in touched /\ moving.at > changedAt[r] THEN moving.at ELSE changedAt[r]]
      /\ late' = IF ReadBefore(moving.at) THEN late \cup touched ELSE late
      /\ moving' = NoMove
      /\ UNCHANGED <<time, inScope, careersPage, remembered, storedVars, cursor, pass, question, baseline, forecastSpent>>
  BY DEF CommitMove
<1> USE DEF storedVars
<1> HIDE DEF touched
<1>4. touched \subseteq ForecastRoles
  BY DEF touched
<1>5. /\ changedAt' \in [ForecastRoles -> Nat]
      /\ evidence' \in [Items -> Places]
      /\ late' \in SUBSET ForecastRoles
  BY <1>1, <1>2, <1>3, <1>4 DEF ForecastTypeOK, Places
<1>6. ForecastTypeOK'
  BY <1>1, <1>3, <1>5, NoMoveOrQuestion DEF ForecastTypeOK
<1>7. LeavesThePass
  BY <1>3 DEF LeavesThePass
<1>8. Workings'
  <2>1. StagesAreKept'
    BY <1>1, <1>3, <1>7 DEF StagesAreKept, LeavesThePass, Enough
  <2>2. BuildsAreCounted'
    BY <1>3, <1>7 DEF ForecastInv, Workings, BuildsAreCounted, LeavesThePass
  <2>3. PageIsStored' /\ SignalsAreKept'
    <3>1. \A s \in SignalItems : evidence'[s] = evidence[s]
      BY <1>1, <1>2, <1>3, ForecastConstants DEF ForecastTypeOK, Items
    <3>2. remembered # NoState => remembered \subseteq SignalItems
      BY <1>1 DEF ForecastTypeOK
    <3>3. SignalsAreKept'
      BY <1>3, <1>7, <3>1, <3>2 DEF ForecastInv, Workings, SignalsAreKept, LeavesThePass
    <3>4. PageIsStored'
      BY <1>7, <3>1 DEF ForecastInv, Workings, PageIsStored, LeavesThePass
    <3> QED BY <3>3, <3>4
  <2> QED BY <1>6, <2>1, <2>2, <2>3 DEF Workings
<1>9. ASSUME NEW r \in ForecastRoles, r \notin touched PROVE RoleIsKept(r)'
  <2>1. Visible(r)' = Visible(r)
    BY <1>1, <1>2, <1>3, <1>9, ForecastConstants DEF Visible, ForecastTypeOK, touched
  <2>2. Ripe(r)' <=> Ripe(r)
    BY <2>1 DEF Ripe, Enough
  <2>3. OfTheCompany' <=> OfTheCompany
    BY <1>1, <1>2, <1>3, ForecastConstants DEF OfTheCompany, ForecastTypeOK
  <2>4. LeavesRole(r)
    BY <1>1, <1>3, <1>9, <2>1, <2>2, <2>3 DEF LeavesRole, ForecastTypeOK
  <2> QED BY <1>1, <1>6, <1>7, <2>4, RoleLeft DEF ForecastInv
<1>10. ASSUME NEW r \in touched PROVE RoleIsKept(r)'
  <2>1. r \in ForecastRoles /\ changedAt[r] \in Nat /\ changedAt'[r] \in Nat
    BY <1>1, <1>4, <1>5, <1>10 DEF ForecastTypeOK
  <2>2. changedAt'[r] >= changedAt[r] /\ changedAt'[r] >= moving.at
    BY <1>2, <1>3, <1>10, <2>1
  <2>3. NewsIsStamped(r)'
    <3>1. OfTheCompany' <=> OfTheCompany
      BY <1>1, <1>2, <1>3, ForecastConstants DEF OfTheCompany, ForecastTypeOK
    <3> QED BY <1>1, <1>3, <2>1, <2>2, <3>1
            DEF ForecastInv, RoleIsKept, NewsIsStamped, Pending, ForecastTypeOK
  <2>4. CASE r \in late'
    BY <1>1, <1>6, <1>8, <2>1, <2>3, <2>4, RoleChanged DEF Workings
  <2>5. CASE r \notin late'
    <3>1. ~ReadBefore(moving.at)
      BY <1>3, <1>10, <2>5
    <3>2. moving.at > cursor /\ (pass.kind = "regenerate" /\ pass.at # "changed" => moving.at > pass.started)
      BY <1>1, <1>2, <3>1, PassFields DEF ReadBefore, ForecastTypeOK
    <3>3. CASE pass.kind = "regenerate" /\ pass.at = "changed"
      <4>1. changedAt'[r] > cursor'
        BY <1>1, <1>2, <1>3, <2>1, <2>2, <3>2 DEF ForecastTypeOK
      <4>2. ~Unchanged(r)' 
        BY <1>1, <1>3, <2>1, <4>1 DEF Unchanged, Unmoved, ForecastTypeOK
      <4> QED BY <1>3, <2>3, <3>3, <4>2 DEF RoleIsKept, UnchangedIsCounted, LoadedIsVisible, RegenerationCovers
    <3>4. CASE ~(pass.kind = "regenerate" /\ pass.at = "changed")
      <4>1. changedAt'[r] > IF pass'.kind = "regenerate" THEN pass'.started ELSE cursor'
        BY <1>1, <1>2, <1>3, <2>1, <2>2, <3>2, <3>4, PassFields DEF ForecastTypeOK
      <4> QED BY <1>1, <1>6, <1>8, <2>1, <2>3, <4>1, RoleChanged DEF Workings
    <3> QED BY <3>3, <3>4
  <2> QED BY <2>4, <2>5
<1> QED BY <1>8, <1>9, <1>10 DEF ForecastInv

-----------------------------------------------------------------------------
(* The agent. *)

\* A question that leaves the versions and the refusals.
LEMMA AsksAlone ==
    ASSUME ForecastInv, Beside, UNCHANGED <<version, refusedAt, overtaken>>, ForecastTypeOK',
           (StagesAreKept /\ BuildsAreCounted)', forecastSpent'.faults = forecastSpent.faults
    PROVE  ForecastInv'
<1> USE DEF Beside, evidenceVars
<1>1. ForecastTypeOK
  BY DEF ForecastInv, Workings
<1>2. LeavesThePass
  BY DEF LeavesThePass
<1>3. ASSUME NEW r \in ForecastRoles PROVE LeavesRole(r)
  BY <1>1, SameEvidence DEF LeavesRole, ForecastTypeOK
<1>4. Workings'
  BY DEF ForecastInv, Workings, PageIsStored, SignalsAreKept
<1> QED BY <1>1, <1>2, <1>3, <1>4, RoleLeft DEF ForecastInv

LEMMA ReadForForecastKeeps ==
    ASSUME ForecastInv, NEW r \in ForecastRoles, ReadForForecast(r)
    PROVE  ForecastInv'
<1> USE DEF ReadForForecast, Beside, evidenceVars, storedVars, Asks
<1>1. ForecastTypeOK /\ StagesAreKept /\ BuildsAreCounted
  BY DEF ForecastInv, Workings
<1>2. ForecastTypeOK' /\ forecastSpent'.faults = forecastSpent.faults
  BY <1>1, VisibleIs, SpendIs DEF ForecastTypeOK
<1>3. StagesAreKept'
  BY <1>1 DEF StagesAreKept, Enough
<1>4. BuildsAreCounted'
  BY <1>1 DEF BuildsAreCounted
<1> QED BY <1>2, <1>3, <1>4, AsksAlone

LEMMA AgentBuildsKeeps ==
    ASSUME ForecastInv, AgentBuilds
    PROVE  ForecastInv'
<1> USE DEF AgentBuilds, Beside, evidenceVars, Asks
<1>1. ForecastTypeOK /\ StagesAreKept /\ BuildsAreCounted
  BY DEF ForecastInv, Workings
<1> DEFINE q == question.role
<1>2. /\ q \in ForecastRoles /\ Enough(question.inputs) /\ question.inputs \in SUBSET Items
      /\ builds[q] \in Nat /\ builds \in [ForecastRoles -> Nat]
  BY <1>1, NothingAtWork DEF ForecastTypeOK, StagesAreKept
<1>3. question' = [at |-> "built", role |-> q, inputs |-> question.inputs, n |-> builds[q] + 1]
  BY <1>1 DEF ForecastTypeOK
<1>4. builds' \in [ForecastRoles -> Nat] /\ \A r \in ForecastRoles : builds'[r] >= builds[r]
  BY <1>2
<1>5. builds'[q] = builds[q] + 1
  BY <1>2
<1>6. ForecastTypeOK'
  BY <1>1, <1>2, <1>3, <1>4 DEF ForecastTypeOK
<1>7. StagesAreKept'
  BY <1>1, <1>2, <1>3 DEF StagesAreKept, Enough
<1>8. BuildsAreCounted'
  <2>1. \A r \in ForecastRoles : version'[r].n <= builds'[r] /\ refusedAt'[r] <= builds'[r]
    BY <1>1, <1>4, <1>6 DEF BuildsAreCounted, ForecastTypeOK, Versions
  <2>2. pass'.role # Nowhere => pass'.n <= builds'[pass'.role] /\ refusedAt'[pass'.role] < pass'.n
    BY <1>1, <1>4, PassFields DEF BuildsAreCounted, ForecastTypeOK
  <2>3. question'.n <= builds'[question'.role]
    BY <1>2, <1>3, <1>5
  <2> QED BY <2>1, <2>2, <2>3 DEF BuildsAreCounted
<1> QED BY <1>6, <1>7, <1>8, AsksAlone

\* The version is saved: from the role's evidence, or the agent was overtaken.
LEMMA AgentSavesKeeps ==
    ASSUME ForecastInv, AgentSaves
    PROVE  ForecastInv'
<1>1. ForecastTypeOK /\ StagesAreKept /\ BuildsAreCounted
  BY DEF ForecastInv, Workings
<1>0. PICK q \in ForecastRoles : q = question.role
  BY <1>1, NothingAtWork DEF AgentSaves, StagesAreKept
<1>2. /\ Enough(question.inputs) /\ question.inputs \in SUBSET Items /\ question.n \in Nat
      /\ question.n <= builds[q] /\ question' = NoQuestion /\ Beside
      /\ UNCHANGED <<builds, refusedAt, forecastSpent>>
  BY <1>1, <1>0, NothingAtWork DEF AgentSaves, ForecastTypeOK, StagesAreKept, BuildsAreCounted, Asks
<1> USE DEF Beside, evidenceVars
<1>3. \/ UNCHANGED <<version, overtaken>>
      \/ /\ version' = Saved(q, question.inputs, question.n)
         /\ question.n > version[q].n
         /\ overtaken' = IF question.inputs # Visible(q) THEN overtaken \cup {q} ELSE overtaken
  <2>1. CASE UNCHANGED <<version, overtaken>>
    BY <2>1
  <2>2. CASE ~UNCHANGED <<version, overtaken>>
    <3>1. /\ version' = Saved(q, question.inputs, question.n)
          /\ overtaken' = IF question.n > version[q].n /\ question.inputs # Visible(q)
                          THEN overtaken \cup {q} ELSE overtaken
      BY <1>0, <2>2 DEF AgentSaves
    <3>2. question.n > version[q].n
      BY <2>2, <3>1 DEF Saved
    <3> QED BY <3>1, <3>2
  <2> QED BY <2>1, <2>2
<1>4. CASE UNCHANGED <<version, overtaken>>
  <2>1. ForecastTypeOK'
    BY <1>1, <1>2, <1>4, NoMoveOrQuestion DEF ForecastTypeOK
  <2>2. StagesAreKept'
    BY <1>1, <1>2 DEF StagesAreKept, Enough
  <2>3. BuildsAreCounted'
    BY <1>1, <1>2, <1>4, NothingAtWork DEF BuildsAreCounted
  <2> QED BY <1>2, <1>4, <2>1, <2>2, <2>3, AsksAlone
<1>5. CASE /\ version' = Saved(q, question.inputs, question.n)
           /\ question.n > version[q].n
           /\ overtaken' = IF question.inputs # Visible(q) THEN overtaken \cup {q} ELSE overtaken
  <2>1. /\ version' \in [ForecastRoles -> Versions]
        /\ \A r \in ForecastRoles \ {q} : version'[r] = version[r]
        /\ version'[q] = [inputs |-> question.inputs, n |-> question.n, stands |-> question.inputs]
    BY <1>1, <1>2, <1>5, SavedIs
  <2>2. ForecastTypeOK'
    BY <1>1, <1>2, <1>5, <2>1, NoMoveOrQuestion DEF ForecastTypeOK
  <2>3. StagesAreKept'
    BY <1>1, <1>2 DEF StagesAreKept, Enough
  <2>4. BuildsAreCounted'
    BY <1>1, <1>2, <2>1, NothingAtWork DEF BuildsAreCounted
  <2>5. Workings'
    BY <1>2, <2>2, <2>3, <2>4 DEF ForecastInv, Workings, PageIsStored, SignalsAreKept
  <2>6. LeavesThePass
    BY <1>2 DEF LeavesThePass
  <2>7. ASSUME NEW r \in ForecastRoles, r # q PROVE RoleIsKept(r)'
    <3>1. LeavesRole(r)
      BY <1>1, <1>2, <1>5, <2>1, <2>7, SameEvidence DEF LeavesRole, ForecastTypeOK
    <3> QED BY <1>1, <2>2, <2>6, <2>7, <3>1, RoleLeft DEF ForecastInv
  <2>8. RoleIsKept(q)'
    <3>1. /\ Visible(q)' = Visible(q) /\ (Ripe(q)' <=> Ripe(q)) /\ (OfTheCompany' <=> OfTheCompany)
          /\ (Pending(q)' <=> Pending(q)) /\ (Unchanged(q)' <=> Unchanged(q)) /\ (PassCovers(q)' <=> PassCovers(q))
      BY <1>2, SameEvidence DEF Pending, Unchanged, PassCovers, Unmoved
    <3>2. q \notin overtaken' => question.inputs = Visible(q)
      BY <1>5
    <3>3. q \notin overtaken' => Ripe(q)
      BY <1>2, <3>2 DEF Ripe
    <3>4. version[q].n \in Nat /\ refusedAt[q] \in Nat /\ (Current(q) => Current(q)')
      BY <1>1, <1>2, <1>5, <2>1 DEF Current, ForecastTypeOK, Versions
    <3>5. q \notin overtaken' => Counted(q)'
      BY <2>1, <3>1, <3>2 DEF Counted
    <3>6. (Ripe(q) => Current(q)) => HasForecast(q)'
      BY <3>1, <3>3, <3>4 DEF HasForecast
    <3>7. UnchangedIsCounted(q)'
      BY <1>2, <3>1, <3>5, <3>6 DEF ForecastInv, RoleIsKept, UnchangedIsCounted, HasForecast
    <3>8. NewsIsStamped(q)'
      BY <1>2, <3>1 DEF ForecastInv, RoleIsKept, NewsIsStamped
    <3>9. LoadedIsVisible(q)'
      BY <1>2, <2>1, <3>1, <3>2, <3>3 DEF ForecastInv, RoleIsKept, LoadedIsVisible
    <3>10. RegenerationCovers(q)'
      BY <1>2, <3>1, <3>5, <3>6 DEF ForecastInv, RoleIsKept, RegenerationCovers, HasForecast
    <3> QED BY <3>7, <3>8, <3>9, <3>10 DEF RoleIsKept
  <2> QED BY <2>5, <2>7, <2>8 DEF ForecastInv
<1> QED BY <1>3, <1>4, <1>5

-----------------------------------------------------------------------------
(* The passes, where nothing is stored. *)

\* A step of a pass that leaves what is stored of the evidence and the forecasts.
LeavesStored == UNCHANGED <<evidenceVars, version, refusedAt, overtaken, late, question>>

LEMMA StoredLeft ==
    ASSUME LeavesStored, NEW r \in ForecastRoles
    PROVE  /\ Visible(r)' = Visible(r) /\ (Ripe(r)' <=> Ripe(r)) /\ (OfTheCompany' <=> OfTheCompany)
           /\ (HasForecast(r)' <=> HasForecast(r)) /\ (Counted(r)' <=> Counted(r))
           /\ (cursor' = cursor => (Unchanged(r)' <=> Unchanged(r)))
<1> USE DEF LeavesStored, evidenceVars
<1>1. Visible(r)' = Visible(r) /\ (Ripe(r)' <=> Ripe(r)) /\ (OfTheCompany' <=> OfTheCompany)
  BY SameEvidence
<1> QED BY <1>1 DEF HasForecast, Counted, Current, Unchanged, Unmoved

\* No news of a role is dropped, but by a fault.
LEMMA PassMoves ==
    ASSUME ForecastInv, LeavesStored, cursor' = cursor, ForecastTypeOK', NEW r \in ForecastRoles,
           forecastSpent'.faults >= forecastSpent.faults,
           Pending(r) => Pending(r)' \/ forecastSpent'.faults > 0,
           Pending(r)' => Pending(r),
           LoadedIsVisible(r)', RegenerationCovers(r)'
    PROVE  RoleIsKept(r)'
<1>1. ForecastTypeOK
  BY DEF ForecastInv, Workings
<1>2. forecastSpent.faults \in Nat /\ forecastSpent'.faults \in Nat /\ changedAt[r] \in Nat /\ cursor \in Int
      /\ changedAt' = changedAt
  BY <1>1 DEF ForecastTypeOK, LeavesStored, evidenceVars
<1>3. RoleIsKept(r)
  BY DEF ForecastInv
<1>4. CompanyCounts' => CompanyCounts
  BY <1>2, StoredLeft DEF CompanyCounts
<1>5. Unchanged(r) /\ CompanyCounts' /\ Pending(r) => Pending(r)'
  BY <1>2, <1>3, StoredLeft DEF CompanyCounts, RoleIsKept, NewsIsStamped, Unchanged, Unmoved
<1>6. UnchangedIsCounted(r)'
  BY <1>3, <1>4, <1>5, StoredLeft DEF RoleIsKept, UnchangedIsCounted, LeavesStored
<1>7. NewsIsStamped(r)'
  BY <1>2, <1>3, StoredLeft DEF RoleIsKept, NewsIsStamped
<1> QED BY <1>6, <1>7 DEF RoleIsKept

\* The workings of such a step.
LEMMA WorkingsOfPass ==
    ASSUME ForecastInv, LeavesStored, UNCHANGED <<builds, remembered, baseline>>, ForecastTypeOK', cursor' < time',
           pass'.kind = "none" => pass' = NoPass,
           pass'.kind = "signals" => pass'.at \in {"load", "roles"},
           pass'.kind = "regenerate" => pass'.at \in {"changed", "load", "roles"} /\ time' = pass'.started + 1
                                        /\ cursor' < pass'.started,
           pass'.role # Nowhere => pass'.at = "roles" /\ pass'.role = pass.role /\ pass'.n = pass.n
    PROVE  Workings'
<1> USE DEF LeavesStored, evidenceVars
<1>1. StagesAreKept'
  BY DEF ForecastInv, Workings, StagesAreKept, Enough
<1>2. BuildsAreCounted'
  BY DEF ForecastInv, Workings, BuildsAreCounted
<1>3. SignalsAreKept' /\ PageIsStored'
  BY DEF ForecastInv, Workings, SignalsAreKept, PageIsStored
<1> QED BY <1>1, <1>2, <1>3 DEF Workings

LEMMA PassStopsKeeps ==
    ASSUME ForecastInv, PassStops
    PROVE  ForecastInv'
<1> USE DEF PassStops, Worked, evidenceVars, storedVars, Goes
<1>1. ForecastTypeOK /\ StagesAreKept
  BY DEF ForecastInv, Workings
<1>2. ForecastTypeOK' /\ forecastSpent'.faults = forecastSpent.faults + 1 /\ forecastSpent.faults \in Nat
  BY <1>1, NothingAtWork, SpendIs DEF ForecastTypeOK
<1>3. LeavesStored
  BY DEF LeavesStored
<1>4. Workings'
  BY <1>1, <1>2, <1>3, NothingAtWork, WorkingsOfPass DEF StagesAreKept
<1>5. ASSUME NEW r \in ForecastRoles PROVE RoleIsKept(r)'
  <2>1. ~Pending(r)' /\ LoadedIsVisible(r)' /\ RegenerationCovers(r)'
    BY NothingAtWork DEF Pending, LoadedIsVisible, RegenerationCovers
  <2> QED BY <1>2, <1>3, <2>1, PassMoves
<1> QED BY <1>4, <1>5 DEF ForecastInv

\* A page is read: what it holds that is remembered is stored, and the rest is to be stored.
LEMMA StartSignalsKeeps ==
    ASSUME ForecastInv, StartSignals
    PROVE  ForecastInv'
<1> USE DEF StartSignals, evidenceVars, storedVars, Goes
<1>1. ForecastTypeOK /\ StagesAreKept /\ SignalsAreKept
  BY DEF ForecastInv, Workings
<1>2. careersPage \in SUBSET SignalItems /\ careersPage \subseteq Items
  BY <1>1 DEF ForecastTypeOK, Items
<1>3. /\ pass' \in Passes /\ pass'.kind = "signals" /\ pass'.at = "store" /\ pass'.new = {}
      /\ pass'.role = Nowhere /\ pass'.data = [r \in ForecastRoles |-> careersPage]
      /\ pass'.left = IF remembered = NoState THEN {} ELSE careersPage \ remembered
  BY <1>2 DEF NoPass, Passes
<1>4. ForecastTypeOK'
  BY <1>1, <1>3 DEF ForecastTypeOK
<1>5. LeavesStored
  BY DEF LeavesStored
<1>6. Workings'
  <2>1. StagesAreKept'
    BY <1>1, <1>3 DEF StagesAreKept, Enough
  <2>2. BuildsAreCounted'
    BY <1>3 DEF ForecastInv, Workings, BuildsAreCounted
  <2>3. SignalsAreKept'
    BY <1>1 DEF SignalsAreKept
  <2>4. PageIsStored'
    <3>1. CASE remembered = NoState
      BY <1>2, <1>3, <3>1 DEF PageIsStored
    <3>2. CASE remembered # NoState
      BY <1>1, <1>2, <1>3, <3>2 DEF PageIsStored, SignalsAreKept
    <3> QED BY <3>1, <3>2
  <2> QED BY <1>4, <2>1, <2>2, <2>3, <2>4 DEF Workings
<1>7. ASSUME NEW r \in ForecastRoles PROVE RoleIsKept(r)'
  <2>1. ~Pending(r)' /\ LoadedIsVisible(r)' /\ RegenerationCovers(r)'
    BY <1>3, ForecastConstants DEF Pending, LoadedIsVisible, RegenerationCovers
  <2>2. ~Pending(r)
    BY NothingAtWork DEF Pending
  <2> QED BY <1>1, <1>4, <1>5, <2>1, <2>2, PassMoves DEF ForecastTypeOK
<1> QED BY <1>6, <1>7 DEF ForecastInv

\* The page is remembered once all of it is stored.
LEMMA SaveSourceStateKeeps ==
    ASSUME ForecastInv, SaveSourceState
    PROVE  ForecastInv'
<1> USE DEF SaveSourceState, evidenceVars, storedVars, Goes
<1>1. ForecastTypeOK /\ StagesAreKept /\ PageIsStored
  BY DEF ForecastInv, Workings
<1> DEFINE some == CHOOSE r \in ForecastRoles : TRUE
<1>2. some \in ForecastRoles
  BY ForecastConstants
<1>3. remembered' = pass.data[some]
  OBVIOUS
<1> HIDE DEF some
<1>4. /\ pass' \in Passes /\ pass'.kind = "signals" /\ pass'.at = "load" /\ pass'.left = pass.new
      /\ pass'.role = pass.role /\ pass'.n = pass.n
  BY <1>1, PassFields DEF Passes
<1>5. pass.role = Nowhere
  BY <1>1 DEF StagesAreKept
<1>6. pass.data[some] \in SUBSET SignalItems /\ \A s \in pass.data[some] : s \in baseline \/ evidence[s] # Nowhere
  BY <1>1, <1>2 DEF PageIsStored
<1>7. ForecastTypeOK'
  BY <1>1, <1>3, <1>4, <1>6 DEF ForecastTypeOK
<1>8. LeavesStored
  BY DEF LeavesStored
<1>9. Workings'
  <2>1. StagesAreKept'
    BY <1>1, <1>4, <1>5 DEF StagesAreKept, Enough
  <2>2. BuildsAreCounted'
    BY <1>4, <1>5 DEF ForecastInv, Workings, BuildsAreCounted
  <2>3. SignalsAreKept' /\ PageIsStored'
    BY <1>3, <1>4, <1>6 DEF SignalsAreKept, PageIsStored
  <2> QED BY <1>7, <2>1, <2>2, <2>3 DEF Workings
<1>10. ASSUME NEW r \in ForecastRoles PROVE RoleIsKept(r)'
  <2>1. (Pending(r)' <=> Pending(r)) /\ LoadedIsVisible(r)' /\ RegenerationCovers(r)'
    BY <1>4, <1>5, ForecastConstants DEF Pending, LoadedIsVisible, RegenerationCovers
  <2> QED BY <1>1, <1>7, <1>8, <2>1, PassMoves DEF ForecastTypeOK
<1> QED BY <1>9, <1>10 DEF ForecastInv

LEMMA EndSignalsKeeps ==
    ASSUME ForecastInv, EndSignals
    PROVE  ForecastInv'
<1> USE DEF EndSignals, Worked, evidenceVars, storedVars, Goes
<1>1. ForecastTypeOK /\ StagesAreKept
  BY DEF ForecastInv, Workings
<1>2. ForecastTypeOK' /\ forecastSpent.faults \in Nat
  BY <1>1, NothingAtWork DEF ForecastTypeOK
<1>3. LeavesStored
  BY DEF LeavesStored
<1>4. Workings'
  BY <1>1, <1>2, <1>3, NothingAtWork, WorkingsOfPass DEF StagesAreKept
<1>5. ASSUME NEW r \in ForecastRoles PROVE RoleIsKept(r)'
  <2>1. ~Pending(r) /\ ~Pending(r)' /\ LoadedIsVisible(r)' /\ RegenerationCovers(r)'
    BY NothingAtWork, ForecastConstants DEF Pending, LoadedIsVisible, RegenerationCovers
  <2> QED BY <1>2, <1>3, <2>1, PassMoves
<1> QED BY <1>4, <1>5 DEF ForecastInv

LEMMA StartRegenerationKeeps ==
    ASSUME ForecastInv, StartRegeneration
    PROVE  ForecastInv'
<1> USE DEF StartRegeneration, evidenceVars, storedVars, Goes
<1>1. ForecastTypeOK /\ StagesAreKept
  BY DEF ForecastInv, Workings
<1>2. time \in Nat /\ cursor \in Int /\ cursor < time /\ forecastSpent.faults \in Nat
  BY <1>1 DEF ForecastTypeOK, StagesAreKept
<1>3. /\ pass' \in Passes /\ pass'.kind = "regenerate" /\ pass'.at = "changed" /\ pass'.started = time
      /\ pass'.role = Nowhere
  BY <1>2 DEF NoPass, Passes
<1>4. ForecastTypeOK'
  BY <1>1, <1>3 DEF ForecastTypeOK
<1>5. LeavesStored
  BY DEF LeavesStored
<1>6. Workings'
  BY <1>2, <1>3, <1>4, <1>5, WorkingsOfPass
<1>7. ASSUME NEW r \in ForecastRoles PROVE RoleIsKept(r)'
  <2>1. ~Pending(r) /\ ~Pending(r)' /\ LoadedIsVisible(r)' /\ RegenerationCovers(r)'
    BY <1>3, NothingAtWork DEF Pending, LoadedIsVisible, RegenerationCovers
  <2> QED BY <1>2, <1>4, <1>5, <2>1, PassMoves
<1> QED BY <1>6, <1>7 DEF ForecastInv

LEMMA ReadChangedRolesKeeps ==
    ASSUME ForecastInv, ReadChangedRoles
    PROVE  ForecastInv'
<1> USE DEF ReadChangedRoles, Worked, evidenceVars, storedVars, Goes
<1>1. ForecastTypeOK /\ StagesAreKept
  BY DEF ForecastInv, Workings
<1>2. /\ pass' \in Passes /\ pass'.kind = pass.kind /\ pass'.at = "load" /\ pass'.started = pass.started
      /\ pass'.role = pass.role /\ pass'.n = pass.n /\ pass'.left = {r \in ForecastRoles : changedAt[r] > cursor}
  BY <1>1, PassFields DEF Passes
<1>3. pass.kind = "regenerate" /\ pass.role = Nowhere
  BY <1>1, PassFields, NothingAtWork DEF StagesAreKept
<1>4. ForecastTypeOK' /\ forecastSpent.faults \in Nat
  BY <1>1, <1>2 DEF ForecastTypeOK
<1>5. LeavesStored
  BY DEF LeavesStored
<1>6. Workings'
  BY <1>1, <1>2, <1>3, <1>4, <1>5, WorkingsOfPass DEF StagesAreKept
<1>7. ASSUME NEW r \in ForecastRoles PROVE RoleIsKept(r)'
  <2>1. ~Pending(r) /\ ~Pending(r)' /\ LoadedIsVisible(r)' /\ RegenerationCovers(r)'
    BY <1>2, <1>3 DEF Pending, LoadedIsVisible, RegenerationCovers
  <2> QED BY <1>4, <1>5, <2>1, PassMoves
<1> QED BY <1>6, <1>7 DEF ForecastInv

\* What is loaded is what is there; a role that left the scope is one that changed.
LEMMA LoadEvidenceKeeps ==
    ASSUME ForecastInv, LoadEvidence
    PROVE  ForecastInv'
<1> USE DEF LoadEvidence, Worked, evidenceVars, storedVars, Goes
<1>1. ForecastTypeOK /\ StagesAreKept
  BY DEF ForecastInv, Workings
<1>2. [r \in ForecastRoles |-> Visible(r)] \in [ForecastRoles -> SUBSET Items]
  BY VisibleIs
<1>3. /\ pass' \in Passes /\ pass'.kind = pass.kind /\ pass'.at = "roles" /\ pass'.started = pass.started
      /\ pass'.role = pass.role /\ pass'.n = pass.n
      /\ pass'.left = IF pass.kind = "regenerate" THEN pass.left \cap inScope ELSE pass.left
      /\ pass'.data = [r \in ForecastRoles |-> Visible(r)]
  <2> DEFINE data == [r \in ForecastRoles |-> Visible(r)]
             left == IF pass.kind = "regenerate" THEN pass.left \cap inScope ELSE pass.left
  <2>1. data \in [ForecastRoles -> SUBSET Items] /\ left \in SUBSET (ForecastRoles \cup SignalItems)
    BY <1>1, <1>2, PassFields
  <2>2. pass' = [pass EXCEPT !.at = "roles", !.left = left, !.data = data]
    OBVIOUS
  <2> HIDE DEF data, left
  <2>3. /\ pass' \in Passes /\ pass'.kind = pass.kind /\ pass'.at = "roles" /\ pass'.started = pass.started
        /\ pass'.role = pass.role /\ pass'.n = pass.n /\ pass'.left = left /\ pass'.data = data
    BY <1>1, <2>1, <2>2, PassFields DEF Passes
  <2> QED BY <2>3 DEF data, left
<1>4. pass.kind # "none" /\ pass.role = Nowhere
  BY <1>1, NothingAtWork DEF StagesAreKept
<1>5. ForecastTypeOK' /\ forecastSpent.faults \in Nat
  BY <1>1, <1>3 DEF ForecastTypeOK
<1>6. LeavesStored
  BY DEF LeavesStored
<1>7. Workings'
  BY <1>1, <1>3, <1>4, <1>5, <1>6, WorkingsOfPass DEF StagesAreKept
<1>8. ASSUME NEW r \in ForecastRoles PROVE RoleIsKept(r)'
  <2>1. Pending(r)' <=> Pending(r)
    BY <1>3, <1>4 DEF Pending
  <2>2. LoadedIsVisible(r)'
    BY <1>3, <1>4, <1>6, StoredLeft, ForecastConstants DEF LoadedIsVisible
  <2>3. PassCovers(r)' => PassCovers(r) /\ r \in inScope
    BY <1>3 DEF PassCovers, Unmoved
  <2>4. RegenerationCovers(r)'
    BY <1>3, <2>3 DEF ForecastInv, RoleIsKept, RegenerationCovers
  <2> QED BY <1>5, <1>6, <2>1, <2>2, <2>4, PassMoves
<1> QED BY <1>7, <1>8 DEF ForecastInv

LEMMA BuildForecastKeeps ==
    ASSUME ForecastInv, NEW q \in ForecastRoles, BuildForecast(q)
    PROVE  ForecastInv'
<1> USE DEF BuildForecast, Worked, evidenceVars, Goes
<1>1. ForecastTypeOK /\ StagesAreKept /\ BuildsAreCounted
  BY DEF ForecastInv, Workings
<1>2. builds[q] \in Nat /\ builds \in [ForecastRoles -> Nat] /\ forecastSpent.faults \in Nat
  BY <1>1 DEF ForecastTypeOK
<1>3. /\ pass' \in Passes /\ pass'.kind = pass.kind /\ pass'.at = "roles" /\ pass'.started = pass.started
      /\ pass'.role = q /\ pass'.n = builds[q] + 1 /\ pass'.left = pass.left \ {q} /\ pass'.data = pass.data
      /\ pass'.failed = pass.failed
  <2> DEFINE left == pass.left \ {q}
             n == builds[q] + 1
  <2>1. left \in SUBSET (ForecastRoles \cup SignalItems) /\ n \in Nat
    BY <1>1, <1>2, PassFields
  <2>2. pass' = [pass EXCEPT !.role = q, !.n = n, !.left = left]
    OBVIOUS
  <2> HIDE DEF left, n
  <2>3. /\ pass' \in Passes /\ pass'.kind = pass.kind /\ pass'.at = pass.at /\ pass'.started = pass.started
        /\ pass'.role = q /\ pass'.n = n /\ pass'.left = left /\ pass'.data = pass.data
        /\ pass'.failed = pass.failed
    BY <1>1, <2>1, <2>2, PassFields DEF Passes
  <2> QED BY <2>3 DEF left, n
<1>4. /\ builds' \in [ForecastRoles -> Nat] /\ builds'[q] = builds[q] + 1
      /\ \A r \in ForecastRoles : builds'[r] >= builds[r]
  BY <1>2
<1>5. ForecastTypeOK'
  BY <1>1, <1>3, <1>4 DEF ForecastTypeOK
<1>6. LeavesStored
  BY DEF LeavesStored
<1>7. version[q].n \in Nat /\ refusedAt[q] \in Nat /\ version[q].n <= builds[q] /\ refusedAt[q] <= builds[q]
  BY <1>1 DEF ForecastTypeOK, BuildsAreCounted, Versions
<1>8. Workings'
  <2>1. StagesAreKept'
    BY <1>1, <1>3, NothingAtWork DEF StagesAreKept, Enough
  <2>2. BuildsAreCounted'
    <3>1. \A r \in ForecastRoles : version'[r].n <= builds'[r] /\ refusedAt'[r] <= builds'[r]
      BY <1>1, <1>4, <1>5 DEF BuildsAreCounted, ForecastTypeOK, Versions
    <3>2. pass'.n <= builds'[pass'.role] /\ refusedAt'[pass'.role] < pass'.n
      BY <1>3, <1>4, <1>7, <1>2
    <3>3. question'.at = "built" => question'.n <= builds'[question'.role]
      <4>1. question.at = "built" => question.role \in ForecastRoles /\ question.n \in Nat
        BY <1>1, NothingAtWork DEF StagesAreKept, ForecastTypeOK
      <4> QED BY <1>1, <1>2, <1>4, <4>1 DEF BuildsAreCounted
    <3> QED BY <3>1, <3>2, <3>3 DEF BuildsAreCounted
  <2>3. SignalsAreKept' /\ PageIsStored'
    BY <1>3 DEF ForecastInv, Workings, SignalsAreKept, PageIsStored
  <2> QED BY <1>5, <2>1, <2>2, <2>3 DEF Workings
<1>9. ASSUME NEW r \in ForecastRoles PROVE RoleIsKept(r)'
  <2>1. Pending(r)' <=> Pending(r)
    BY <1>3, ForecastConstants DEF Pending
  <2>2. PassCovers(r)' <=> PassCovers(r)
    BY <1>3 DEF PassCovers, Unmoved
  <2>3. LoadedIsVisible(r)'
    BY <1>2, <1>3, <1>6, <1>7, <2>2, StoredLeft DEF ForecastInv, RoleIsKept, LoadedIsVisible
  <2>4. RegenerationCovers(r)'
    BY <1>3, <1>6, <2>2, StoredLeft, ForecastConstants DEF ForecastInv, RoleIsKept, RegenerationCovers
  <2> QED BY <1>2, <1>5, <1>6, <2>1, <2>3, <2>4, PassMoves
<1> QED BY <1>8, <1>9 DEF ForecastInv

LEMMA RoleFailsKeeps ==
    ASSUME ForecastInv, RoleFails
    PROVE  ForecastInv'
<1> USE DEF RoleFails, Worked, evidenceVars, storedVars, Goes, Done
<1>1. ForecastTypeOK /\ StagesAreKept
  BY DEF ForecastInv, Workings
<1>2. /\ pass' \in Passes /\ pass'.kind = pass.kind /\ pass'.at = pass.at /\ pass'.started = pass.started
      /\ pass'.role = Nowhere /\ pass'.left = pass.left /\ pass'.data = pass.data /\ pass'.failed
  BY <1>1, PassFields DEF Passes
<1>3. ForecastTypeOK' /\ forecastSpent'.faults = forecastSpent.faults + 1 /\ forecastSpent.faults \in Nat
  BY <1>1, <1>2, SpendIs DEF ForecastTypeOK
<1>4. LeavesStored
  BY DEF LeavesStored
<1>5. Workings'
  BY <1>1, <1>2, <1>3, <1>4, WorkingsOfPass DEF StagesAreKept
<1>6. ASSUME NEW r \in ForecastRoles PROVE RoleIsKept(r)'
  <2>1. ~Pending(r)' /\ ~Pending(r)
    BY <1>2 DEF Pending
  <2>2. PassCovers(r)' <=> PassCovers(r)
    BY <1>2 DEF PassCovers, Unmoved
  <2>3. LoadedIsVisible(r)'
    BY <1>2, <1>4, <2>2, StoredLeft, ForecastConstants DEF ForecastInv, RoleIsKept, LoadedIsVisible
  <2>4. RegenerationCovers(r)'
    BY <1>1, <1>2, <1>4, <2>2 DEF StagesAreKept, RegenerationCovers
  <2> QED BY <1>3, <1>4, <2>1, <2>3, <2>4, PassMoves
<1> QED BY <1>5, <1>6 DEF ForecastInv

\* The cursor moves to what the regeneration covered, all of which it has counted.
LEMMA EndRegenerationKeeps ==
    ASSUME ForecastInv, EndRegeneration
    PROVE  ForecastInv'
<1> USE DEF EndRegeneration, evidenceVars, storedVars, Goes
<1>1. ForecastTypeOK /\ StagesAreKept
  BY DEF ForecastInv, Workings
<1>2. /\ pass.started \in Nat /\ cursor \in Int /\ time = pass.started + 1 /\ cursor < pass.started
      /\ forecastSpent.faults \in Nat
  BY <1>1, PassFields DEF StagesAreKept, ForecastTypeOK
<1>3. ForecastTypeOK'
  BY <1>1, <1>2, NothingAtWork DEF ForecastTypeOK
<1>4. LeavesStored
  BY DEF LeavesStored
<1>5. Workings'
  BY <1>2, <1>3, <1>4, NothingAtWork, WorkingsOfPass
<1>6. ASSUME NEW r \in ForecastRoles PROVE RoleIsKept(r)'
  <2>1. ~Pending(r)' /\ ~Pending(r) /\ LoadedIsVisible(r)' /\ RegenerationCovers(r)' /\ NewsIsStamped(r)'
    BY NothingAtWork DEF Pending, LoadedIsVisible, RegenerationCovers, NewsIsStamped
  <2>2. CASE pass.failed
    BY <1>2, <1>3, <1>4, <2>1, <2>2, PassMoves
  <2>3. CASE ~pass.failed
    <3>1. Unchanged(r)' <=> PassCovers(r)
      BY <2>3 DEF Unchanged, PassCovers, Unmoved
    <3>2. CompanyCounts' <=> CompanyCounts
      BY <1>4, StoredLeft DEF CompanyCounts
    <3>3. CASE changedAt[r] > cursor
      <4>1. PassCovers(r) => HasForecast(r) /\ (r \notin overtaken => Counted(r))
        BY <2>3, <3>3, ForecastConstants DEF ForecastInv, RoleIsKept, RegenerationCovers
      <4>2. UnchangedIsCounted(r)'
        BY <1>4, <3>1, <4>1, StoredLeft DEF UnchangedIsCounted
      <4> QED BY <2>1, <4>2 DEF RoleIsKept
    <3>4. CASE ~(changedAt[r] > cursor)
      <4>1. changedAt[r] \in Nat
        BY <1>1 DEF ForecastTypeOK
      <4>2. PassCovers(r) => Unchanged(r)
        BY <1>2, <3>4, <4>1 DEF PassCovers, Unchanged, Unmoved
      <4>3. UnchangedIsCounted(r)'
        BY <1>4, <2>1, <3>1, <3>2, <4>2, StoredLeft DEF ForecastInv, RoleIsKept, UnchangedIsCounted
      <4> QED BY <2>1, <4>3 DEF RoleIsKept
    <3> QED BY <3>3, <3>4
  <2> QED BY <2>2, <2>3
<1> QED BY <1>5, <1>6 DEF ForecastInv

-----------------------------------------------------------------------------
(* What the passes store. *)

\* A signal of one role makes that role changed; a signal of the company is news of every role in scope.
LEMMA StoreSignalKeeps ==
    ASSUME ForecastInv, NEW s \in SignalItems, StoreSignal(s)
    PROVE  ForecastInv'
<1> DEFINE to == IF NamedBy[s] \in inScope THEN NamedBy[s] ELSE Everyone
           news == IF to = Everyone THEN inScope ELSE {to}
<1>1. ForecastTypeOK /\ StagesAreKept /\ BuildsAreCounted /\ PageIsStored /\ SignalsAreKept
  BY DEF ForecastInv, Workings
<1>2. /\ pass.kind = "signals" /\ pass.at = "store" /\ pass.role = Nowhere
      /\ UNCHANGED <<time, inScope, moving, careersPage, remembered, storedVars, cursor, question, late, baseline, forecastSpent>>
      /\ s \in Items
  BY <1>1 DEF StoreSignal, StagesAreKept, Items
<1> USE DEF storedVars
<1>3. to \in inScope \cup {Everyone} /\ inScope \subseteq ForecastRoles /\ news \in SUBSET ForecastRoles
  BY <1>1 DEF ForecastTypeOK
<1>4. \/ evidence[s] # Nowhere /\ pass' = [pass EXCEPT !.left = @ \ {s}] /\ UNCHANGED <<evidence, changedAt>>
      \/ /\ evidence[s] = Nowhere
         /\ pass' = [pass EXCEPT !.left = @ \ {s}, !.new = @ \cup news]
         /\ evidence' = [evidence EXCEPT ![s] = to] /\ Stamp({to})
  BY DEF StoreSignal, Goes
<1> HIDE DEF to, news
<1>5. /\ pass' \in Passes /\ pass'.kind = "signals" /\ pass'.at = "store" /\ pass'.role = Nowhere
      /\ pass'.left = pass.left \ {s} /\ pass'.data = pass.data
      /\ evidence[s] # Nowhere => pass'.new = pass.new
      /\ evidence[s] = Nowhere => pass'.new = pass.new \cup news
  <2> DEFINE left == pass.left \ {s}
             new == IF evidence[s] = Nowhere THEN pass.new \cup news ELSE pass.new
  <2>1. left \in SUBSET (ForecastRoles \cup SignalItems) /\ new \in SUBSET ForecastRoles
    BY <1>1, <1>3, PassFields
  <2>2. pass' = [pass EXCEPT !.left = left] \/ pass' = [pass EXCEPT !.left = left, !.new = new]
    BY <1>4
  <2>3. evidence[s] # Nowhere => new = pass.new
    OBVIOUS
  <2>4. evidence[s] = Nowhere => new = pass.new \cup news /\ pass' = [pass EXCEPT !.left = left, !.new = new]
    BY <1>4
  <2> HIDE DEF left, new
  <2>5. /\ pass' \in Passes /\ pass'.kind = pass.kind /\ pass'.at = pass.at /\ pass'.role = pass.role
        /\ pass'.left = left /\ pass'.data = pass.data /\ pass'.new \in {pass.new, new}
    BY <1>1, <2>1, <2>2, PassFields DEF Passes
  <2>6. evidence[s] = Nowhere => pass'.new = new
    BY <1>1, <2>4, PassFields DEF Passes
  <2> QED BY <1>2, <2>3, <2>4, <2>5, <2>6 DEF left
<1>6. CASE evidence[s] # Nowhere
  <2>1. UNCHANGED <<evidence, changedAt>>
    BY <1>4, <1>6
  <2>2. ForecastTypeOK'
    BY <1>1, <1>2, <1>5, <2>1 DEF ForecastTypeOK
  <2>3. LeavesStored
    BY <1>2, <2>1 DEF LeavesStored, evidenceVars
  <2>4. Workings'
    <3>1. StagesAreKept'
      BY <1>1, <1>2, <1>5, <2>1 DEF StagesAreKept, Enough
    <3>2. BuildsAreCounted' /\ SignalsAreKept'
      BY <1>1, <1>2, <1>5, <2>1 DEF BuildsAreCounted, SignalsAreKept
    <3>3. PageIsStored'
      BY <1>1, <1>2, <1>5, <1>6, <2>1 DEF PageIsStored
    <3> QED BY <2>2, <3>1, <3>2, <3>3 DEF Workings
  <2>5. ASSUME NEW r \in ForecastRoles PROVE RoleIsKept(r)'
    <3>1. (Pending(r)' <=> Pending(r)) /\ LoadedIsVisible(r)' /\ RegenerationCovers(r)'
      BY <1>2, <1>5, <1>6 DEF Pending, LoadedIsVisible, RegenerationCovers
    <3>2. forecastSpent'.faults >= forecastSpent.faults
      BY <1>1, <1>2 DEF ForecastTypeOK
    <3> QED BY <1>2, <2>2, <2>3, <3>1, <3>2, PassMoves
  <2> QED BY <2>4, <2>5 DEF ForecastInv
<1>7. CASE evidence[s] = Nowhere
  <2>1. evidence' = [evidence EXCEPT ![s] = to] /\ pass'.new = pass.new \cup news
    BY <1>4, <1>5, <1>7
  <2>2. /\ changedAt' \in [ForecastRoles -> Nat]
        /\ \A r \in ForecastRoles : changedAt'[r] = IF r = to THEN time ELSE changedAt[r]
    BY <1>1, <1>4, <1>7, StampIs
  <2>3. evidence' \in [Items -> Places] /\ evidence \in [Items -> Places]
    BY <1>1, <1>2, <1>3, <2>1 DEF ForecastTypeOK, Places
  <2>4. ForecastTypeOK'
    BY <1>1, <1>2, <1>5, <2>2, <2>3 DEF ForecastTypeOK
  <2>5. Workings'
    <3>1. to # Nowhere
      BY <1>3, ForecastConstants
    <3>2. StagesAreKept'
      BY <1>1, <1>2, <1>5, <2>1, <2>3, ForecastConstants DEF StagesAreKept, Enough
    <3>3. BuildsAreCounted'
      BY <1>1, <1>2, <1>5 DEF BuildsAreCounted
    <3>4. SignalsAreKept'
      BY <1>1, <1>2, <2>1, <2>3, <3>1 DEF SignalsAreKept
    <3>5. PageIsStored'
      BY <1>1, <1>2, <1>5, <2>1, <2>3, <3>1 DEF PageIsStored
    <3> QED BY <2>4, <3>2, <3>3, <3>4, <3>5 DEF Workings
  <2>6. time \in Nat /\ cursor \in Int /\ cursor < time /\ forecastSpent.faults \in Nat
    BY <1>1 DEF ForecastTypeOK, StagesAreKept
  <2>7. ASSUME NEW r \in ForecastRoles, r # to PROVE RoleIsKept(r)'
    <3>1. RoleIsKept(r)
      BY DEF ForecastInv
    <3>2. LoadedIsVisible(r)' /\ RegenerationCovers(r)'
      BY <1>5 DEF LoadedIsVisible, RegenerationCovers
    <3>3. (Unchanged(r)' <=> Unchanged(r)) /\ changedAt'[r] = changedAt[r]
      BY <1>2, <2>2, <2>7 DEF Unchanged, Unmoved
    <3>4. Pending(r)' <=> Pending(r) \/ r \in news
      BY <1>2, <1>5, <2>1, <2>7, ForecastConstants DEF Pending
    <3>5. CASE to = Everyone
      <4>1. OfTheCompany'
        BY <1>2, <2>1, <2>3, <3>5 DEF OfTheCompany
      <4>2. NewsIsStamped(r)'
        BY <4>1 DEF NewsIsStamped
      <4>3. Ripe(r)' <=> Ripe(r)
        <5>1. \A e \in OpeningItems : e \in Visible(r)' <=> e \in Visible(r)
          BY <2>1, <2>3, ForecastConstants DEF Visible, Items
        <5> QED BY <5>1 DEF Ripe, Enough
      <4>4. HasForecast(r)' <=> HasForecast(r)
        BY <1>2, <4>3 DEF HasForecast, Current
      <4>5. Unchanged(r) => r \in news
        BY <3>5 DEF Unchanged, Unmoved, news
      <4>6. UnchangedIsCounted(r)'
        BY <3>1, <3>3, <3>4, <4>4, <4>5 DEF RoleIsKept, UnchangedIsCounted
      <4> QED BY <3>2, <4>2, <4>6 DEF RoleIsKept
    <3>6. CASE to # Everyone
      <4>1. Visible(r)' = Visible(r)
        BY <1>2, <1>7, <2>1, <2>3, <2>7, <3>6, ForecastConstants DEF Visible
      <4>2. Ripe(r)' <=> Ripe(r)
        BY <4>1 DEF Ripe, Enough
      <4>3. OfTheCompany' <=> OfTheCompany
        BY <1>2, <1>7, <2>1, <2>3, <3>6, ForecastConstants DEF OfTheCompany
      <4>4. r \notin news
        BY <2>7, <3>6 DEF news
      <4>5. (HasForecast(r)' <=> HasForecast(r)) /\ (Counted(r)' <=> Counted(r)) /\ (CompanyCounts' <=> CompanyCounts)
        BY <1>2, <4>1, <4>2, <4>3 DEF HasForecast, Counted, CompanyCounts, Current
      <4>6. NewsIsStamped(r)'
        BY <1>2, <3>1, <3>3, <3>4, <4>3, <4>4 DEF RoleIsKept, NewsIsStamped
      <4>7. UnchangedIsCounted(r)'
        BY <1>2, <3>1, <3>3, <3>4, <4>4, <4>5 DEF RoleIsKept, UnchangedIsCounted
      <4> QED BY <3>2, <4>6, <4>7 DEF RoleIsKept
    <3> QED BY <3>5, <3>6
  <2>8. ASSUME NEW r \in ForecastRoles, r = to PROVE RoleIsKept(r)'
    <3>1. changedAt'[r] = time
      BY <2>2, <2>8
    <3>2. NewsIsStamped(r)'
      BY <1>2, <2>6, <3>1 DEF NewsIsStamped
    <3>3. changedAt'[r] > IF pass'.kind = "regenerate" THEN pass'.started ELSE cursor'
      BY <1>2, <1>5, <2>6, <3>1
    <3> QED BY <1>1, <2>4, <2>5, <3>2, <3>3, RoleChanged DEF Workings
  <2> QED BY <2>5, <2>7, <2>8 DEF ForecastInv
<1> QED BY <1>6, <1>7

\* The pass covers every role that has not changed.
LEMMA UnchangedIsCovered ==
    ASSUME ForecastInv, NEW r \in ForecastRoles, Unchanged(r)
    PROVE  PassCovers(r)
<1>1. changedAt[r] \in Nat /\ cursor \in Int /\ pass.started \in Nat
  BY PassFields DEF ForecastInv, Workings, ForecastTypeOK
<1> QED BY <1>1 DEF ForecastInv, Workings, StagesAreKept, Unchanged, PassCovers, Unmoved

\* What either pass does of the role it computed leaves the others, and the role it covers counted.
LEMMA RoleComputed ==
    ASSUME ForecastInv, NEW q \in ForecastRoles, q = pass.role, pass.at = "roles", pass.kind # "none",
           pass' = Done, Worked, UNCHANGED <<builds, forecastSpent>>,
           version' \in [ForecastRoles -> Versions], refusedAt' \in [ForecastRoles -> Nat],
           \A r \in ForecastRoles \ {q} : version'[r] = version[r] /\ refusedAt'[r] = refusedAt[r],
           version'[q].n <= builds[q], refusedAt'[q] <= builds[q],
           overtaken' \in {overtaken, overtaken \ {q}},
           PassCovers(q) => HasForecast(q)' /\ (q \notin overtaken' => Counted(q)')
    PROVE  ForecastInv'
<1> USE DEF Worked, evidenceVars, Done
<1>1. ForecastTypeOK /\ StagesAreKept /\ BuildsAreCounted
  BY DEF ForecastInv, Workings
<1>2. /\ pass' \in Passes /\ pass'.kind = pass.kind /\ pass'.at = pass.at /\ pass'.started = pass.started
      /\ pass'.role = Nowhere /\ pass'.left = pass.left /\ pass'.data = pass.data /\ pass'.failed = pass.failed
      /\ pass'.new = pass.new
  BY <1>1, PassFields DEF Passes
<1>3. ForecastTypeOK'
  BY <1>1, <1>2 DEF ForecastTypeOK
<1>4. Workings'
  <2>1. StagesAreKept'
    BY <1>1, <1>2 DEF StagesAreKept, Enough
  <2>2. BuildsAreCounted'
    BY <1>1, <1>2 DEF BuildsAreCounted
  <2>3. SignalsAreKept' /\ PageIsStored'
    BY <1>2 DEF ForecastInv, Workings, SignalsAreKept, PageIsStored
  <2> QED BY <1>3, <2>1, <2>2, <2>3 DEF Workings
<1>5. ASSUME NEW r \in ForecastRoles
      PROVE  /\ Visible(r)' = Visible(r) /\ (Ripe(r)' <=> Ripe(r)) /\ (OfTheCompany' <=> OfTheCompany)
             /\ (PassCovers(r)' <=> PassCovers(r)) /\ (Unchanged(r)' <=> Unchanged(r))
             /\ (CompanyCounts' <=> CompanyCounts)
  BY <1>2, SameEvidence DEF PassCovers, Unchanged, Unmoved, CompanyCounts
<1>6. ASSUME NEW r \in ForecastRoles, r # q PROVE RoleIsKept(r)'
  <2>1. (HasForecast(r)' <=> HasForecast(r)) /\ (Counted(r)' <=> Counted(r)) /\ (r \in overtaken' <=> r \in overtaken)
    BY <1>5, <1>6 DEF HasForecast, Counted, Current
  <2>2. Pending(r)' <=> Pending(r)
    BY <1>2, <1>6, ForecastConstants DEF Pending
  <2>3. UnchangedIsCounted(r)' /\ NewsIsStamped(r)'
    BY <1>5, <2>1, <2>2 DEF ForecastInv, RoleIsKept, UnchangedIsCounted, NewsIsStamped
  <2>4. LoadedIsVisible(r)'
    BY <1>2, <1>5, <1>6, ForecastConstants DEF ForecastInv, RoleIsKept, LoadedIsVisible
  <2>5. RegenerationCovers(r)'
    BY <1>2, <1>5, <1>6, <2>1, ForecastConstants DEF ForecastInv, RoleIsKept, RegenerationCovers
  <2> QED BY <2>3, <2>4, <2>5 DEF RoleIsKept
<1>7. RoleIsKept(q)'
  <2>1. Pending(q)' => Pending(q)
    BY <1>2, ForecastConstants DEF Pending
  <2>2. UnchangedIsCounted(q)'
    BY <1>5, UnchangedIsCovered DEF UnchangedIsCounted
  <2>3. NewsIsStamped(q)'
    BY <1>5, <2>1 DEF ForecastInv, RoleIsKept, NewsIsStamped
  <2>4. LoadedIsVisible(q)'
    BY <1>2, <1>5, ForecastConstants DEF ForecastInv, RoleIsKept, LoadedIsVisible
  <2>5. RegenerationCovers(q)'
    BY <1>2, <1>5 DEF RegenerationCovers
  <2> QED BY <2>2, <2>3, <2>4, <2>5 DEF RoleIsKept
<1> QED BY <1>4, <1>6, <1>7 DEF ForecastInv

\* The role's forecast is computed from its evidence, and is saved, or one that stands for as much is.
LEMMA PassRole ==
    ASSUME ForecastInv, pass.role # Nowhere
    PROVE  /\ pass.role \in ForecastRoles /\ pass.at = "roles" /\ pass.kind # "none" /\ pass.n \in Nat
           /\ pass.data[pass.role] \in SUBSET Items
           /\ version[pass.role] \in Versions /\ version[pass.role].n \in Nat /\ refusedAt[pass.role] \in Nat
           /\ pass.n <= builds[pass.role] /\ refusedAt[pass.role] < pass.n
           /\ version[pass.role].n <= builds[pass.role] /\ builds[pass.role] \in Nat
BY PassFields, NothingAtWork
   DEF ForecastInv, Workings, StagesAreKept, BuildsAreCounted, ForecastTypeOK, Versions

\* A new version is the newest, unless one that was computed later is, and that one was seen to.
LEMMA SavingCounts ==
    ASSUME ForecastInv, NEW q \in ForecastRoles, q = pass.role, PassCovers(q), Enough(pass.data[q]),
           UNCHANGED <<evidence, refusedAt>>,
           version' = Saved(q, pass.data[q], pass.n),
           overtaken' = IF pass.n > version[q].n THEN overtaken \ {q} ELSE overtaken
    PROVE  HasForecast(q)' /\ (q \notin overtaken' => Counted(q)')
<1>0. pass.role # Nowhere /\ ForecastTypeOK
  BY ForecastConstants DEF ForecastInv, Workings
<1>1. pass.data[q] = Visible(q) /\ Ripe(q)
  BY <1>0, PassRole DEF ForecastInv, RoleIsKept, LoadedIsVisible, Ripe
<1>2. Visible(q)' = Visible(q) /\ (Ripe(q)' <=> Ripe(q))
  BY SameEvidence
<1>3. CASE pass.n > version[q].n
  <2>1. version'[q] = [inputs |-> pass.data[q], n |-> pass.n, stands |-> pass.data[q]]
    BY <1>0, <1>3, PassRole, SavedIs
  <2> QED BY <1>0, <1>1, <1>2, <2>1, PassRole DEF HasForecast, Counted, Current
<1>4. CASE ~(pass.n > version[q].n)
  <2>1. version'[q] = version[q]
    <3>1. PICK data \in SUBSET Items, n \in Nat : data = pass.data[q] /\ n = pass.n
      BY <1>0, PassRole
    <3>2. /\ n > version[q].n => Saved(q, data, n)[q] = [inputs |-> data, n |-> n, stands |-> data]
          /\ ~(n > version[q].n) => Saved(q, data, n)[q] = version[q]
      BY <1>0, SavedIs
    <3> QED BY <1>4, <3>1, <3>2
  <2>2. version[q].n >= pass.n /\ Current(q)
    BY <1>0, <1>4, PassRole DEF Current
  <2>3. q \notin overtaken => version[q].stands = Visible(q)
    BY <1>0, <2>2, PassRole DEF ForecastInv, RoleIsKept, LoadedIsVisible
  <2> QED BY <1>1, <1>2, <1>4, <2>1, <2>2, <2>3 DEF HasForecast, Counted, Current
<1> QED BY <1>3, <1>4

LEMMA PersistRecomputedKeeps ==
    ASSUME ForecastInv, PersistRecomputed
    PROVE  ForecastInv'
<1>1. PICK q \in ForecastRoles : q = pass.role
  BY PassRole DEF PersistRecomputed
<1> DEFINE inputs == pass.data[q]
<1>2. /\ pass.kind = "signals" /\ pass.role # Nowhere /\ pass' = Done /\ UNCHANGED <<builds, refusedAt, forecastSpent>>
      /\ Worked
  BY DEF PersistRecomputed, Goes
<1>3. \/ ~Enough(inputs) /\ UNCHANGED <<version, overtaken>>
      \/ /\ Enough(inputs)
         /\ version[q].n # 0 /\ version[q].inputs = inputs
         /\ version' = [version EXCEPT ![q].stands = inputs] /\ overtaken' = overtaken \ {q}
      \/ /\ Enough(inputs)
         /\ version' = Saved(q, inputs, pass.n)
         /\ overtaken' = IF pass.n > version[q].n THEN overtaken \ {q} ELSE overtaken
  BY <1>1 DEF PersistRecomputed
<1>4. ForecastTypeOK /\ pass.at = "roles"
  BY <1>2, PassRole DEF ForecastInv, Workings
<1>5. PassCovers(q) => Unchanged(q) /\ inputs = Visible(q) /\ HasForecast(q)
  BY <1>1, <1>2, <1>4 DEF ForecastInv, RoleIsKept, LoadedIsVisible, UnchangedIsCounted, PassCovers, Unchanged
<1>6. Visible(q)' = Visible(q) /\ (Ripe(q)' <=> Ripe(q)) /\ evidence' = evidence
  BY <1>2, SameEvidence DEF Worked, evidenceVars
<1>7. CASE ~Enough(inputs) /\ UNCHANGED <<version, overtaken>>
  <2>1. PassCovers(q) => HasForecast(q)' /\ Counted(q)'
    BY <1>2, <1>5, <1>6, <1>7 DEF HasForecast, Counted, Current, Ripe
  <2> QED BY <1>1, <1>2, <1>4, <1>7, <2>1, PassRole, RoleComputed DEF ForecastTypeOK
<1>8. CASE /\ Enough(inputs)
           /\ version[q].n # 0 /\ version[q].inputs = inputs
           /\ version' = [version EXCEPT ![q].stands = inputs] /\ overtaken' = overtaken \ {q}
  <2>1. /\ version' \in [ForecastRoles -> Versions] /\ version'[q].n = version[q].n /\ version'[q].stands = inputs
        /\ \A r \in ForecastRoles \ {q} : version'[r] = version[r]
    BY <1>1, <1>2, <1>4, <1>8, PassRole DEF ForecastTypeOK, Versions
  <2>2. PassCovers(q) => HasForecast(q)' /\ Counted(q)'
    BY <1>2, <1>5, <1>6, <1>8, <2>1 DEF HasForecast, Counted, Current, Ripe
  <2> QED BY <1>1, <1>2, <1>4, <1>8, <2>1, <2>2, PassRole, RoleComputed DEF ForecastTypeOK
<1>9. CASE /\ Enough(inputs)
           /\ version' = Saved(q, inputs, pass.n)
           /\ overtaken' = IF pass.n > version[q].n THEN overtaken \ {q} ELSE overtaken
  <2>1. /\ version' \in [ForecastRoles -> Versions] /\ version'[q].n \in {version[q].n, pass.n}
        /\ \A r \in ForecastRoles \ {q} : version'[r] = version[r]
    <3>1. PICK data \in SUBSET Items, n \in Nat : data = inputs /\ n = pass.n
      BY <1>1, <1>2, PassRole
    <3>2. version' = Saved(q, data, n)
      BY <1>9, <3>1
    <3>3. /\ version' \in [ForecastRoles -> Versions]
          /\ n > version[q].n => version'[q].n = n
          /\ ~(n > version[q].n) => version'[q] = version[q]
          /\ \A r \in ForecastRoles \ {q} : version'[r] = version[r]
      <4>1. /\ Saved(q, data, n) \in [ForecastRoles -> Versions]
            /\ \A r \in ForecastRoles \ {q} : Saved(q, data, n)[r] = version[r]
            /\ n > version[q].n => Saved(q, data, n)[q] = [inputs |-> data, n |-> n, stands |-> data]
            /\ ~(n > version[q].n) => Saved(q, data, n)[q] = version[q]
        BY <1>4, SavedIs
      <4> QED BY <3>2, <4>1
    <3> QED BY <3>1, <3>3
  <2>2. PassCovers(q) => HasForecast(q)' /\ (q \notin overtaken' => Counted(q)')
    BY <1>1, <1>2, <1>6, <1>9, SavingCounts
  <2> QED BY <1>1, <1>2, <1>4, <1>9, <2>1, <2>2, PassRole, RoleComputed DEF ForecastTypeOK
<1> QED BY <1>3, <1>7, <1>8, <1>9

LEMMA RegenerateRoleKeeps ==
    ASSUME ForecastInv, RegenerateRole
    PROVE  ForecastInv'
<1>1. PICK q \in ForecastRoles : q = pass.role
  BY PassRole DEF RegenerateRole
<1> DEFINE inputs == pass.data[q]
<1>2. /\ pass.kind = "regenerate" /\ pass.role # Nowhere /\ pass' = Done /\ UNCHANGED <<builds, forecastSpent>>
      /\ Worked
  BY DEF RegenerateRole, Goes
<1>3. \/ /\ ~Enough(inputs)
         /\ refusedAt' = [refusedAt EXCEPT ![q] = pass.n] /\ UNCHANGED version
         /\ overtaken' = IF pass.n >= version[q].n THEN overtaken \ {q} ELSE overtaken
      \/ /\ Enough(inputs) /\ UNCHANGED refusedAt
         /\ Current(q) /\ version' = [version EXCEPT ![q].stands = inputs] /\ overtaken' = overtaken \ {q}
      \/ /\ Enough(inputs) /\ UNCHANGED refusedAt
         /\ version' = Saved(q, inputs, pass.n)
         /\ overtaken' = IF pass.n > version[q].n THEN overtaken \ {q} ELSE overtaken
  BY <1>1 DEF RegenerateRole
<1>4. ForecastTypeOK /\ pass.at = "roles"
  BY <1>2, PassRole DEF ForecastInv, Workings
<1>5. PassCovers(q) => /\ inputs = Visible(q)
                       /\ version[q].n >= pass.n /\ q \notin overtaken => Ripe(q)
  BY <1>1, <1>4 DEF ForecastInv, RoleIsKept, LoadedIsVisible
<1>6. Visible(q)' = Visible(q) /\ (Ripe(q)' <=> Ripe(q)) /\ evidence' = evidence
  BY <1>2, SameEvidence DEF Worked, evidenceVars
<1>7. CASE /\ ~Enough(inputs)
           /\ refusedAt' = [refusedAt EXCEPT ![q] = pass.n] /\ UNCHANGED version
           /\ overtaken' = IF pass.n >= version[q].n THEN overtaken \ {q} ELSE overtaken
  <2>1. /\ refusedAt' \in [ForecastRoles -> Nat] /\ refusedAt'[q] = pass.n
        /\ \A r \in ForecastRoles \ {q} : refusedAt'[r] = refusedAt[r]
    BY <1>1, <1>2, <1>4, <1>7, PassRole DEF ForecastTypeOK
  <2>2. PassCovers(q) => HasForecast(q)' /\ Counted(q)'
    <3>1. PassCovers(q) => ~Ripe(q) /\ (version[q].n >= pass.n => q \in overtaken)
      BY <1>5, <1>7 DEF Ripe
    <3>2. PassCovers(q) /\ q \notin overtaken' => ~Current(q)'
      BY <1>1, <1>2, <1>7, <2>1, <3>1, PassRole DEF Current
    <3> QED BY <1>6, <3>1, <3>2 DEF HasForecast, Counted
  <2> QED BY <1>1, <1>2, <1>4, <1>7, <2>1, <2>2, PassRole, RoleComputed DEF ForecastTypeOK
<1>8. CASE /\ Enough(inputs) /\ UNCHANGED refusedAt
           /\ Current(q) /\ version' = [version EXCEPT ![q].stands = inputs] /\ overtaken' = overtaken \ {q}
  <2>1. /\ version' \in [ForecastRoles -> Versions] /\ version'[q].n = version[q].n /\ version'[q].stands = inputs
        /\ \A r \in ForecastRoles \ {q} : version'[r] = version[r]
    BY <1>1, <1>2, <1>4, <1>8, PassRole DEF ForecastTypeOK, Versions
  <2>2. PassCovers(q) => HasForecast(q)' /\ Counted(q)'
    BY <1>2, <1>5, <1>6, <1>8, <2>1 DEF HasForecast, Counted, Current, Ripe
  <2> QED BY <1>1, <1>2, <1>4, <1>8, <2>1, <2>2, PassRole, RoleComputed DEF ForecastTypeOK
<1>9. CASE /\ Enough(inputs) /\ UNCHANGED refusedAt
           /\ version' = Saved(q, inputs, pass.n)
           /\ overtaken' = IF pass.n > version[q].n THEN overtaken \ {q} ELSE overtaken
  <2>1. /\ version' \in [ForecastRoles -> Versions] /\ version'[q].n \in {version[q].n, pass.n}
        /\ \A r \in ForecastRoles \ {q} : version'[r] = version[r]
    <3>1. PICK data \in SUBSET Items, n \in Nat : data = inputs /\ n = pass.n
      BY <1>1, <1>2, PassRole
    <3>2. version' = Saved(q, data, n)
      BY <1>9, <3>1
    <3>3. /\ version' \in [ForecastRoles -> Versions]
          /\ n > version[q].n => version'[q].n = n
          /\ ~(n > version[q].n) => version'[q] = version[q]
          /\ \A r \in ForecastRoles \ {q} : version'[r] = version[r]
      <4>1. /\ Saved(q, data, n) \in [ForecastRoles -> Versions]
            /\ \A r \in ForecastRoles \ {q} : Saved(q, data, n)[r] = version[r]
            /\ n > version[q].n => Saved(q, data, n)[q] = [inputs |-> data, n |-> n, stands |-> data]
            /\ ~(n > version[q].n) => Saved(q, data, n)[q] = version[q]
        BY <1>4, SavedIs
      <4> QED BY <3>2, <4>1
    <3> QED BY <3>1, <3>3
  <2>2. PassCovers(q) => HasForecast(q)' /\ (q \notin overtaken' => Counted(q)')
    BY <1>1, <1>2, <1>6, <1>9, SavingCounts
  <2> QED BY <1>1, <1>2, <1>4, <1>9, <2>1, <2>2, PassRole, RoleComputed DEF ForecastTypeOK
<1> QED BY <1>3, <1>7, <1>8, <1>9

-----------------------------------------------------------------------------
LEMMA ForecastsBegin == ForecastsInit => ForecastInv
<1> SUFFICES ASSUME ForecastsInit PROVE ForecastInv
  OBVIOUS
<1> USE DEF ForecastsInit
<1>1. ForecastTypeOK
  <2>1. evidence \in [Items -> Places] /\ version \in [ForecastRoles -> Versions]
    BY DEF Places, Versions, NoForecast
  <2>2. forecastSpent \in [faults : Nat, questions : Nat, moves : Nat]
    OBVIOUS
  <2> QED BY <2>1, <2>2, NothingAtWork, NoMoveOrQuestion DEF ForecastTypeOK
<1>2. StagesAreKept
  BY NothingAtWork DEF StagesAreKept
<1>3. BuildsAreCounted
  BY NothingAtWork DEF BuildsAreCounted, NoForecast
<1>4. PageIsStored /\ SignalsAreKept
  BY NothingAtWork DEF PageIsStored, SignalsAreKept
<1>5. ASSUME NEW r \in ForecastRoles PROVE RoleIsKept(r)
  <2>1. ~Unchanged(r) /\ ~Pending(r)
    BY NothingAtWork DEF Unchanged, Unmoved, Pending
  <2> QED BY <2>1, NothingAtWork DEF RoleIsKept, UnchangedIsCounted, NewsIsStamped, LoadedIsVisible, RegenerationCovers
<1> QED BY <1>1, <1>2, <1>3, <1>4, <1>5 DEF ForecastInv, Workings

LEMMA ForecastsStep == ForecastInv /\ [ForecastsNext]_forecastVars => ForecastInv'
<1> SUFFICES ASSUME ForecastInv, [ForecastsNext]_forecastVars PROVE ForecastInv'
  OBVIOUS
<1>1. CASE UNCHANGED forecastVars
  BY <1>1, StutterKeeps
<1>2. ASSUME NEW s \in SignalItems, PageChanges(s) \/ StoreSignal(s) PROVE ForecastInv'
  BY <1>2, PageChangesKeeps, StoreSignalKeeps
<1>3. ASSUME NEW e \in OpeningItems, NEW r \in ForecastRoles, StoreOpening(e, r) PROVE ForecastInv'
  BY <1>3, StoreOpeningKeeps
<1>4. ASSUME NEW e \in OpeningItems, NEW r \in ForecastRoles \cup {Nowhere}, StartMove(e, r) PROVE ForecastInv'
  BY <1>4, StartMoveKeeps
<1>5. CASE CommitMove
  BY <1>5, CommitMoveKeeps
<1>6. ASSUME NEW r \in ForecastRoles, Reclassify(r) \/ BuildForecast(r) \/ ReadForForecast(r) PROVE ForecastInv'
  BY <1>6, ReclassifyKeeps, BuildForecastKeeps, ReadForForecastKeeps
<1>7. CASE StartSignals \/ SaveSourceState \/ PersistRecomputed \/ EndSignals
  BY <1>7, StartSignalsKeeps, SaveSourceStateKeeps, PersistRecomputedKeeps, EndSignalsKeeps
<1>8. CASE StartRegeneration \/ ReadChangedRoles \/ LoadEvidence
  BY <1>8, StartRegenerationKeeps, ReadChangedRolesKeeps, LoadEvidenceKeeps
<1>9. CASE RegenerateRole \/ RoleFails \/ EndRegeneration
  BY <1>9, RegenerateRoleKeeps, RoleFailsKeeps, EndRegenerationKeeps
<1>10. CASE PassStops \/ AgentBuilds \/ AgentSaves
  BY <1>10, PassStopsKeeps, AgentBuildsKeeps, AgentSavesKeeps
<1> QED BY <1>1, <1>2, <1>3, <1>4, <1>5, <1>6, <1>7, <1>8, <1>9, <1>10 DEF ForecastsNext

\* Where the signals pass does not matter, no role that had not changed has news it has not computed.
LEMMA ForecastInvSuffices == ForecastInv => EvidenceReachesForecasts
<1> SUFFICES ASSUME ForecastInv PROVE ForecastsKeepUp
  BY DEF ForecastInv, Workings, EvidenceReachesForecasts
<1> SUFFICES ASSUME NEW r \in inScope, changedAt[r] <= cursor, r \notin overtaken \cup late,
                    OfTheCompany => forecastSpent.faults = 0 /\ pass.kind # "signals"
             PROVE  IF Enough(Visible(r)) THEN Current(r) /\ version[r].stands = Visible(r) ELSE ~Current(r)
  BY DEF ForecastsKeepUp, OfTheCompany
<1>1. ForecastTypeOK /\ r \in ForecastRoles
  BY DEF ForecastInv, Workings, ForecastTypeOK
<1>2. RoleIsKept(r) /\ Unchanged(r) /\ CompanyCounts /\ changedAt[r] \in Nat /\ cursor \in Int
  BY <1>1 DEF ForecastInv, ForecastTypeOK, Unchanged, Unmoved, CompanyCounts
<1>3. ~Pending(r)
  BY <1>2 DEF RoleIsKept, NewsIsStamped, Pending
<1>4. HasForecast(r) /\ Counted(r)
  BY <1>2, <1>3 DEF RoleIsKept, UnchangedIsCounted
<1> QED BY <1>4 DEF HasForecast, Counted, Ripe

\* The stored evidence and forecasts, the passes and the agent's question are what the code takes them for.
THEOREM ForecastTypeCorrect == ForecastsSpec => []ForecastTypeOK
<1>1. ForecastInv => ForecastTypeOK
  BY DEF ForecastInv, Workings
<1> QED BY <1>1, ForecastsBegin, ForecastsStep, PTL DEF ForecastsSpec

(* What a source's state remembers is stored, and a role in scope none of whose changes
   is newer than the cursor has exactly the forecast its evidence makes (signals.py,
   cli.regenerate_changed_forecasts, agent.generate_forecast): for any roles, signals
   and openings, and however many passes, faults, questions and moves there are. *)
THEOREM EvidenceIsCounted == ForecastsSpec => []EvidenceReachesForecasts
BY ForecastsBegin, ForecastsStep, ForecastInvSuffices, PTL DEF ForecastsSpec

-----------------------------------------------------------------------------
(* The digests. *)
-----------------------------------------------------------------------------
(* The strengthening.  What a request knows from its calls so far. *)

\* A request past its access step has read an address.
AddressKnown == \A r \in Requests : pc[r] \notin {"idle", "access", "crashed"} => mem[r].to \in Addresses

\* A request past its create step is about a delivery that exists; none is ever deleted.
RowExists ==
    \A r \in Requests : pc[r] \in {"existing", "reset"} \/ Working(r) => row[Of(r)].status # "none"

\* The check constraint holds of every delivery.
RowsChecked == \A f \in Fingerprints : RowCheck(row[f])

\* The message a request is about to record is in the inbox it was sent to.
ConfirmIsOfAMessage ==
    \A r \in Requests :
        pc[r] = "confirm" => [digest |-> Of(r), to |-> mem[r].to, id |-> mem[r].message] \in mailbox

Sound ==
    /\ TypeOK
    /\ AddressKnown
    /\ RowExists
    /\ RowsChecked
    /\ ConfirmIsOfAMessage
    /\ IsFiniteSet(mailbox)

LEMMA SoundInit == Init => Sound
<1>. SUFFICES ASSUME Init PROVE Sound
  OBVIOUS
<1>. USE DigestConstants DEF Init
<1>1. mem \in [Requests -> Locals]
  BY DEF Locals
<1>2. TypeOK
  BY <1>1 DEF TypeOK, Rows, Stages, Answers
<1>3. RowsChecked
  BY DEF RowsChecked, RowCheck, NoRow
<1>. QED
  BY <1>2, <1>3, FS_EmptySet DEF Sound, AddressKnown, RowExists, Working, ConfirmIsOfAMessage

-----------------------------------------------------------------------------
(* What the operators of the model keep. *)

StoredRows == [status : {"sending", "sent", "failed"}, to : Addresses, message : 0..MaxMessages]

\* A delivery that is not absent is a row of the table.
LEMMA ExistingRow ==
    ASSUME NEW x \in Rows
    PROVE  IF x.status = "none" THEN x = NoRow ELSE x \in StoredRows
BY DEF Rows, NoRow, StoredRows

\* Replacing one row keeps the type, and the other rows.
LEMMA SetRowType ==
    ASSUME TypeOK, NEW f \in Fingerprints, NEW new \in StoredRows, SetRow(f, new)
    PROVE  /\ row' \in [Fingerprints -> Rows]
           /\ row'[f] = new /\ new.status # "none"
           /\ \A g \in Fingerprints : g # f => row'[g] = row[g]
BY DEF TypeOK, SetRow, Rows, StoredRows

LEMMA HoldType ==
    ASSUME TypeOK, NEW r \in Requests, NEW l \in Locals, Hold(r, l)
    PROVE  mem' \in [Requests -> Locals]
BY DEF TypeOK, Hold

\* What a request forgets when it ends.
LEMMA ForgetType ==
    ASSUME NEW l \in Locals
    PROVE  /\ [l EXCEPT !.to = NoAddress, !.message = 0] \in Locals
           /\ [l EXCEPT !.to = NoAddress, !.message = 0].digest = l.digest
<1>1. 0 \in 0..MaxMessages
  BY DigestConstants
<1>2. [l EXCEPT !.to = NoAddress, !.message = 0] \in Locals
  BY <1>1 DEF Locals
<1>3. [l EXCEPT !.to = NoAddress, !.message = 0].digest = l.digest
  BY DEF Locals
<1>. QED BY <1>2, <1>3

\* A request that ends keeps its digest and forgets the rest.
LEMMA FinishType ==
    ASSUME TypeOK, NEW r \in Requests, NEW what \in Answers, Finish(r, what)
    PROVE  /\ pc' \in [Requests -> Stages] /\ pc' = [pc EXCEPT ![r] = "idle"]
           /\ mem' \in [Requests -> Locals]
           /\ answer' \in [Requests -> Answers]
           /\ mem'[r].digest = mem[r].digest
           /\ \A q \in Requests : q # r => mem'[q] = mem[q]
<1>. DEFINE l == [mem[r] EXCEPT !.to = NoAddress, !.message = 0]
<1>1. l \in Locals /\ l.digest = mem[r].digest
  BY ForgetType DEF TypeOK
<1>2. mem' = [mem EXCEPT ![r] = l]
  BY DEF Finish, Hold
<1>. HIDE DEF l
<1>. QED BY <1>1, <1>2 DEF TypeOK, Finish, Goto, Stages

LEMMA FaultType ==
    ASSUME TypeOK, Fault \/ NoFault
    PROVE  faults' \in 0..MaxFaults /\ oneAtATime' \in BOOLEAN
BY DigestConstants DEF TypeOK, Fault, NoFault

\* Gmail gives each message an id of its own.
LEMMA AcceptType ==
    ASSUME TypeOK, IsFiniteSet(mailbox), NEW r \in Requests, mem[r].to \in Addresses, Accept(r)
    PROVE  /\ Cardinality(mailbox) + 1 \in MessageIds
           /\ mailbox' \subseteq [digest : Fingerprints, to : Addresses, id : MessageIds]
           /\ IsFiniteSet(mailbox')
           /\ [digest |-> Of(r), to |-> mem[r].to, id |-> Cardinality(mailbox) + 1] \in mailbox'
           /\ mailbox \subseteq mailbox'
<1>1. Cardinality(mailbox) \in Nat
  BY FS_CardinalityType
<1>2. Cardinality(mailbox) + 1 \in MessageIds
  BY <1>1, DigestConstants DEF Accept, MessageIds
<1>3. [digest |-> Of(r), to |-> mem[r].to, id |-> Cardinality(mailbox) + 1]
        \in [digest : Fingerprints, to : Addresses, id : MessageIds]
  BY <1>2 DEF TypeOK, Locals, Of
<1>. QED
  BY <1>2, <1>3, FS_AddElement DEF Accept, TypeOK

LEMMA SoundStep == Sound /\ [Next]_vars => Sound'
<1>. SUFFICES ASSUME Sound, [Next]_vars PROVE Sound'
  OBVIOUS
<1>. USE DigestConstants DEF Sound
<1>d. \A r \in Requests : Of(r) \in Fingerprints
  BY DEF TypeOK, Locals, Of
<1>e. \A r \in Requests : row[Of(r)].status # "none" => row[Of(r)] \in StoredRows
  BY <1>d, ExistingRow DEF TypeOK
<1>1. ASSUME NEW r \in Requests, Build(r) PROVE Sound'
  <2>. USE <1>1 DEF Build, Goto, Hold, Of, tables
  <2>1. TypeOK'
    BY FaultType DEF TypeOK, Stages, Answers, Locals
  <2>2. AddressKnown' /\ RowExists' /\ RowsChecked' /\ ConfirmIsOfAMessage'
    BY DEF TypeOK, AddressKnown, RowExists, Working, RowsChecked, RowCheck, ConfirmIsOfAMessage, Locals
  <2>. QED BY <2>1, <2>2
<1>2. ASSUME NEW r \in Requests, GetGmailAccess(r) PROVE Sound'
  <2>. USE <1>2 DEF GetGmailAccess, Goto, Of, tables
  <2>1. TypeOK'
    <3>1. CASE connection = NoAddress
      BY <3>1, FinishType, FaultType DEF TypeOK, Answers
    <3>2. CASE connection # NoAddress
      <4>1. [mem[r] EXCEPT !.to = connection] \in Locals
        BY DEF TypeOK, Locals
      <4>. QED BY <3>2, <4>1, HoldType, FaultType DEF TypeOK, Stages
    <3>. QED BY <3>1, <3>2
  <2>2. \/ /\ pc' = [pc EXCEPT ![r] = "idle"]
           /\ \A q \in Requests : mem'[q].digest = mem[q].digest /\ (q # r => mem'[q] = mem[q])
        \/ /\ pc' = [pc EXCEPT ![r] = "create"]
           /\ \A q \in Requests : mem'[q].digest = mem[q].digest /\ (q # r => mem'[q] = mem[q])
           /\ mem'[r].to \in Addresses
    <3>1. CASE connection = NoAddress
      BY <3>1, FinishType DEF Answers
    <3>2. CASE connection # NoAddress
      BY <3>2 DEF TypeOK, Locals, Hold
    <3>. QED BY <3>1, <3>2
  <2>3. AddressKnown' /\ RowExists' /\ RowsChecked' /\ ConfirmIsOfAMessage'
    <3>1. AddressKnown'
      BY <2>2 DEF TypeOK, AddressKnown
    <3>2. RowExists' /\ RowsChecked'
      BY <2>2 DEF TypeOK, RowExists, Working, RowsChecked, RowCheck
    <3>3. ConfirmIsOfAMessage'
      BY <2>2 DEF TypeOK, ConfirmIsOfAMessage
    <3>. QED BY <3>1, <3>2, <3>3
  <2>. QED BY <2>1, <2>3
<1>3. ASSUME NEW r \in Requests, Create(r) PROVE Sound'
  <2>. USE <1>3 DEF Create, Goto, tables
  <2>1. CASE row[Of(r)].status = "none"
    <3>. DEFINE new == [status |-> "sending", to |-> mem[r].to, message |-> 0]
    <3>1. new \in StoredRows /\ RowCheck(new)
      BY DEF AddressKnown, StoredRows, RowCheck
    <3>2. /\ row' \in [Fingerprints -> Rows]
          /\ row'[Of(r)] = new /\ new.status # "none"
          /\ \A g \in Fingerprints : g # Of(r) => row'[g] = row[g]
      <4>1. SetRow(Of(r), new)
        BY <2>1
      <4>. HIDE DEF new
      <4>. QED BY <1>d, <3>1, <4>1, SetRowType
    <3>. HIDE DEF new
    <3>3. TypeOK'
      BY <2>1, <3>2, FaultType DEF TypeOK, Stages
    <3>4. AddressKnown' /\ RowExists' /\ ConfirmIsOfAMessage'
      BY <1>d, <2>1, <3>2 DEF TypeOK, AddressKnown, RowExists, Working, ConfirmIsOfAMessage, Of
    <3>5. RowsChecked'
      BY <3>1, <3>2 DEF RowsChecked, RowCheck
    <3>. QED BY <3>3, <3>4, <3>5
  <2>2. CASE row[Of(r)].status # "none"
    <3>3. TypeOK'
      BY <2>2, FaultType DEF TypeOK, Stages
    <3>4. AddressKnown' /\ RowExists' /\ RowsChecked' /\ ConfirmIsOfAMessage'
      BY <2>2 DEF TypeOK, AddressKnown, RowExists, Working, RowsChecked, RowCheck, ConfirmIsOfAMessage, Of
    <3>. QED BY <3>3, <3>4, <2>2
  <2>. QED BY <2>1, <2>2
<1>4. ASSUME NEW r \in Requests, ReadExisting(r) PROVE Sound'
  <2>. USE <1>4 DEF ReadExisting, Goto, Of, tables
  <2>1. TypeOK'
    <3>1. ASSUME NEW what \in {"digest_already_delivered", "digest_delivery_in_progress"}, Finish(r, what)
          PROVE TypeOK'
      BY <3>1, FinishType, FaultType DEF TypeOK, Answers
    <3>2. CASE Goto(r, "reset") /\ UNCHANGED <<mem, answer>>
      BY <3>2, FaultType DEF TypeOK, Stages
    <3>. QED BY <3>1, <3>2
  <2>2. AddressKnown' /\ RowExists' /\ RowsChecked' /\ ConfirmIsOfAMessage'
    <3>1. AddressKnown'
      BY DEF TypeOK, AddressKnown, Finish, Hold, Locals
    <3>2. RowExists' /\ RowsChecked'
      BY DEF TypeOK, RowExists, Working, RowsChecked, RowCheck, Finish, Hold, Locals
    <3>3. ConfirmIsOfAMessage'
      BY DEF TypeOK, ConfirmIsOfAMessage, Finish, Hold, Locals
    <3>. QED BY <3>1, <3>2, <3>3
  <2>. QED BY <2>1, <2>2
<1>5. ASSUME NEW r \in Requests, Reset(r) PROVE Sound'
  <2>. DEFINE new == [row[Of(r)] EXCEPT !.status = "sending", !.to = mem[r].to]
  <2>. USE <1>5 DEF Reset, tables
  <2>1. new \in StoredRows
    <3>1. row[Of(r)] \in StoredRows /\ mem[r].to \in Addresses
      BY <1>e DEF RowExists, AddressKnown
    <3>. QED BY <3>1 DEF StoredRows
  <2>2. CASE RowCheck(new)
    <3>1. /\ SetRow(Of(r), new) /\ Goto(r, "clear") /\ UNCHANGED <<mem, answer>>
          /\ resets' = [resets EXCEPT ![Of(r)] = @ + 1] /\ resets[Of(r)] < MaxResets
      BY <2>2
    <3>. HIDE DEF new
    <3>2. /\ row' \in [Fingerprints -> Rows]
          /\ row'[Of(r)] = new /\ new.status # "none"
          /\ \A g \in Fingerprints : g # Of(r) => row'[g] = row[g]
      BY <1>d, <2>1, <3>1, SetRowType
    <3>3. resets' \in [Fingerprints -> 0..MaxResets]
      BY <1>d, <3>1 DEF TypeOK
    <3>5. TypeOK'
      BY <3>1, <3>2, <3>3, FaultType DEF TypeOK, Stages, Goto
    <3>4. AddressKnown' /\ RowExists' /\ RowsChecked' /\ ConfirmIsOfAMessage'
      <4>1. AddressKnown' /\ ConfirmIsOfAMessage'
        BY <3>1 DEF TypeOK, AddressKnown, ConfirmIsOfAMessage, Of, Goto
      <4>2. RowExists'
        BY <1>d, <3>1, <3>2 DEF TypeOK, RowExists, Working, Of, Goto
      <4>3. RowsChecked'
        BY <2>2, <3>2 DEF RowsChecked
      <4>. QED BY <4>1, <4>2, <4>3
    <3>. QED BY <3>4, <3>5
  <2>3. CASE ~RowCheck(new)
    <3>1. Finish(r, "failed") /\ UNCHANGED <<row, resets>>
      BY <2>3
    <3>2. TypeOK'
      BY <3>1, FinishType, FaultType DEF TypeOK, Answers
    <3>3. AddressKnown' /\ RowExists' /\ RowsChecked' /\ ConfirmIsOfAMessage'
      BY <3>1 DEF TypeOK, AddressKnown, RowExists, Working, RowsChecked, RowCheck, ConfirmIsOfAMessage, Finish, Hold, Goto, Of, Locals
    <3>. QED BY <3>2, <3>3
  <2>. QED BY <2>2, <2>3
<1>6. ASSUME NEW r \in Requests, ClearItems(r) PROVE Sound'
  <2>. USE <1>6 DEF ClearItems, Goto, Of, tables
  <2>1. TypeOK'
    BY FaultType DEF TypeOK, Stages
  <2>2. AddressKnown' /\ RowExists' /\ RowsChecked' /\ ConfirmIsOfAMessage'
    BY DEF TypeOK, AddressKnown, RowExists, Working, RowsChecked, RowCheck, ConfirmIsOfAMessage
  <2>. QED BY <2>1, <2>2
<1>7. ASSUME NEW r \in Requests, InsertItems(r) PROVE Sound'
  <2>. USE <1>7 DEF InsertItems, Goto, Of, tables
  <2>1. TypeOK'
    BY FaultType DEF TypeOK, Stages
  <2>2. AddressKnown' /\ RowExists' /\ RowsChecked' /\ ConfirmIsOfAMessage'
    BY DEF TypeOK, AddressKnown, RowExists, Working, RowsChecked, RowCheck, ConfirmIsOfAMessage
  <2>. QED BY <2>1, <2>2
<1>8. ASSUME NEW r \in Requests, RecordFailure(r) PROVE Sound'
  <2>. DEFINE new == [row[Of(r)] EXCEPT !.status = "failed"]
  <2>. USE <1>8 DEF RecordFailure, tables
  <2>1. new \in StoredRows
    <3>1. row[Of(r)] \in StoredRows
      BY <1>e DEF RowExists, Working
    <3>. QED BY <3>1 DEF StoredRows
  <2>2. \/ UNCHANGED row
        \/ RowCheck(new) /\ SetRow(Of(r), new)
    BY DEF MarkFailed
  <2>. HIDE DEF new
  <2>3. /\ row' \in [Fingerprints -> Rows]
        /\ \A g \in Fingerprints : row[g].status # "none" => row'[g].status # "none"
        /\ RowsChecked'
    <3>1. CASE UNCHANGED row
      BY <3>1 DEF TypeOK, RowsChecked, RowCheck
    <3>2. CASE RowCheck(new) /\ SetRow(Of(r), new)
      BY <1>d, <2>1, <3>2, SetRowType DEF RowsChecked, RowCheck
    <3>. QED BY <2>2, <3>1, <3>2
  <2>4. TypeOK'
    BY <2>3, FinishType, FaultType DEF TypeOK, Answers
  <2>5. AddressKnown' /\ RowExists' /\ ConfirmIsOfAMessage'
    <3>1. AddressKnown'
      BY <1>d, FinishType DEF TypeOK, AddressKnown, Answers
    <3>2. RowExists'
      BY <1>d, <2>3, FinishType DEF TypeOK, RowExists, Working, Of, Answers
    <3>3. ConfirmIsOfAMessage'
      BY <1>d, FinishType DEF TypeOK, ConfirmIsOfAMessage, Of, Answers
    <3>. QED BY <3>1, <3>2, <3>3
  <2>. QED BY <2>3, <2>4, <2>5
<1>9. ASSUME NEW r \in Requests, SendMessage(r) PROVE Sound'
  <2>. USE <1>9 DEF SendMessage, tables
  <2>0. mem[r].to \in Addresses
    BY DEF AddressKnown
  <2>1. CASE Accept(r) /\ Hold(r, [mem[r] EXCEPT !.message = Cardinality(mailbox) + 1]) /\ Goto(r, "confirm") /\ NoFault
    <3>1. [mem[r] EXCEPT !.message = Cardinality(mailbox) + 1] \in Locals
      <4>0. Cardinality(mailbox) + 1 \in MessageIds
        BY <2>0, <2>1, AcceptType
      <4>1. Cardinality(mailbox) + 1 \in 0..MaxMessages
        BY <4>0 DEF MessageIds
      <4>. QED BY <4>1 DEF TypeOK, Locals
    <3>2. TypeOK' /\ IsFiniteSet(mailbox')
      BY <2>0, <2>1, <3>1, AcceptType, HoldType, FaultType DEF TypeOK, Stages, Goto
    <3>3. AddressKnown' /\ RowExists' /\ RowsChecked'
      BY <2>1 DEF TypeOK, AddressKnown, RowExists, Working, RowsChecked, RowCheck, Goto, Hold, Of, Locals
    <3>4. ConfirmIsOfAMessage'
      <4>1. /\ pc' = [pc EXCEPT ![r] = "confirm"]
            /\ mem' = [mem EXCEPT ![r] = [mem[r] EXCEPT !.message = Cardinality(mailbox) + 1]]
            /\ mem \in [Requests -> Locals] /\ pc \in [Requests -> Stages]
        BY <2>1 DEF TypeOK, Goto, Hold
      <4>2. /\ mem'[r].message = Cardinality(mailbox) + 1
            /\ mem'[r].to = mem[r].to /\ mem'[r].digest = mem[r].digest
        BY <4>1 DEF Locals
      <4>3. \A q \in Requests : q # r => mem'[q] = mem[q] /\ pc'[q] = pc[q]
        BY <4>1
      <4>4. /\ [digest |-> Of(r), to |-> mem[r].to, id |-> Cardinality(mailbox) + 1] \in mailbox'
            /\ mailbox \subseteq mailbox'
        BY <2>0, <2>1, AcceptType
      <4>. QED BY <4>2, <4>3, <4>4 DEF ConfirmIsOfAMessage, Of
    <3>. QED BY <3>2, <3>3, <3>4
  <2>2. CASE Goto(r, "unsent") /\ NoFault /\ UNCHANGED <<mailbox, mem>>
    <3>1. TypeOK'
      BY <2>2, FaultType DEF TypeOK, Stages, Goto
    <3>2. AddressKnown' /\ RowExists' /\ RowsChecked' /\ ConfirmIsOfAMessage'
      BY <2>2 DEF TypeOK, AddressKnown, RowExists, Working, RowsChecked, RowCheck, ConfirmIsOfAMessage, Goto, Of
    <3>. QED BY <2>2, <3>1, <3>2
  <2>3. CASE Accept(r) /\ Goto(r, "unsent") /\ Fault /\ UNCHANGED mem
    <3>1. TypeOK' /\ IsFiniteSet(mailbox')
      BY <2>0, <2>3, AcceptType, FaultType DEF TypeOK, Stages, Goto
    <3>2. AddressKnown' /\ RowExists' /\ RowsChecked'
      BY <2>3 DEF TypeOK, AddressKnown, RowExists, Working, RowsChecked, RowCheck, Goto, Of
    <3>3. ConfirmIsOfAMessage'
      BY <2>0, <2>3, AcceptType DEF TypeOK, ConfirmIsOfAMessage, Goto, Of
    <3>. QED BY <3>1, <3>2, <3>3
  <2>. QED BY <2>1, <2>2, <2>3
<1>10. ASSUME NEW r \in Requests, Confirm(r) PROVE Sound'
  <2>. DEFINE saved == [row[Of(r)] EXCEPT !.status = "sent", !.message = mem[r].message]
  <2>. USE <1>10 DEF Confirm, tables
  <2>1. mem[r].message \in MessageIds
    BY DEF TypeOK, ConfirmIsOfAMessage
  <2>2. saved \in StoredRows /\ RowCheck(saved)
    <3>1. row[Of(r)] \in StoredRows
      BY <1>e DEF RowExists, Working
    <3>2. mem[r].message \in 0..MaxMessages /\ mem[r].message # 0
      BY <2>1 DEF MessageIds
    <3>. QED BY <3>1, <3>2 DEF StoredRows, RowCheck
  <2>3. UNCHANGED row \/ SetRow(Of(r), saved)
    OBVIOUS
  <2>. HIDE DEF saved
  <2>4. /\ row' \in [Fingerprints -> Rows]
        /\ \A g \in Fingerprints : row[g].status # "none" => row'[g].status # "none"
        /\ RowsChecked'
    <3>1. CASE UNCHANGED row
      BY <3>1 DEF TypeOK, RowsChecked, RowCheck
    <3>2. CASE SetRow(Of(r), saved)
      BY <1>d, <2>2, <3>2, SetRowType DEF RowsChecked, RowCheck
    <3>. QED BY <2>3, <3>1, <3>2
  <2>5. PICK what \in Answers : Finish(r, what)
    BY DEF Answers
  <2>6. TypeOK'
    BY <2>4, <2>5, FinishType, FaultType DEF TypeOK
  <2>7. AddressKnown' /\ RowExists' /\ ConfirmIsOfAMessage'
    BY <1>d, <2>4, <2>5, FinishType DEF TypeOK, AddressKnown, RowExists, Working, ConfirmIsOfAMessage, Of
  <2>. QED BY <2>4, <2>6, <2>7
<1>11. ASSUME NEW r \in Requests, CallFails(r) PROVE Sound'
  <2>. USE <1>11 DEF CallFails, tables
  <2>1. TypeOK'
    BY FinishType, FaultType DEF TypeOK, Answers
  <2>2. /\ pc' = [pc EXCEPT ![r] = "idle"]
        /\ mem'[r].digest = mem[r].digest
        /\ \A q \in Requests : q # r => mem'[q] = mem[q]
    BY FinishType DEF Answers
  <2>3. AddressKnown' /\ RowExists' /\ ConfirmIsOfAMessage'
    BY <2>2 DEF TypeOK, AddressKnown, RowExists, Working, ConfirmIsOfAMessage, Of
  <2>4. RowsChecked'
    BY DEF RowsChecked, RowCheck
  <2>. QED BY <2>1, <2>3, <2>4
<1>12. ASSUME NEW r \in Requests, AnswerLost(r) PROVE Sound'
  <2>. DEFINE new == [row[Of(r)] EXCEPT !.status = "sending", !.to = mem[r].to]
  <2>. USE <1>12 DEF AnswerLost, tables
  <2>1. new \in StoredRows /\ RowCheck(new)
    <3>1. mem[r].to \in Addresses
      BY DEF AddressKnown
    <3>2. CASE pc[r] = "create" /\ row[Of(r)].status = "none"
      <4>1. row[Of(r)] = NoRow
        BY <1>d, <3>2, ExistingRow DEF TypeOK
      <4>2. NoRow.status = "none" /\ NoRow.message = 0
        BY DEF NoRow
      <4>3. 0 \in 0..MaxMessages
        OBVIOUS
      <4>4. new \in StoredRows
        <5>. DEFINE AnyRow == [status : {"none"}, to : {NoAddress}, message : 0..MaxMessages]
        <5>1. row[Of(r)] \in AnyRow
          BY <4>1, <4>3 DEF NoRow
        <5>. QED BY <3>1, <5>1 DEF StoredRows
      <4>. QED BY <4>1, <4>2, <4>4 DEF RowCheck, NoRow
    <3>3. CASE pc[r] = "reset" /\ RowCheck(new)
      <4>1. row[Of(r)] \in StoredRows
        BY <1>e, <3>3 DEF RowExists
      <4>. QED BY <3>1, <3>3, <4>1 DEF StoredRows
    <3>. QED BY <3>2, <3>3
  <2>2. SetRow(Of(r), new)
    OBVIOUS
  <2>3. resets' \in [Fingerprints -> 0..MaxResets]
    BY <1>d DEF TypeOK
  <2>. HIDE DEF new
  <2>4. /\ row' \in [Fingerprints -> Rows]
        /\ \A g \in Fingerprints : row[g].status # "none" => row'[g].status # "none"
        /\ RowsChecked'
    BY <1>d, <2>1, <2>2, SetRowType DEF RowsChecked, RowCheck
  <2>5. TypeOK'
    BY <2>3, <2>4, FinishType, FaultType DEF TypeOK, Answers
  <2>6. AddressKnown' /\ RowExists' /\ ConfirmIsOfAMessage'
    <3>1. AddressKnown'
      BY <1>d, FinishType DEF TypeOK, AddressKnown, Answers
    <3>2. RowExists'
      BY <1>d, <2>4, FinishType DEF TypeOK, RowExists, Working, Of, Answers
    <3>3. ConfirmIsOfAMessage'
      BY <1>d, FinishType DEF TypeOK, ConfirmIsOfAMessage, Of, Answers
    <3>. QED BY <3>1, <3>2, <3>3
  <2>. QED BY <2>4, <2>5, <2>6
<1>13. ASSUME NEW r \in Requests, Crash(r) PROVE Sound'
  <2>. USE <1>13 DEF Crash, tables
  <2>1. [mem[r] EXCEPT !.to = NoAddress, !.message = 0] \in Locals
    BY ForgetType DEF TypeOK
  <2>2. TypeOK'
    BY <2>1, HoldType, FaultType DEF TypeOK, Stages, Goto
  <2>3. AddressKnown' /\ RowExists' /\ RowsChecked' /\ ConfirmIsOfAMessage'
    BY DEF TypeOK, AddressKnown, RowExists, Working, RowsChecked, RowCheck, ConfirmIsOfAMessage, Goto, Hold, Of, Locals
  <2>. QED BY <2>2, <2>3
<1>14. CASE ChangeConnection
  <2>. USE <1>14 DEF ChangeConnection, tables
  <2>1. TypeOK'
    BY FaultType DEF TypeOK
  <2>2. AddressKnown' /\ RowExists' /\ RowsChecked' /\ ConfirmIsOfAMessage'
    BY DEF AddressKnown, RowExists, Working, RowsChecked, RowCheck, ConfirmIsOfAMessage, Of
  <2>. QED BY <2>1, <2>2
<1>15. CASE UNCHANGED vars
  BY <1>15 DEF vars, tables, TypeOK, AddressKnown, RowExists, Working, RowsChecked, RowCheck, ConfirmIsOfAMessage, Of
<1>. QED
  BY <1>1, <1>2, <1>3, <1>4, <1>5, <1>6, <1>7, <1>8, <1>9, <1>10, <1>11, <1>12, <1>13, <1>14, <1>15
  DEF Next, Handle

\* The invariant that the others rest on holds.
LEMMA AlwaysSound == Spec => []Sound
BY SoundInit, SoundStep, PTL DEF Spec

\* Every variable keeps its type.
THEOREM DigestTypeCorrect == Spec => []TypeOK
BY AlwaysSound, PTL DEF Sound

-----------------------------------------------------------------------------
(* What a step does to a delivery: it never disappears, and a sent one stays sent. *)

LEMMA RowStep ==
    ASSUME Sound, [Next]_vars, NEW f \in Fingerprints
    PROVE  /\ row[f].status # "none" => row'[f].status # "none"
           /\ row[f].status = "sent" => row'[f].status = "sent"
<1>. USE DEF Sound
<1>d. \A r \in Requests : Of(r) \in Fingerprints
  BY DEF TypeOK, Locals, Of
<1>1. ASSUME NEW r \in Requests, NEW new, SetRow(Of(r), new), new.status # "none",
             row[Of(r)].status = "sent" => new.status = "sent"
      PROVE  /\ row[f].status # "none" => row'[f].status # "none"
             /\ row[f].status = "sent" => row'[f].status = "sent"
  BY <1>d, <1>1 DEF TypeOK, SetRow
<1>2. ASSUME NEW r \in Requests, Create(r)
      PROVE  /\ row[f].status # "none" => row'[f].status # "none"
             /\ row[f].status = "sent" => row'[f].status = "sent"
  BY <1>2, <1>1 DEF Create
<1>3. ASSUME NEW r \in Requests, row[Of(r)].status # "none" => row[Of(r)] \in StoredRows,
             NEW new, new = [row[Of(r)] EXCEPT !.status = "sending", !.to = mem[r].to],
             row[Of(r)].status = "none" \/ RowCheck(new), SetRow(Of(r), new)
      PROVE  /\ row[f].status # "none" => row'[f].status # "none"
             /\ row[f].status = "sent" => row'[f].status = "sent"
  <2>1. new.status = "sending"
    <3>1. row[Of(r)] \in StoredRows \/ row[Of(r)] = NoRow
      BY <1>d, ExistingRow DEF TypeOK
    <3>. QED BY <1>3, <3>1 DEF StoredRows, NoRow
  <2>2. row[Of(r)].status # "sent"
    BY <1>d, <1>3, <2>1 DEF RowsChecked, RowCheck, StoredRows
  <2>. QED BY <1>1, <1>3, <2>1, <2>2
<1>e. \A r \in Requests : row[Of(r)].status # "none" => row[Of(r)] \in StoredRows
  BY <1>d, ExistingRow DEF TypeOK
<1>4. ASSUME NEW r \in Requests, Reset(r)
      PROVE  /\ row[f].status # "none" => row'[f].status # "none"
             /\ row[f].status = "sent" => row'[f].status = "sent"
  BY <1>e, <1>3, <1>4 DEF Reset
<1>5. ASSUME NEW r \in Requests, AnswerLost(r)
      PROVE  /\ row[f].status # "none" => row'[f].status # "none"
             /\ row[f].status = "sent" => row'[f].status = "sent"
  BY <1>e, <1>3, <1>5 DEF AnswerLost
<1>6. ASSUME NEW r \in Requests, RecordFailure(r)
      PROVE  /\ row[f].status # "none" => row'[f].status # "none"
             /\ row[f].status = "sent" => row'[f].status = "sent"
  <2>. DEFINE new == [row[Of(r)] EXCEPT !.status = "failed"]
  <2>1. UNCHANGED row \/ (RowCheck(new) /\ SetRow(Of(r), new))
    BY <1>6 DEF RecordFailure, MarkFailed
  <2>2. row[Of(r)] \in StoredRows
    BY <1>6, <1>e DEF RecordFailure, RowExists, Working
  <2>3. new.status = "failed" /\ (RowCheck(new) => row[Of(r)].status # "sent")
    BY <1>d, <2>2 DEF RowsChecked, RowCheck, StoredRows
  <2>. HIDE DEF new
  <2>. QED BY <1>1, <2>1, <2>3
<1>7. ASSUME NEW r \in Requests, Confirm(r)
      PROVE  /\ row[f].status # "none" => row'[f].status # "none"
             /\ row[f].status = "sent" => row'[f].status = "sent"
  <2>. DEFINE saved == [row[Of(r)] EXCEPT !.status = "sent", !.message = mem[r].message]
  <2>1. UNCHANGED row \/ SetRow(Of(r), saved)
    BY <1>7 DEF Confirm
  <2>2. row[Of(r)] \in StoredRows
    BY <1>7, <1>e DEF Confirm, RowExists, Working
  <2>3. saved.status = "sent"
    BY <2>2 DEF StoredRows
  <2>. HIDE DEF saved
  <2>. QED BY <1>1, <2>1, <2>3
<1>8. CASE UNCHANGED row
  BY <1>8
<1>9. ASSUME NEW r \in Requests, \/ Build(r) \/ GetGmailAccess(r) \/ ReadExisting(r) \/ ClearItems(r)
                                 \/ InsertItems(r) \/ SendMessage(r) \/ CallFails(r) \/ Crash(r)
      PROVE  UNCHANGED row
  BY <1>9 DEF Build, GetGmailAccess, ReadExisting, ClearItems, InsertItems, SendMessage, CallFails, Crash, tables
<1>10. ChangeConnection \/ UNCHANGED vars => UNCHANGED row
  BY DEF ChangeConnection, vars, tables
<1>. QED
  BY <1>2, <1>4, <1>5, <1>6, <1>7, <1>8, <1>9, <1>10 DEF Next, Handle

\* A delivery that is sent stays sent, whatever crosses it (route.ts 44, 64, 71): the check
\* constraint refuses a late failure and an unconditional reset.
THEOREM SentStaysSent == Spec => SentIsFinal
<1>1. Sound /\ [Next]_vars =>
        [\A f \in Fingerprints : row[f].status = "sent" => row'[f].status = "sent"]_vars
  BY RowStep
<1>. QED BY <1>1, AlwaysSound, PTL DEF Spec, SentIsFinal

-----------------------------------------------------------------------------
(* Messages and attempts: every message of a digest was the right of one attempt, the first or *)
(* one reset, and a request holds that right from its claim of the row until Gmail is called. *)

Sending == {"clear", "items", "gmail"}
Senders(f) == {r \in Requests : Of(r) = f /\ pc[r] \in Sending}

AttemptsCounted ==
    \A f \in Fingerprints :
        Cardinality(Messages(f)) + Cardinality(Senders(f))
            <= (IF row[f].status = "none" THEN 0 ELSE 1) + resets[f]

\* Messages and senders are finite, and counted by a number.
LEMMA Counts ==
    ASSUME Sound, NEW f
    PROVE  /\ IsFiniteSet(Messages(f)) /\ Cardinality(Messages(f)) \in Nat
           /\ IsFiniteSet(Senders(f)) /\ Cardinality(Senders(f)) \in Nat
<1>1. Messages(f) \subseteq mailbox /\ Senders(f) \subseteq Requests
  BY DEF Messages, Senders
<1>2. IsFiniteSet(Messages(f)) /\ IsFiniteSet(Senders(f))
  BY <1>1, DigestConstants, FS_Subset DEF Sound
<1>. QED BY <1>2, FS_CardinalityType

\* A step that gives nobody the right to send and sends nothing uses up no attempt.
LEMMA NoNewSender ==
    ASSUME Sound, Sound', AttemptsCounted, [Next]_vars, NEW f \in Fingerprints,
           Messages(f)' = Messages(f), Senders(f)' \subseteq Senders(f), resets'[f] >= resets[f]
    PROVE  Cardinality(Messages(f)') + Cardinality(Senders(f)')
             <= (IF row'[f].status = "none" THEN 0 ELSE 1) + resets'[f]
<1>1. Cardinality(Senders(f)') <= Cardinality(Senders(f)) /\ Cardinality(Senders(f)') \in Nat
  BY Counts, FS_Subset, FS_CardinalityType
<1>2. row[f].status # "none" => row'[f].status # "none"
  BY RowStep
<1>3. resets[f] \in Nat /\ resets'[f] \in Nat
  BY DigestConstants DEF Sound, TypeOK
<1>4. Cardinality(Messages(f)) \in Nat /\ Cardinality(Senders(f)) \in Nat
  BY Counts
<1>. QED BY <1>1, <1>2, <1>3, <1>4 DEF AttemptsCounted

\* A request that claims the row of its digest, or sets it back, is one more sender of it.
LEMMA NewSender ==
    ASSUME Sound, AttemptsCounted, NEW r \in Requests, pc[r] \notin Sending,
           NEW stage \in Sending, pc' = [pc EXCEPT ![r] = stage], UNCHANGED <<mem, mailbox>>,
           resets' \in [Fingerprints -> Nat],
           \A f \in Fingerprints : f # Of(r) => resets'[f] = resets[f] /\ row'[f] = row[f],
           row'[Of(r)].status # "none",
           \/ row[Of(r)].status = "none" /\ resets'[Of(r)] = resets[Of(r)]
           \/ row[Of(r)].status # "none" /\ resets'[Of(r)] = resets[Of(r)] + 1
    PROVE  AttemptsCounted'
<1>. SUFFICES ASSUME NEW f \in Fingerprints
              PROVE  Cardinality(Messages(f)') + Cardinality(Senders(f)')
                       <= (IF row'[f].status = "none" THEN 0 ELSE 1) + resets'[f]
  BY DEF AttemptsCounted
<1>1. Messages(f)' = Messages(f)
  BY DEF Messages
<1>2. Cardinality(Messages(f)) \in Nat /\ Cardinality(Senders(f)) \in Nat /\ IsFiniteSet(Senders(f))
  BY Counts
<1>3. resets[f] \in Nat
  BY DigestConstants DEF Sound, TypeOK
<1>4. CASE f = Of(r)
  <2>1. Senders(f)' = Senders(f) \cup {r} /\ r \notin Senders(f)
    BY <1>4 DEF Senders, Of, Sound, TypeOK
  <2>2. Cardinality(Senders(f)') = Cardinality(Senders(f)) + 1
    BY <1>2, <2>1, FS_AddElement
  <2>. QED BY <1>1, <1>2, <1>3, <1>4, <2>2 DEF AttemptsCounted
<1>5. CASE f # Of(r)
  <2>1. Senders(f)' = Senders(f)
    BY <1>5 DEF Senders, Of, Sound, TypeOK
  <2>. QED BY <1>1, <1>2, <1>3, <1>5, <2>1 DEF AttemptsCounted
<1>. QED BY <1>4, <1>5

\* The call to Gmail trades the right for at most one message.
LEMMA SenderSends ==
    ASSUME Sound, Sound', AttemptsCounted, NEW r \in Requests, SendMessage(r)
    PROVE  AttemptsCounted'
<1>. SUFFICES ASSUME NEW f \in Fingerprints
              PROVE  Cardinality(Messages(f)') + Cardinality(Senders(f)')
                       <= (IF row'[f].status = "none" THEN 0 ELSE 1) + resets'[f]
  BY DEF AttemptsCounted
<1>1. /\ Cardinality(Messages(f)) \in Nat /\ IsFiniteSet(Messages(f))
      /\ Cardinality(Senders(f)) \in Nat /\ IsFiniteSet(Senders(f)) /\ resets[f] \in Nat
  BY Counts, DigestConstants DEF Sound, TypeOK
<1>2. UNCHANGED <<row, resets>> /\ pc[r] = "gmail"
  BY DEF SendMessage, tables
<1>3. /\ \E stage \in {"confirm", "unsent"} : pc' = [pc EXCEPT ![r] = stage]
      /\ \A q \in Requests : Of(q)' = Of(q)
  BY DEF SendMessage, Goto, Hold, Of, Sound, TypeOK, Locals
<1>4. \/ mailbox' = mailbox
      \/ \E m : mailbox' = mailbox \cup {m} /\ m.digest = Of(r)
  BY DEF SendMessage, Accept
<1>5. CASE f = Of(r)
  <2>1. Senders(f)' = Senders(f) \ {r} /\ r \in Senders(f)
    BY <1>2, <1>3, <1>5 DEF Senders, Sending, Sound, TypeOK
  <2>2. Cardinality(Senders(f)') = Cardinality(Senders(f)) - 1
    BY <1>1, <2>1, FS_RemoveElement
  <2>3. Messages(f)' = Messages(f) \/ \E m : Messages(f)' = Messages(f) \cup {m}
    BY <1>4, <1>5 DEF Messages
  <2>4. Cardinality(Messages(f)') \in Nat /\ Cardinality(Messages(f)') <= Cardinality(Messages(f)) + 1
    <3>1. CASE Messages(f)' = Messages(f)
      BY <1>1, <3>1
    <3>2. ASSUME NEW m, Messages(f)' = Messages(f) \cup {m}
          PROVE  /\ Cardinality(Messages(f)') \in Nat
                 /\ Cardinality(Messages(f)') <= Cardinality(Messages(f)) + 1
      <4>1. Cardinality(Messages(f) \cup {m}) = IF m \in Messages(f) THEN Cardinality(Messages(f))
                                                 ELSE Cardinality(Messages(f)) + 1
        BY <1>1, FS_AddElement
      <4>. QED BY <1>1, <3>2, <4>1
    <3>. QED BY <2>3, <3>1, <3>2
  <2>. QED BY <1>1, <1>2, <2>2, <2>4 DEF AttemptsCounted
<1>6. CASE f # Of(r)
  <2>1. Senders(f)' = Senders(f)
    BY <1>2, <1>3, <1>6 DEF Senders, Sending, Sound, TypeOK
  <2>2. Messages(f)' = Messages(f)
    BY <1>4, <1>6 DEF Messages
  <2>. QED BY <1>1, <1>2, <2>1, <2>2 DEF AttemptsCounted
<1>. QED BY <1>5, <1>6

LEMMA AttemptsInit == Init => AttemptsCounted
<1>. SUFFICES ASSUME Init PROVE AttemptsCounted
  OBVIOUS
<1>1. \A f \in Fingerprints : Messages(f) = {} /\ Senders(f) = {}
  BY DEF Init, Messages, Senders, Sending
<1>2. \A f \in Fingerprints : row[f].status = "none" /\ resets[f] = 0
  BY DEF Init, NoRow
<1>. QED BY <1>1, <1>2, FS_EmptySet DEF AttemptsCounted

LEMMA AttemptsStep == Sound /\ Sound' /\ AttemptsCounted /\ [Next]_vars => AttemptsCounted'
<1>. SUFFICES ASSUME Sound, Sound', AttemptsCounted, [Next]_vars PROVE AttemptsCounted'
  OBVIOUS
<1>0. ASSUME \A f \in Fingerprints :
               Messages(f)' = Messages(f) /\ Senders(f)' \subseteq Senders(f) /\ resets'[f] >= resets[f]
      PROVE  AttemptsCounted'
  BY <1>0, NoNewSender DEF AttemptsCounted
<1>n. \A f \in Fingerprints : resets[f] \in Nat
  BY DigestConstants DEF Sound, TypeOK
<1>1. ASSUME NEW r \in Requests, Create(r) PROVE AttemptsCounted'
  <2>1. CASE row[Of(r)].status = "none"
    <3>1. /\ pc[r] \notin Sending /\ pc' = [pc EXCEPT ![r] = "items"] /\ "items" \in Sending
          /\ UNCHANGED <<mem, mailbox, resets>>
          /\ Of(r) \in Fingerprints
          /\ row' = [row EXCEPT ![Of(r)] = [status |-> "sending", to |-> mem[r].to, message |-> 0]]
      BY <1>1, <2>1 DEF Create, Goto, SetRow, Sending, Sound, TypeOK, Locals, Of
    <3>2. /\ \A f \in Fingerprints : f # Of(r) => row'[f] = row[f]
          /\ row'[Of(r)].status # "none"
      BY <3>1 DEF Sound, TypeOK
    <3>3. resets' \in [Fingerprints -> Nat]
      BY <3>1, DigestConstants DEF Sound, TypeOK
    <3>. QED BY <2>1, <3>1, <3>2, <3>3, NewSender
  <2>2. CASE row[Of(r)].status # "none"
    BY <1>0, <1>1, <1>n, <2>2 DEF Create, Goto, Messages, Senders, Sending, Of, Sound, TypeOK
  <2>. QED BY <2>1, <2>2
<1>2. ASSUME NEW r \in Requests, Reset(r) PROVE AttemptsCounted'
  <2>. DEFINE new == [row[Of(r)] EXCEPT !.status = "sending", !.to = mem[r].to]
  <2>1. CASE RowCheck(new)
    <3>1. /\ pc[r] \notin Sending /\ pc' = [pc EXCEPT ![r] = "clear"] /\ "clear" \in Sending
          /\ UNCHANGED <<mem, mailbox>>
          /\ Of(r) \in Fingerprints /\ row[Of(r)].status # "none"
          /\ row' = [row EXCEPT ![Of(r)] = new]
          /\ resets' = [resets EXCEPT ![Of(r)] = @ + 1]
      BY <1>2, <2>1 DEF Reset, Goto, SetRow, Sending, Sound, TypeOK, Locals, Of, RowExists
    <3>2. row'[Of(r)].status # "none"
      BY <3>1, RowStep
    <3>3. /\ \A f \in Fingerprints : f # Of(r) => row'[f] = row[f] /\ resets'[f] = resets[f]
          /\ resets' \in [Fingerprints -> Nat] /\ resets'[Of(r)] = resets[Of(r)] + 1
      BY <1>n, <3>1 DEF Sound, TypeOK
    <3>. QED BY <3>1, <3>2, <3>3, NewSender
  <2>2. CASE ~RowCheck(new)
    <3>1. /\ Finish(r, "failed") /\ UNCHANGED <<mailbox, resets>>
      BY <1>2, <2>2 DEF Reset
    <3>. QED BY <1>0, <1>n, <3>1, FinishType DEF Messages, Senders, Sending, Of, Sound, TypeOK, Answers
  <2>. QED BY <2>1, <2>2
<1>3. ASSUME NEW r \in Requests, AnswerLost(r) PROVE AttemptsCounted'
  <2>1. Finish(r, "failed") /\ UNCHANGED mailbox
    BY <1>3 DEF AnswerLost
  <2>2. \A f \in Fingerprints : resets'[f] >= resets[f]
    BY <1>n, <1>3 DEF AnswerLost, Sound, TypeOK
  <2>. QED BY <1>0, <2>1, <2>2, FinishType DEF Messages, Senders, Sending, Of, Sound, TypeOK, Answers
<1>4. ASSUME NEW r \in Requests, SendMessage(r) PROVE AttemptsCounted'
  BY <1>4, SenderSends
<1>5. ASSUME NEW r \in Requests, Build(r) \/ ClearItems(r) \/ InsertItems(r) \/ Crash(r) PROVE AttemptsCounted'
  <2>1. UNCHANGED <<mailbox, resets>>
    BY <1>5 DEF Build, ClearItems, InsertItems, Crash
  <2>2. \A f \in Fingerprints : Senders(f)' \subseteq Senders(f)
    BY <1>5 DEF Build, ClearItems, InsertItems, Crash, Goto, Hold, Senders, Sending, Of, Sound, TypeOK, Locals
  <2>. QED BY <1>0, <1>n, <2>1, <2>2 DEF Messages
<1>6. ASSUME NEW r \in Requests, ReadExisting(r) \/ GetGmailAccess(r) \/ RecordFailure(r) \/ Confirm(r) \/ CallFails(r)
      PROVE AttemptsCounted'
  <2>1. UNCHANGED <<mailbox, resets>>
    BY <1>6 DEF ReadExisting, GetGmailAccess, RecordFailure, Confirm, CallFails
  <2>2. \A q \in Requests : Of(q)' = Of(q)
    <3>1. \/ \E what \in Answers : Finish(r, what)
          \/ Hold(r, [mem[r] EXCEPT !.to = connection])
          \/ UNCHANGED mem
      BY <1>6 DEF ReadExisting, GetGmailAccess, RecordFailure, Confirm, CallFails, Answers
    <3>2. ASSUME NEW what \in Answers, Finish(r, what) PROVE \A q \in Requests : Of(q)' = Of(q)
      BY <3>2, FinishType DEF Sound, Of
    <3>3. CASE Hold(r, [mem[r] EXCEPT !.to = connection])
      BY <3>3 DEF Hold, Of, Sound, TypeOK, Locals
    <3>. QED BY <3>1, <3>2, <3>3 DEF Of
  <2>3. \E stage \in {"idle", "create", "reset"} : pc' = [pc EXCEPT ![r] = stage]
    BY <1>6 DEF ReadExisting, GetGmailAccess, RecordFailure, Confirm, CallFails, Finish, Goto
  <2>4. \A f \in Fingerprints : Senders(f)' \subseteq Senders(f)
    BY <2>2, <2>3 DEF Senders, Sending, Sound, TypeOK
  <2>. QED BY <1>0, <1>n, <2>1, <2>4 DEF Messages
<1>7. CASE ChangeConnection \/ UNCHANGED vars
  BY <1>0, <1>n, <1>7 DEF ChangeConnection, vars, Messages, Senders, Of
<1>. QED
  BY <1>1, <1>2, <1>3, <1>4, <1>5, <1>6, <1>7 DEF Next, Handle

\* A digest goes out again only when a failed delivery was retried (route.ts 36-48), however many
\* requests cross, fail and die.
THEOREM OneMessageEach == Spec => []OneMessagePerAttempt
<1>1. Sound /\ AttemptsCounted => OneMessagePerAttempt
  <2>. SUFFICES ASSUME Sound, AttemptsCounted, NEW f \in Fingerprints
                PROVE  Cardinality(Messages(f)) <= 1 + resets[f]
    BY DEF OneMessagePerAttempt
  <2>1. Cardinality(Messages(f)) \in Nat /\ Cardinality(Senders(f)) \in Nat /\ resets[f] \in Nat
    BY Counts, DigestConstants DEF Sound, TypeOK
  <2>. QED BY <2>1 DEF AttemptsCounted
<1>. QED BY <1>1, AttemptsInit, AttemptsStep, AlwaysSound, PTL DEF Spec

-----------------------------------------------------------------------------
(* Deliveries left in `sending`. *)

\* A delivery that nothing failed on and that is in progress has a request at work on it.
LEMMA StuckStep == Sound /\ Sound' /\ StuckOnlyAfterFault /\ [Next]_vars => StuckOnlyAfterFault'
<1>. SUFFICES ASSUME Sound, Sound', StuckOnlyAfterFault, [Next]_vars,
                     NEW f \in Fingerprints, row'[f].status = "sending", faults' = 0
              PROVE  \E r \in Requests : Of(r)' = f /\ Working(r)'
  BY DEF StuckOnlyAfterFault
<1>. USE DEF Sound
<1>d. \A r \in Requests : Of(r) \in Fingerprints
  BY DEF TypeOK, Locals, Of
<1>f. faults \in Nat /\ ~Fault
  BY DigestConstants DEF TypeOK, Fault
<1>0. ASSUME faults = 0, row'[f] = row[f],
             \A q \in Requests : Working(q) => Working(q)' /\ Of(q)' = Of(q)
      PROVE  \E r \in Requests : Of(r)' = f /\ Working(r)'
  BY <1>0 DEF StuckOnlyAfterFault
<1>1. ASSUME NEW r \in Requests, pc[r] \notin {"clear", "items", "unsaved", "gmail", "unsent", "confirm"},
             faults = 0, UNCHANGED row, \A q \in Requests : q # r => pc'[q] = pc[q] /\ mem'[q] = mem[q]
      PROVE  \E q \in Requests : Of(q)' = f /\ Working(q)'
  BY <1>0, <1>1 DEF Working, Of
<1>2. ASSUME NEW r \in Requests, NEW stage \in {"clear", "items", "unsaved", "gmail", "unsent", "confirm"},
             faults = 0, pc' = [pc EXCEPT ![r] = stage],
             \A q \in Requests : Of(q)' = Of(q),
             row'[f] = row[f] \/ f = Of(r)
      PROVE  \E q \in Requests : Of(q)' = f /\ Working(q)'
  <2>1. CASE f = Of(r)
    BY <1>2, <2>1 DEF Working, TypeOK
  <2>2. CASE f # Of(r)
    <3>1. \A q \in Requests : Working(q) => Working(q)'
      BY <1>2 DEF Working, TypeOK
    <3>. QED BY <1>0, <1>2, <2>2, <3>1
  <2>. QED BY <2>1, <2>2
<1>3. ASSUME NEW r \in Requests, Build(r) PROVE \E q \in Requests : Of(q)' = f /\ Working(q)'
  <2>1. /\ pc[r] \in {"idle", "crashed"} /\ faults = 0 /\ UNCHANGED row
        /\ \A q \in Requests : q # r => pc'[q] = pc[q] /\ mem'[q] = mem[q]
    BY <1>3 DEF Build, NoFault, tables, Goto, Hold, TypeOK
  <2>. QED BY <1>1, <2>1
<1>4. ASSUME NEW r \in Requests, GetGmailAccess(r) \/ ReadExisting(r)
      PROVE  \E q \in Requests : Of(q)' = f /\ Working(q)'
  <2>1. /\ pc[r] \in {"access", "existing"} /\ faults = 0 /\ UNCHANGED row
        /\ \A q \in Requests : q # r => pc'[q] = pc[q] /\ mem'[q] = mem[q]
    BY <1>4 DEF GetGmailAccess, ReadExisting, NoFault, tables, Goto, Hold, Finish, TypeOK
  <2>. QED BY <1>1, <2>1
<1>5. ASSUME NEW r \in Requests, Create(r) PROVE \E q \in Requests : Of(q)' = f /\ Working(q)'
  <2>1. CASE row[Of(r)].status = "none"
    <3>1. /\ pc' = [pc EXCEPT ![r] = "items"] /\ faults = 0 /\ \A q \in Requests : Of(q)' = Of(q)
          /\ row'[f] = row[f] \/ f = Of(r)
      BY <1>5, <1>d, <2>1 DEF Create, NoFault, Goto, SetRow, Of, TypeOK
    <3>. QED BY <1>2, <3>1
  <2>2. CASE row[Of(r)].status # "none"
    <3>1. /\ pc[r] = "create" /\ faults = 0 /\ UNCHANGED row
          /\ \A q \in Requests : q # r => pc'[q] = pc[q] /\ mem'[q] = mem[q]
      BY <1>5, <2>2 DEF Create, NoFault, Goto, TypeOK
    <3>. QED BY <1>1, <3>1
  <2>. QED BY <2>1, <2>2
<1>6. ASSUME NEW r \in Requests, Reset(r) PROVE \E q \in Requests : Of(q)' = f /\ Working(q)'
  <2>. DEFINE new == [row[Of(r)] EXCEPT !.status = "sending", !.to = mem[r].to]
  <2>1. CASE RowCheck(new)
    <3>1. /\ pc' = [pc EXCEPT ![r] = "clear"] /\ faults = 0 /\ \A q \in Requests : Of(q)' = Of(q)
          /\ row'[f] = row[f] \/ f = Of(r)
      BY <1>6, <1>d, <2>1 DEF Reset, NoFault, Goto, SetRow, Of, TypeOK
    <3>. QED BY <1>2, <3>1
  <2>2. CASE ~RowCheck(new)
    <3>1. /\ pc[r] = "reset" /\ faults = 0 /\ UNCHANGED row
          /\ \A q \in Requests : q # r => pc'[q] = pc[q] /\ mem'[q] = mem[q]
      BY <1>6, <2>2 DEF Reset, NoFault, Goto, Hold, Finish, TypeOK
    <3>. QED BY <1>1, <3>1
  <2>. QED BY <2>1, <2>2
<1>7. ASSUME NEW r \in Requests, ClearItems(r) \/ InsertItems(r) \/ SendMessage(r)
      PROVE  \E q \in Requests : Of(q)' = f /\ Working(q)'
  <2>1. /\ \E stage \in {"items", "unsaved", "gmail", "unsent", "confirm"} : pc' = [pc EXCEPT ![r] = stage]
        /\ faults = 0 /\ UNCHANGED row
    BY <1>7, <1>f DEF ClearItems, InsertItems, SendMessage, NoFault, tables, Goto
  <2>2. \A q \in Requests : Of(q)' = Of(q)
    BY <1>7 DEF ClearItems, InsertItems, SendMessage, Hold, Of, TypeOK, Locals
  <2>. QED BY <1>2, <2>1, <2>2
<1>8. ASSUME NEW r \in Requests, RecordFailure(r) PROVE \E q \in Requests : Of(q)' = f /\ Working(q)'
  <2>1. /\ MarkFailed(Of(r)) /\ faults = 0 /\ row[Of(r)].status # "none"
        /\ \A q \in Requests : q # r => pc'[q] = pc[q] /\ mem'[q] = mem[q]
    BY <1>8, <1>f DEF RecordFailure, NoFault, Goto, Hold, Finish, TypeOK, RowExists, Working
  <2>2. row'[Of(r)].status # "sending"
    <3>. DEFINE new == [row[Of(r)] EXCEPT !.status = "failed"]
    <3>1. row[Of(r)] \in StoredRows
      BY <1>d, <2>1, ExistingRow DEF TypeOK
    <3>2. new.status = "failed" /\ new.message = row[Of(r)].message
      BY <3>1 DEF StoredRows
    <3>3. CASE RowCheck(new)
      BY <1>d, <2>1, <3>2, <3>3 DEF MarkFailed, SetRow, TypeOK
    <3>4. CASE ~RowCheck(new)
      BY <1>d, <2>1, <3>2, <3>4 DEF MarkFailed, RowsChecked, RowCheck
    <3>. QED BY <3>3, <3>4
  <2>3. f # Of(r) /\ row'[f] = row[f]
    BY <1>d, <2>1, <2>2 DEF MarkFailed, SetRow, TypeOK
  <2>. QED BY <2>1, <2>3 DEF StuckOnlyAfterFault, Working, Of
<1>9. ASSUME NEW r \in Requests, Confirm(r) PROVE \E q \in Requests : Of(q)' = f /\ Working(q)'
  <2>. DEFINE saved == [row[Of(r)] EXCEPT !.status = "sent", !.message = mem[r].message]
  <2>1. /\ SetRow(Of(r), saved) /\ faults = 0 /\ row[Of(r)].status # "none"
        /\ \A q \in Requests : q # r => pc'[q] = pc[q] /\ mem'[q] = mem[q]
    BY <1>9, <1>f DEF Confirm, NoFault, Goto, Hold, Finish, TypeOK, RowExists, Working
  <2>2. saved.status = "sent"
    BY <1>d, <2>1, ExistingRow DEF TypeOK, StoredRows
  <2>. HIDE DEF saved
  <2>3. f # Of(r) /\ row'[f] = row[f]
    BY <1>d, <2>1, <2>2 DEF SetRow, TypeOK
  <2>. QED BY <2>1, <2>3 DEF StuckOnlyAfterFault, Working, Of
<1>10. ASSUME NEW r \in Requests, CallFails(r) \/ AnswerLost(r) \/ Crash(r) PROVE FALSE
  BY <1>10, <1>f DEF CallFails, AnswerLost, Crash
<1>11. CASE ChangeConnection
  BY <1>11, <1>f DEF ChangeConnection
<1>12. CASE UNCHANGED vars
  BY <1>0, <1>12 DEF vars, tables, Working, Of
<1>. QED
  BY <1>3, <1>4, <1>5, <1>6, <1>7, <1>8, <1>9, <1>10, <1>11, <1>12 DEF Next, Handle

\* Only a failed call or a crash leaves a delivery in `sending` (route.ts 63-77): never Gmail's
\* refusal, and never requests that cross.
THEOREM StuckNeedsAFault == Spec => []StuckOnlyAfterFault
<1>1. Init => StuckOnlyAfterFault
  BY DEF Init, StuckOnlyAfterFault, NoRow
<1>. QED BY <1>1, StuckStep, AlwaysSound, PTL DEF Spec

-----------------------------------------------------------------------------
(* The history of a delivery. *)

\* A row becomes or is made sent anew only by the request that confirms it.
LEMMA RowSent ==
    ASSUME Sound, [Next]_vars, NEW f \in Fingerprints, row'[f].status = "sent"
    PROVE  \/ row'[f] = row[f]
           \/ \E r \in Requests : /\ pc[r] = "confirm" /\ Of(r) = f /\ Confirm(r)
                                  /\ row'[f].to = row[f].to /\ row'[f].message = mem[r].message
<1>. DEFINE Goal == \/ row'[f] = row[f]
                    \/ \E r \in Requests : /\ pc[r] = "confirm" /\ Of(r) = f /\ Confirm(r)
                                           /\ row'[f].to = row[f].to /\ row'[f].message = mem[r].message
<1>. USE DEF Sound
<1>d. \A r \in Requests : Of(r) \in Fingerprints
  BY DEF TypeOK, Locals, Of
<1>1. ASSUME NEW r \in Requests, NEW new, SetRow(Of(r), new), new.status # "sent" PROVE Goal
  BY <1>d, <1>1 DEF TypeOK, SetRow
<1>2. ASSUME NEW r \in Requests, Create(r) PROVE Goal
  BY <1>1, <1>2 DEF Create
<1>3. \A r \in Requests : [row[Of(r)] EXCEPT !.status = "sending", !.to = mem[r].to].status # "sent"
  <2>. TAKE r \in Requests
  <2>1. row[Of(r)] = NoRow \/ row[Of(r)] \in StoredRows
    BY <1>d, ExistingRow DEF TypeOK
  <2>. QED BY <2>1 DEF NoRow, StoredRows
<1>4. ASSUME NEW r \in Requests, Reset(r) \/ AnswerLost(r) PROVE Goal
  BY <1>1, <1>3, <1>4 DEF Reset, AnswerLost
<1>5. ASSUME NEW r \in Requests, RecordFailure(r) PROVE Goal
  <2>. DEFINE new == [row[Of(r)] EXCEPT !.status = "failed"]
  <2>1. UNCHANGED row \/ SetRow(Of(r), new)
    BY <1>5 DEF RecordFailure, MarkFailed
  <2>2. row[Of(r)] \in StoredRows
    BY <1>5, <1>d, ExistingRow DEF RecordFailure, RowExists, Working, TypeOK
  <2>3. new.status = "failed"
    BY <2>2 DEF StoredRows
  <2>. HIDE DEF new
  <2>. QED BY <1>1, <2>1, <2>3
<1>6. ASSUME NEW r \in Requests, Confirm(r) PROVE Goal
  <2>. DEFINE saved == [row[Of(r)] EXCEPT !.status = "sent", !.message = mem[r].message]
  <2>1. pc[r] = "confirm" /\ (UNCHANGED row \/ SetRow(Of(r), saved))
    BY <1>6 DEF Confirm
  <2>2. row[Of(r)] \in StoredRows
    BY <1>6, <1>d, ExistingRow DEF Confirm, RowExists, Working, TypeOK
  <2>3. saved.to = row[Of(r)].to /\ saved.message = mem[r].message
    BY <2>2 DEF StoredRows
  <2>. HIDE DEF saved
  <2>. QED BY <1>6, <1>d, <2>1, <2>3 DEF SetRow, TypeOK
<1>7. ASSUME NEW r \in Requests, \/ Build(r) \/ GetGmailAccess(r) \/ ReadExisting(r) \/ ClearItems(r)
                                 \/ InsertItems(r) \/ SendMessage(r) \/ CallFails(r) \/ Crash(r)
      PROVE  Goal
  BY <1>7 DEF Build, GetGmailAccess, ReadExisting, ClearItems, InsertItems, SendMessage, CallFails, Crash, tables
<1>8. ChangeConnection \/ UNCHANGED vars => Goal
  BY DEF ChangeConnection, vars, tables
<1>. QED
  BY <1>2, <1>4, <1>5, <1>6, <1>7, <1>8 DEF Next, Handle

\* A message is never unsent.
LEMMA MailboxGrows == ASSUME [Next]_vars PROVE mailbox \subseteq mailbox'
<1>1. ASSUME NEW r \in Requests, SendMessage(r) PROVE mailbox \subseteq mailbox'
  BY <1>1 DEF SendMessage, Accept
<1>2. ASSUME NEW r \in Requests, \/ Build(r) \/ GetGmailAccess(r) \/ Create(r) \/ ReadExisting(r) \/ Reset(r)
                                 \/ ClearItems(r) \/ InsertItems(r) \/ RecordFailure(r) \/ Confirm(r)
                                 \/ CallFails(r) \/ AnswerLost(r) \/ Crash(r)
      PROVE  mailbox' = mailbox
  BY <1>2 DEF Build, GetGmailAccess, Create, ReadExisting, Reset, ClearItems, InsertItems, RecordFailure,
              Confirm, CallFails, AnswerLost, Crash
<1>3. ChangeConnection \/ UNCHANGED vars => mailbox' = mailbox
  BY DEF ChangeConnection, vars
<1>. QED BY <1>1, <1>2, <1>3 DEF Next, Handle

Busy(r) == pc[r] \notin {"idle", "crashed"}

\* What a request that is alone knows of its delivery.
OneByOne == oneAtATime => \A q, r \in Requests : Busy(q) /\ Busy(r) => q = r
HoldsRow ==
    oneAtATime => \A r \in Requests :
        Working(r) => row[Of(r)].status = "sending" /\ row[Of(r)].to = mem[r].to
HasItems ==
    oneAtATime => \A r \in Requests : pc[r] \in {"gmail", "unsent", "confirm"} => items[Of(r)]

History == OneByOne /\ HoldsRow /\ HasItems /\ HistoryIsExact

LEMMA HistoryInit == Init => History
BY DEF Init, History, OneByOne, HoldsRow, HasItems, HistoryIsExact, Busy, Working, NoRow

\* The mode of the user never changes.
LEMMA ModeStep == ASSUME [Next]_vars PROVE oneAtATime' = oneAtATime
BY DEF Next, Handle, vars, Build, GetGmailAccess, Create, ReadExisting, Reset, ClearItems, InsertItems,
       RecordFailure, SendMessage, Confirm, CallFails, AnswerLost, Crash, ChangeConnection, Fault, NoFault

\* Alone, a request that goes on from a stage to another leaves no other at work.
LEMMA AloneStep == Sound /\ Sound' /\ History /\ [Next]_vars => OneByOne' /\ HoldsRow' /\ HasItems'
<1>. SUFFICES ASSUME Sound, Sound', History, [Next]_vars, oneAtATime
              PROVE  /\ \A q, r \in Requests : Busy(q)' /\ Busy(r)' => q = r
                     /\ \A r \in Requests :
                          Working(r)' => row'[Of(r)'].status = "sending" /\ row'[Of(r)'].to = mem'[r].to
                     /\ \A r \in Requests : pc'[r] \in {"gmail", "unsent", "confirm"} => items'[Of(r)']
  BY ModeStep DEF OneByOne, HoldsRow, HasItems
<1>. DEFINE Goal == /\ \A q, r \in Requests : Busy(q)' /\ Busy(r)' => q = r
                    /\ \A r \in Requests :
                         Working(r)' => row'[Of(r)'].status = "sending" /\ row'[Of(r)'].to = mem'[r].to
                    /\ \A r \in Requests : pc'[r] \in {"gmail", "unsent", "confirm"} => items'[Of(r)']
<1>. USE DEF Sound
<1>d. \A r \in Requests : Of(r) \in Fingerprints
  BY DEF TypeOK, Locals, Of
<1>0. ASSUME NEW r \in Requests, Busy(r) \/ (\A q \in Requests : ~Busy(q)),
             NEW stage, pc' = [pc EXCEPT ![r] = stage],
             stage \in {"clear", "items", "unsaved", "gmail", "unsent", "confirm"} =>
               row'[Of(r)'].status = "sending" /\ row'[Of(r)'].to = mem'[r].to,
             stage \in {"gmail", "unsent", "confirm"} => items'[Of(r)']
      PROVE  Goal
  <2>1. \A q \in Requests : q # r => ~Busy(q)
    BY <1>0 DEF History, OneByOne
  <2>2. \A q \in Requests : q # r => ~Busy(q)' /\ ~Working(q)' /\ pc'[q] \in {"idle", "crashed"}
    BY <1>0, <2>1 DEF Busy, Working, TypeOK
  <2>. QED BY <1>0, <2>2 DEF Working, TypeOK
<1>1. ASSUME NEW r \in Requests, NEW stage \in {"idle", "crashed"}, Busy(r), pc' = [pc EXCEPT ![r] = stage]
      PROVE  Goal
  BY <1>0, <1>1
<1>2. ASSUME NEW r \in Requests, Build(r) PROVE Goal
  <2>1. (\A q \in Requests : ~Busy(q)) /\ pc' = [pc EXCEPT ![r] = "access"]
    BY <1>2 DEF Build, Goto, Busy
  <2>. QED BY <1>0, <2>1
<1>3. ASSUME NEW r \in Requests, GetGmailAccess(r) PROVE Goal
  <2>1. Busy(r) /\ \E stage \in {"idle", "create"} : pc' = [pc EXCEPT ![r] = stage]
    BY <1>3 DEF GetGmailAccess, Goto, Finish, Busy
  <2>. QED BY <1>0, <2>1
<1>4. ASSUME NEW r \in Requests, Create(r) PROVE Goal
  <2>1. Busy(r) /\ Of(r)' = Of(r) /\ UNCHANGED <<mem, items>>
    BY <1>4 DEF Create, Busy, Of
  <2>2. CASE row[Of(r)].status = "none"
    <3>1. pc' = [pc EXCEPT ![r] = "items"] /\ row'[Of(r)] = [status |-> "sending", to |-> mem[r].to, message |-> 0]
      BY <1>4, <1>d, <2>2 DEF Create, Goto, SetRow, TypeOK
    <3>2. row'[Of(r)'].status = "sending" /\ row'[Of(r)'].to = mem'[r].to
      BY <2>1, <3>1
    <3>3. pc' = [pc EXCEPT ![r] = "items"]
      BY <3>1
    <3>. QED BY <1>0, <2>1, <3>2, <3>3
  <2>3. CASE row[Of(r)].status # "none"
    <3>1. pc' = [pc EXCEPT ![r] = "existing"]
      BY <1>4, <2>3 DEF Create, Goto
    <3>. QED BY <1>0, <2>1, <3>1
  <2>. QED BY <2>2, <2>3
<1>5. ASSUME NEW r \in Requests, ReadExisting(r) PROVE Goal
  <2>1. Busy(r) /\ \E stage \in {"idle", "reset"} : pc' = [pc EXCEPT ![r] = stage]
    BY <1>5 DEF ReadExisting, Goto, Finish, Busy
  <2>. QED BY <1>0, <2>1
<1>6. ASSUME NEW r \in Requests, Reset(r) PROVE Goal
  <2>. DEFINE new == [row[Of(r)] EXCEPT !.status = "sending", !.to = mem[r].to]
  <2>1. Busy(r)
    BY <1>6 DEF Reset, Busy
  <2>2. CASE RowCheck(new)
    <3>1. pc' = [pc EXCEPT ![r] = "clear"] /\ UNCHANGED mem /\ Of(r)' = Of(r) /\ row' = [row EXCEPT ![Of(r)] = new]
      BY <1>6, <2>2 DEF Reset, Goto, SetRow, Of
    <3>2. row[Of(r)] \in StoredRows
      BY <1>6, <1>d, ExistingRow DEF Reset, RowExists, TypeOK
    <3>3. new.status = "sending" /\ new.to = mem[r].to
      BY <3>2 DEF StoredRows
    <3>. HIDE DEF new
    <3>4. row'[Of(r)] = new
      BY <1>d, <3>1 DEF TypeOK
    <3>. QED BY <1>0, <2>1, <3>1, <3>3, <3>4
  <2>3. CASE ~RowCheck(new)
    <3>1. pc' = [pc EXCEPT ![r] = "idle"]
      BY <1>6, <2>3 DEF Reset, Finish, Goto
    <3>. QED BY <1>1, <2>1, <3>1
  <2>. QED BY <2>2, <2>3
<1>7. ASSUME NEW r \in Requests, ClearItems(r) PROVE Goal
  <2>1. /\ Busy(r) /\ Working(r) /\ UNCHANGED <<row, mem>> /\ Of(r)' = Of(r) /\ pc' = [pc EXCEPT ![r] = "items"]
    BY <1>7 DEF ClearItems, Busy, Working, Goto, Of
  <2>2. row[Of(r)].status = "sending" /\ row[Of(r)].to = mem[r].to
    BY <2>1 DEF History, HoldsRow
  <2>. QED BY <1>0, <2>1, <2>2
<1>8. ASSUME NEW r \in Requests, InsertItems(r) PROVE Goal
  <2>1. Busy(r) /\ Working(r) /\ UNCHANGED <<row, mem>> /\ Of(r)' = Of(r)
    BY <1>8 DEF InsertItems, Busy, Working, Of
  <2>2. row[Of(r)].status = "sending" /\ row[Of(r)].to = mem[r].to
    BY <2>1 DEF History, HoldsRow
  <2>3. \/ pc' = [pc EXCEPT ![r] = "gmail"] /\ items' = [items EXCEPT ![Of(r)] = TRUE]
        \/ pc' = [pc EXCEPT ![r] = "unsaved"]
    BY <1>8 DEF InsertItems, Goto
  <2>4. items' = [items EXCEPT ![Of(r)] = TRUE] => items'[Of(r)]
    BY <1>d DEF TypeOK
  <2>. QED BY <1>0, <2>1, <2>2, <2>3, <2>4
<1>9. ASSUME NEW r \in Requests, SendMessage(r) PROVE Goal
  <2>1. Busy(r) /\ Working(r) /\ pc[r] = "gmail" /\ UNCHANGED <<row, items>>
    BY <1>9 DEF SendMessage, Busy, Working, tables
  <2>2. row[Of(r)].status = "sending" /\ row[Of(r)].to = mem[r].to /\ items[Of(r)]
    BY <2>1 DEF History, HoldsRow, HasItems
  <2>3. /\ \E stage \in {"confirm", "unsent"} : pc' = [pc EXCEPT ![r] = stage]
        /\ Of(r)' = Of(r) /\ mem'[r].to = mem[r].to
    BY <1>9 DEF SendMessage, Goto, Hold, Of, TypeOK, Locals
  <2>. QED BY <1>0, <2>1, <2>2, <2>3
<1>10. ASSUME NEW r \in Requests, RecordFailure(r) \/ Confirm(r) \/ CallFails(r) \/ AnswerLost(r) \/ Crash(r)
       PROVE  Goal
  <2>1. Busy(r) /\ \E stage \in {"idle", "crashed"} : pc' = [pc EXCEPT ![r] = stage]
    BY <1>10 DEF RecordFailure, Confirm, CallFails, AnswerLost, Crash, Finish, Goto, Busy
  <2>. QED BY <1>1, <2>1
<1>11. CASE ChangeConnection \/ UNCHANGED vars
  <2>1. UNCHANGED <<row, items, pc, mem>>
    BY <1>11 DEF ChangeConnection, vars, tables
  <2>. QED BY <2>1 DEF History, OneByOne, HoldsRow, HasItems, Busy, Working, Of
<1>. QED
  BY <1>2, <1>3, <1>4, <1>5, <1>6, <1>7, <1>8, <1>9, <1>10, <1>11 DEF Next, Handle

LEMMA HistoryStep == Sound /\ Sound' /\ History /\ [Next]_vars => History'
<1>. SUFFICES ASSUME Sound, Sound', History, [Next]_vars,
                     NEW f \in Fingerprints, row'[f].status = "sent"
              PROVE  /\ \E m \in Messages(f)' : m.id = row'[f].message
                     /\ oneAtATime' =>
                          /\ items'[f]
                          /\ [digest |-> f, to |-> row'[f].to, id |-> row'[f].message] \in mailbox'
  BY AloneStep DEF History, HistoryIsExact
<1>1. mailbox \subseteq mailbox' /\ oneAtATime' = oneAtATime
  BY MailboxGrows, ModeStep
<1>2. CASE row'[f] = row[f]
  <2>1. \E m \in Messages(f)' : m.id = row'[f].message
    BY <1>1, <1>2 DEF History, HistoryIsExact, Messages
  <2>2. ASSUME oneAtATime PROVE items'[f]
    <3>1. items[f] /\ \A r \in Requests : Working(r) => Of(r) # f
      BY <1>2, <2>2 DEF History, HistoryIsExact, HoldsRow
    <3>2. ASSUME NEW r \in Requests, ClearItems(r) \/ InsertItems(r) PROVE items'[f]
      <4>1. Of(r) # f
        BY <3>1, <3>2 DEF ClearItems, InsertItems, Working
      <4>. QED BY <3>1, <3>2, <4>1 DEF ClearItems, InsertItems, Sound, TypeOK
    <3>3. ASSUME NEW r \in Requests, \/ Build(r) \/ GetGmailAccess(r) \/ Create(r) \/ ReadExisting(r) \/ Reset(r)
                                     \/ SendMessage(r) \/ RecordFailure(r) \/ Confirm(r)
                                     \/ CallFails(r) \/ AnswerLost(r) \/ Crash(r)
          PROVE  items' = items
      BY <3>3 DEF Build, GetGmailAccess, Create, ReadExisting, Reset, SendMessage, RecordFailure,
                  Confirm, CallFails, AnswerLost, Crash, tables
    <3>4. ChangeConnection \/ UNCHANGED vars => items' = items
      BY DEF ChangeConnection, vars, tables
    <3>. QED BY <3>1, <3>2, <3>3, <3>4 DEF Next, Handle
  <2>. QED BY <1>1, <1>2, <2>1, <2>2 DEF History, HistoryIsExact
<1>3. ASSUME NEW r \in Requests, pc[r] = "confirm", Of(r) = f, Confirm(r),
             row'[f].to = row[f].to, row'[f].message = mem[r].message
      PROVE  /\ \E m \in Messages(f)' : m.id = row'[f].message
             /\ oneAtATime' =>
                  /\ items'[f]
                  /\ [digest |-> f, to |-> row'[f].to, id |-> row'[f].message] \in mailbox'
  <2>1. [digest |-> f, to |-> mem[r].to, id |-> mem[r].message] \in mailbox'
    BY <1>1, <1>3 DEF Sound, ConfirmIsOfAMessage
  <2>2. oneAtATime => items[f] /\ row[f].to = mem[r].to
    BY <1>3 DEF History, HoldsRow, HasItems, Working
  <2>3. items' = items
    BY <1>3 DEF Confirm
  <2>. QED BY <1>1, <1>3, <2>1, <2>2, <2>3 DEF Messages
<1>. QED BY <1>2, <1>3, RowSent

\* A delivery shown as sent names a message Gmail gave for its digest, and, when requests come one
\* at a time, the inbox that message went to and its items (route.ts 44, 64, 71-77).
THEOREM HistoryIsTrue == Spec => []HistoryIsExact
<1>1. History => HistoryIsExact
  BY DEF History
<1>. QED BY <1>1, HistoryInit, HistoryStep, AlwaysSound, PTL DEF Spec

=============================================================================
