------------------------------- MODULE RoleScope -------------------------------
(* Enrichment of one company with one role (cli._enrich_companies, enrichment.py,
   enrichment_session.py, scope.py): postings become aliases and matches of the role,
   the role is classified, and a pass that changed nothing leaves a key by which the
   next ones are skipped (enrichment_fingerprints.py).  Beside it a person decides
   ambiguous roles (scope_review.py).  The runs share a workflow concurrency group;
   collection by hand, the person and a release of the worker belong to no group. *)
EXTENDS Naturals

CONSTANTS
  Titles,           \* titles of the company's postings
  FirstTitle,       \* the title the role was made from
  RuleVerdict,      \* [release -> [set of titles -> what the rules say of it]]
  NoVerdict,
  MaxReleases, MaxRuns, MaxReviews, MaxScopeFaults

Decided == {"in_scope", "out_of_scope"}
Verdicts == Decided \cup {"ambiguous"}
ASSUME FirstIsATitle == FirstTitle \in Titles
ASSUME ReleasesAreCounted == MaxReleases \in Nat
ASSUME RulesAreTotal == RuleVerdict \in [0..MaxReleases -> [SUBSET Titles -> Verdicts]]

VARIABLES
  postings,   \* titles observed
  aliases,    \* titles the role is known by, which are what its scope is derived from
  matched,    \* titles whose posting has a match
  scope,      \* the role's stored classification
  review,     \* the latest review of the role, and how many there are
  release,    \* the worker's code and model configuration
  noopKey,    \* the stored key of a pass that changed nothing
  run,        \* the run at work
  reviewing,  \* what the person deciding has read
  reviewLost,  \* a pass saved over a review it had not read
  scopeSpent  \* [runs, faults]

scopeVars == <<postings, aliases, matched, scope, review, release, noopKey, run, reviewing, reviewLost, scopeSpent>>

Unclassified == [status |-> NoVerdict, method |-> "none", of |-> {}, by |-> 0, at |-> 0]
NoReview == [status |-> NoVerdict, of |-> {}, n |-> 0]
NoKey == [inputs |-> <<>>, release |-> 0]
NoRun == [at |-> "idle", before |-> NoKey, queue |-> {}, left |-> {}, failed |-> FALSE, row |-> Unclassified,
          titles |-> {}, result |-> Unclassified, keep |-> FALSE]
NoItem == [open |-> FALSE, at |-> 0, of |-> {}]

RoleScopeInit ==
  /\ postings = {FirstTitle} /\ aliases = {FirstTitle} /\ matched = {FirstTitle}
  /\ scope = Unclassified /\ review = NoReview /\ release = 0 /\ noopKey = NoKey
  /\ run = NoRun /\ reviewing = NoItem /\ reviewLost = FALSE
  /\ scopeSpent = [runs |-> 0, faults |-> 0]

\* company_enrichment_fingerprints: everything enrichment reads, without the time of classification.
Inputs == <<postings, aliases, matched, [scope EXCEPT !.at = 0], review>>
CurrentKey == [inputs |-> Inputs, release |-> release]

Unread == UNCHANGED <<postings, release, review, reviewing>>
RoleStays == UNCHANGED <<aliases, matched, scope, reviewLost>>
ScopeFault ==
  /\ scopeSpent.faults < MaxScopeFaults
  /\ scopeSpent' = [scopeSpent EXCEPT !.faults = @ + 1]

--------------------------------------------------------------------------------
(* Beside the runs. *)

Observe(t) ==
  /\ t \notin postings
  /\ postings' = postings \cup {t}
  /\ UNCHANGED <<aliases, matched, scope, review, release, noopKey, run, reviewing, reviewLost, scopeSpent>>

Deploy ==
  /\ release < MaxReleases
  /\ release' = release + 1
  /\ UNCHANGED <<postings, aliases, matched, scope, review, noopKey, run, reviewing, reviewLost, scopeSpent>>

AwaitsReview == scope.status = "ambiguous" \/ scope.method = "human"

\* decide: the role is read as it stands.
ReadItem ==
  /\ ~reviewing.open /\ AwaitsReview /\ review.n < MaxReviews
  /\ reviewing' = [open |-> TRUE, at |-> scope.at, of |-> aliases]
  /\ UNCHANGED <<postings, aliases, matched, scope, review, release, noopKey, run, reviewLost, scopeSpent>>

\* record_role_scope_review: the review and the outcome in one transaction, if the role was not
\* classified again since it was read; or the command ends there.
RecordReview(verdict) ==
  /\ reviewing.open
  /\ reviewing' = NoItem
  /\ \/ /\ scope.at = reviewing.at /\ AwaitsReview
        /\ scope' = [status |-> verdict, method |-> "human", of |-> reviewing.of, by |-> release, at |-> scope.at + 1]
        /\ review' = [status |-> verdict, of |-> reviewing.of, n |-> review.n + 1]
        /\ reviewLost' = FALSE
     \/ UNCHANGED <<scope, review, reviewLost>>
  /\ UNCHANGED <<postings, aliases, matched, release, noopKey, run, scopeSpent>>

--------------------------------------------------------------------------------
(* A run. *)

\* Fingerprints and keys are read; a company whose key matches is skipped, unless forced.
StartRun(force) ==
  /\ run.at = "idle" /\ scopeSpent.runs < MaxRuns
  /\ noopKey # CurrentKey \/ force
  /\ run' = [NoRun EXCEPT !.at = "open", !.before = CurrentKey]
  /\ scopeSpent' = [scopeSpent EXCEPT !.runs = @ + 1]
  /\ UNCHANGED noopKey /\ Unread /\ RoleStays

\* The session reads the company's postings and matches.
OpenSession ==
  /\ run.at = "open"
  /\ run' = [run EXCEPT !.at = "aliases", !.queue = postings \ matched]
  /\ UNCHANGED <<noopKey, scopeSpent>> /\ Unread /\ RoleStays

\* flush_resolutions: the aliases of every decision, then the matches.
WriteAliases ==
  /\ run.at = "aliases"
  /\ aliases' = aliases \cup run.queue
  /\ run' = [run EXCEPT !.at = "matches"]
  /\ UNCHANGED <<matched, scope, reviewLost, noopKey, scopeSpent>> /\ Unread

WriteMatches ==
  /\ run.at = "matches"
  /\ matched' = matched \cup run.queue
  /\ run' = [run EXCEPT !.at = "classify", !.queue = {}]
  /\ UNCHANGED <<aliases, scope, reviewLost, noopKey, scopeSpent>> /\ Unread

\* A refused request: every decision is written again on its own.
BulkRefused ==
  /\ run.at \in {"aliases", "matches"} /\ run.queue # {}
  /\ ScopeFault
  /\ run' = [run EXCEPT !.at = "replay", !.left = run.queue, !.queue = {}]
  /\ UNCHANGED noopKey /\ Unread /\ RoleStays

\* save_role_resolution: the alias, then the match.
SaveResolution(t) ==
  /\ run.at = "replay" /\ t \in run.left
  /\ aliases' = aliases \cup {t} /\ matched' = matched \cup {t}
  /\ run' = [run EXCEPT !.left = @ \ {t}]
  /\ UNCHANGED <<scope, reviewLost, noopKey, scopeSpent>> /\ Unread

\* It fails before the alias or between the two, and that decision is counted as failed.
ResolutionFails(t) ==
  /\ run.at = "replay" /\ t \in run.left
  /\ ScopeFault
  /\ aliases' \in {aliases, aliases \cup {t}}
  /\ run' = [run EXCEPT !.left = @ \ {t}, !.failed = TRUE]
  /\ UNCHANGED <<matched, scope, reviewLost, noopKey>> /\ Unread

EndReplay ==
  /\ run.at = "replay" /\ run.left = {}
  /\ run' = [run EXCEPT !.at = "classify"]
  /\ UNCHANGED <<noopKey, scopeSpent>> /\ Unread /\ RoleStays

\* list_role_scope_inputs: the role's row with its aliases; the reviews are read after it.
ReadRole ==
  /\ run.at = "classify"
  /\ run' = [run EXCEPT !.at = "read", !.row = scope, !.titles = aliases]
  /\ UNCHANGED <<noopKey, scopeSpent>> /\ Unread /\ RoleStays

ByRules(titles, by) ==
  [status |-> RuleVerdict[by][titles], method |-> "rules", of |-> titles, by |-> by, at |-> 0]

\* _classify: a decision of a person on exactly these titles stays, as does a model's suggestion by
\* the same rules on the same titles; otherwise the rules speak, with a suggestion if a model has one.
Classifications(row, titles, reviewed, by) ==
  LET fresh == ByRules(titles, by) IN
  IF row.method = "human" /\ reviewed = titles THEN {row}
  ELSE IF fresh.status # "ambiguous" THEN {fresh}
  ELSE IF row.method = "model" /\ row.of = titles /\ row.by = by THEN {row}
  ELSE {fresh, [fresh EXCEPT !.method = "model"]}

ClassifyRole ==
  /\ run.at = "read"
  /\ \E result \in Classifications(run.row, run.titles, review.of, run.before.release) :
       run' = [run EXCEPT !.at = "save", !.result = [result EXCEPT !.at = 0]]
  /\ UNCHANGED <<noopKey, scopeSpent>> /\ Unread /\ RoleStays

\* Only a classification that changed is saved, over whatever the row holds by then.
SaveScope ==
  /\ run.at = "save"
  /\ IF run.result = [run.row EXCEPT !.at = 0] THEN UNCHANGED <<scope, reviewLost>>
     ELSE /\ scope' = [run.result EXCEPT !.at = scope.at + 1]
          /\ reviewLost' = (reviewLost \/ (scope.method = "human" /\ scope # run.row))
  /\ run' = [run EXCEPT !.at = "after", !.row = Unclassified, !.result = Unclassified, !.titles = {}]
  /\ UNCHANGED <<aliases, matched, noopKey, scopeSpent>> /\ Unread

\* Reading, classifying or saving the scope fails, the batch and the retry.
ScopeFails ==
  /\ run.at \in {"classify", "read", "save"}
  /\ ScopeFault
  /\ run' = [run EXCEPT !.at = "after", !.failed = TRUE, !.row = Unclassified, !.result = Unclassified, !.titles = {}]
  /\ UNCHANGED noopKey /\ Unread /\ RoleStays

\* (Mutant) a pass with failures may leave a key.
MutantTakeFingerprint ==
  /\ run.at = "after"
  /\ run' = [run EXCEPT !.at = "persist", !.keep = (Inputs = run.before.inputs)]
  /\ UNCHANGED <<noopKey, scopeSpent>> /\ Unread /\ RoleStays

\* The fingerprint again, of a complete run.
TakeFingerprint ==
  /\ run.at = "after"
  /\ run' = [run EXCEPT !.at = "persist", !.keep = (~run.failed /\ Inputs = run.before.inputs)]
  /\ UNCHANGED <<noopKey, scopeSpent>> /\ Unread /\ RoleStays

\* The fingerprint cannot be taken, or the session cannot be opened: no key is learned.
LearnsNothing ==
  /\ run.at \in {"open", "after"}
  /\ ScopeFault
  /\ run' = [run EXCEPT !.at = "persist", !.keep = FALSE]
  /\ UNCHANGED noopKey /\ Unread /\ RoleStays

\* persist_keys: the company's key of this pass, or none.
PersistKeys ==
  /\ run.at = "persist"
  /\ noopKey' = IF run.keep THEN run.before ELSE NoKey
  /\ run' = NoRun
  /\ UNCHANGED scopeSpent /\ Unread /\ RoleStays

\* The run is killed, or its keys are refused: what is stored stays.
RunEnds ==
  /\ run.at # "idle"
  /\ ScopeFault
  /\ run' = NoRun
  /\ UNCHANGED noopKey /\ Unread /\ RoleStays

RoleScopeNext ==
  \/ \E t \in Titles : Observe(t) \/ SaveResolution(t) \/ ResolutionFails(t)
  \/ Deploy \/ ReadItem \/ \E verdict \in Decided : RecordReview(verdict)
  \/ \E force \in BOOLEAN : StartRun(force)
  \/ OpenSession \/ WriteAliases \/ WriteMatches \/ BulkRefused \/ EndReplay
  \/ ReadRole \/ ClassifyRole \/ SaveScope \/ ScopeFails
  \/ TakeFingerprint \/ LearnsNothing \/ PersistKeys \/ RunEnds

RoleScopeSpec == RoleScopeInit /\ [][RoleScopeNext]_scopeVars

--------------------------------------------------------------------------------
(* A company that would be skipped has nothing left to do: every posting is matched
   and known to its role, and the rules, or the person, would decide of the role what
   is stored (enrichment_fingerprints.py:1-18), whatever killed or failed the runs. *)
SkippedMeansDone ==
  noopKey = CurrentKey =>
    /\ postings = matched /\ matched \subseteq aliases
    /\ \E result \in Classifications(scope, aliases, review.of, release) :
         result.status = scope.status /\ result.of = scope.of

(* A person's decision on the titles the role has stands until a pass that had not
   read it saves over it, and no other outcome is ever shown as a person's
   (docs/role-scope.md:161-163). *)
DecisionStands ==
  /\ scope.method = "human" => scope.status = review.status
  /\ review.n > 0 /\ review.of = aliases /\ ~reviewLost => scope.method = "human"

(* What the passes and the person promise each other. *)
ScopeIsKept == SkippedMeansDone /\ DecisionStands
================================================================================
