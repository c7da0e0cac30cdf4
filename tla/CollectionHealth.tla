---------------------------- MODULE CollectionHealth ----------------------------
(* The daily report on collection (scripts/collection-health.mjs): which sources
   have failed their last attempts, which are not reached, produce nothing or are
   refused, which pipelines stalled and which runs never finished.  It makes its
   reads at different moments, pages the attempts newest first, and joins them with
   the sources read afterwards, while people switch sources off, and, when it is run
   by hand, while collection goes on. *)
EXTENDS Naturals, Sequences, FiniteSets

CONSTANTS HealthSources,      \* the sources
          FailureStreak,      \* FAILURE_STREAK
          LookbackDays, StaleAfter, AbandonedAfter, DeadAfterFetches,
          AttemptPage,        \* rows a page of attempts holds
          MaxAttempts, MaxHealthDays, MaxSwitches   \* bounds

ASSUME HealthAssumption ==
  /\ FailureStreak \in Nat \ {0} /\ AttemptPage \in Nat \ {0}
  /\ LookbackDays \in Nat /\ MaxHealthDays \in Nat

VARIABLES attempts,   \* every attempt, oldest first
          sources,    \* each source as the table has it
          day,        \* the clock
          reading,    \* the report in progress: the page it is at and what it has read
          findings,   \* the last report's warnings
          beside,     \* an attempt was recorded while the report read
          switches

healthVars == <<attempts, sources, day, reading, findings, beside, switches>>

Running == "running"
Failed == "failed"
Succeeded == "succeeded"
NotReading == [at |-> "idle", offset |-> 0, rows |-> <<>>, since |-> 0]

HealthInit ==
  /\ attempts = <<>>
  /\ sources = [s \in HealthSources |-> [enabled |-> TRUE, fetched |-> 0, fetches |-> 0, produced |-> 0]]
  /\ day = 1
  /\ reading = NotReading
  /\ findings = [failing |-> {}, stale |-> {}, never |-> {}, dead |-> {}, abandoned |-> FALSE, on |-> 0]
  /\ beside = FALSE
  /\ switches = 0

Meanwhile == beside' = (beside \/ reading # NotReading)

StartAttempt(s) ==
  /\ sources[s].enabled
  /\ Len(attempts) < MaxAttempts
  /\ ~ \E i \in DOMAIN attempts : attempts[i].source = s /\ attempts[i].status = Running /\ attempts[i].day = day
  /\ attempts' = Append(attempts, [source |-> s, status |-> Running, day |-> day])
  /\ Meanwhile
  /\ UNCHANGED <<sources, day, reading, findings, switches>>

\* A run that is killed never reaches this, and its attempt stays running.
EndAttempt(i) ==
  /\ attempts[i].status = Running /\ attempts[i].day = day
  /\ \E how \in {Failed, Succeeded}, jobs \in {0, 1} :
       /\ jobs = 1 => how = Succeeded
       /\ attempts' = [attempts EXCEPT ![i].status = how]
       /\ sources' = [sources EXCEPT ![attempts[i].source] =
            IF how = Succeeded THEN [@ EXCEPT !.fetched = day, !.fetches = @ + 1, !.produced = @ + jobs] ELSE @]
  /\ Meanwhile
  /\ UNCHANGED <<day, reading, findings, switches>>

SwitchSource(s) ==
  /\ switches < MaxSwitches
  /\ switches' = switches + 1
  /\ sources' = [sources EXCEPT ![s].enabled = ~@]
  /\ UNCHANGED <<attempts, day, reading, findings, beside>>

NextDay ==
  /\ day < MaxHealthDays
  /\ reading = NotReading
  /\ day' = day + 1
  /\ UNCHANGED <<attempts, sources, reading, findings, beside, switches>>

StartReport ==
  /\ reading = NotReading
  /\ findings.on < day
  /\ reading' = [at |-> "attempts", offset |-> 0, rows |-> <<>>,
                 since |-> IF day > LookbackDays THEN day - LookbackDays ELSE 0]
  /\ beside' = FALSE
  /\ UNCHANGED <<attempts, sources, day, findings, switches>>

\* The attempts of the lookback, newest first.  Attempts are in the order they started,
\* so those are the last ones.
Recent == {i \in DOMAIN attempts : attempts[i].day >= reading.since}
Newest == [n \in 1..Cardinality(Recent) |-> attempts[Len(attempts) + 1 - n]]

(* all(): the next page by offset; an empty one ends the reading. *)
ReadPage ==
  /\ reading.at = "attempts"
  /\ LET rows == Newest
         last == IF Len(rows) < reading.offset + AttemptPage THEN Len(rows) ELSE reading.offset + AttemptPage
         page == SubSeq(rows, reading.offset + 1, last) IN
     reading' = IF page = <<>> THEN [reading EXCEPT !.at = "sources"]
                ELSE [reading EXCEPT !.rows = @ \o page, !.offset = @ + AttemptPage]
  /\ UNCHANGED <<attempts, sources, day, findings, beside, switches>>

Finished(rows, s) == {i \in DOMAIN rows : rows[i].source = s /\ rows[i].status # Running}

MutantStreakOf(rows, s) == Cardinality({i \in Finished(rows, s) : rows[i].status = Failed})
\* The run of failures before anything else.
StreakOf(rows, s) ==
  Cardinality({i \in Finished(rows, s) : \A j \in Finished(rows, s) : j <= i => rows[j].status = Failed})

NeverFetched == {s \in HealthSources : sources[s].enabled /\ sources[s].fetched = 0}
NotReached == {s \in HealthSources : /\ sources[s].enabled /\ sources[s].fetched # 0
                                     /\ day - sources[s].fetched > StaleAfter}
ProducesNothing == {s \in HealthSources : /\ sources[s].enabled
                                          /\ sources[s].fetches >= DeadAfterFetches /\ sources[s].produced = 0}
NeverEnded == \E i \in DOMAIN attempts : attempts[i].status = Running /\ day - attempts[i].day > AbandonedAfter

\* The sources are read after the streaks: only one still enabled can still be failing.
Report ==
  /\ reading.at = "sources"
  /\ findings' = [failing |-> {s \in HealthSources : /\ StreakOf(reading.rows, s) >= FailureStreak
                                                     /\ sources[s].enabled},
                  never |-> NeverFetched, stale |-> NotReached, dead |-> ProducesNothing,
                  abandoned |-> NeverEnded, on |-> day]
  /\ reading' = NotReading
  /\ UNCHANGED <<attempts, sources, day, beside, switches>>

HealthNext == \/ \E s \in HealthSources : StartAttempt(s) \/ SwitchSource(s)
              \/ \E i \in DOMAIN attempts : EndAttempt(i)
              \/ NextDay \/ StartReport \/ ReadPage \/ Report

HealthSpec == HealthInit /\ [][HealthNext]_healthVars

--------------------------------------------------------------------------------
\* The last FailureStreak finished attempts on a source, over all of its history.
LastAllFailed(s) ==
  LET ended == Finished(attempts, s)
      since(i) == {j \in ended : j >= i} IN
  \E i \in ended : Cardinality(since(i)) = FailureStreak
                   /\ \A j \in since(i) : attempts[j].status = Failed

(* A report of a quiet moment names exactly the enabled sources whose most recent
   attempts all failed, however the reading was paged and whatever was switched off
   meanwhile (collection-health.mjs:9 and :265-269), as long as those attempts are
   within the lookback. *)
FailingIsReported ==
  [][(findings' # findings /\ ~beside)
       => \A s \in HealthSources :
            /\ s \in findings'.failing => LastAllFailed(s) /\ sources[s].enabled
            /\ (LastAllFailed(s) /\ sources[s].enabled
                /\ Cardinality({i \in DOMAIN attempts : /\ attempts[i].source = s /\ attempts[i].status = Failed
                                                        /\ attempts[i].day + LookbackDays >= day}) >= FailureStreak)
               => s \in findings'.failing]_healthVars
================================================================================
