--------------------- MODULE CollectionTakedownProofs ---------------------
(***************************************************************************)
(* What the takedowns of a company promise, for any sources, roles and     *)
(* number of commands.                                                     *)
(*                                                                         *)
(* The record is append-only, so everything rests on what one more record  *)
(* does to the holds in force. While a company is held, the holds' records *)
(* and the history agree on what was taken, and what was stored when it    *)
(* was last held is off.                                                   *)
(***************************************************************************)
EXTENDS CollectionTakedown, TLAPS

\* A source disabled on its own is stored, and off.
KeptIsOff == \A s \in KeptOff : source[s] = "off"

\* The records of the holds in force are the history of what they took.
HoldsAreRemembered ==
    Held => /\ HeldSources = before.on /\ HeldRoles = before.listed
            /\ before.on \subseteq before.stored
            /\ \A s \in before.stored : source[s] = "off"

NotErased == \A i \in Holds : log[i].action # "erase"

\* Until an erasure, no role the withdrawal found is gone, so none is created again.
TakenRolesAreOff ==
    Held /\ NotErased => \A r \in before.roles : role[r] \in {"inactive", "superseded"}

IInv == TypeOK /\ HoldIsTheLatest /\ KeptIsOff /\ HoldsAreRemembered /\ TakenRolesAreOff

-----------------------------------------------------------------------------
(* One more record. *)

Entry(target, action, sources, roles) ==
    [target |-> target, action |-> action, sources |-> sources, roles |-> roles]

LEMMA Appended ==
    ASSUME log \in Seq(Records), NEW target, NEW action, NEW sources, NEW roles,
           Record(target, action, sources, roles)
    PROVE  /\ Len(log) \in Nat /\ DOMAIN log = 1..Len(log)
           /\ DOMAIN log' = 1..(Len(log) + 1) /\ Len(log') = Len(log) + 1
           /\ log'[Len(log) + 1] = Entry(target, action, sources, roles)
           /\ \A i \in 1..Len(log) : log'[i] = log[i]
BY DEF Record, Entry

LEMMA EntryTypes ==
    ASSUME NEW target \in Sources \cup {Company}, NEW action \in HoldActions \cup {"enable"},
           NEW sources \in SUBSET Sources, NEW roles \in SUBSET Roles
    PROVE  /\ Entry(target, action, sources, roles) \in Records
           /\ Entry(target, action, sources, roles).target = target
           /\ Entry(target, action, sources, roles).action = action
           /\ Entry(target, action, sources, roles).sources = sources
           /\ Entry(target, action, sources, roles).roles = roles
BY DEF Entry, Records

LEMMA LogType ==
    ASSUME log \in Seq(Records), NEW target \in Sources \cup {Company},
           NEW action \in HoldActions \cup {"enable"},
           NEW sources \in SUBSET Sources, NEW roles \in SUBSET Roles,
           Record(target, action, sources, roles)
    PROVE  log' \in Seq(Records)
<1>1. Entry(target, action, sources, roles) \in Records
  BY EntryTypes
<1> QED BY <1>1 DEF Record, Entry

\* The latest action of every target but the record's own is what it was.
LEMMA LatestAfter ==
    ASSUME log \in Seq(Records), NEW target \in Sources \cup {Company},
           NEW action \in HoldActions \cup {"enable"},
           NEW sources \in SUBSET Sources, NEW roles \in SUBSET Roles,
           Record(target, action, sources, roles),
           NEW t, NEW A
    PROVE  LatestIs(t, A)' <=> IF t = target THEN action \in A ELSE LatestIs(t, A)
<1> DEFINE n == Len(log)
<1>1. /\ n \in Nat /\ DOMAIN log = 1..n /\ DOMAIN log' = 1..(n + 1)
      /\ log'[n + 1].target = target /\ log'[n + 1].action = action
      /\ \A i \in 1..n : log'[i] = log[i]
  <2>1. Entry(target, action, sources, roles).target = target
        /\ Entry(target, action, sources, roles).action = action
    BY DEF Entry
  <2> QED BY Appended, <2>1
<1>2. LatestIs(t, A)' = \E i \in 1..(n + 1) :
          /\ log'[i].target = t /\ log'[i].action \in A
          /\ \A j \in 1..(n + 1) : log'[j].target = t => j <= i
  BY <1>1 DEF LatestIs, Of
<1>3. LatestIs(t, A) = \E i \in 1..n :
          /\ log[i].target = t /\ log[i].action \in A
          /\ \A j \in 1..n : log[j].target = t => j <= i
  BY <1>1 DEF LatestIs, Of
<1> HIDE DEF n
<1>4. CASE t = target
  <2>1. action \in A => LatestIs(t, A)'
    BY <1>1, <1>2, <1>4
  <2>2. ASSUME NEW i \in 1..(n + 1), log'[i].action \in A,
               \A j \in 1..(n + 1) : log'[j].target = t => j <= i
        PROVE  action \in A
    <3>1. n + 1 <= i
      BY <1>1, <1>4, <2>2
    <3>2. i = n + 1
      BY <1>1, <3>1
    <3> QED BY <1>1, <2>2, <3>2
  <2>3. LatestIs(t, A)' => action \in A
    BY <1>2, <2>2
  <2> QED BY <1>4, <2>1, <2>3
<1>5. CASE t # target
  BY <1>1, <1>2, <1>3, <1>5
<1> QED BY <1>4, <1>5

\* The same of the holds in force.
LEMMA HoldsAfter ==
    ASSUME log \in Seq(Records), NEW target \in Sources \cup {Company},
           NEW action \in HoldActions \cup {"enable"},
           NEW sources \in SUBSET Sources, NEW roles \in SUBSET Roles,
           Record(target, action, sources, roles)
    PROVE  /\ Holds \subseteq 1..Len(log)
           /\ \A i \in Holds : log'[i] = log[i]
           /\ Len(log) + 1 \notin Holds
           /\ target # Company => Holds' = Holds
           /\ target = Company /\ action = "enable" => Holds' = {}
           /\ target = Company /\ action # "enable" => Holds' = Holds \cup {Len(log) + 1}
<1> DEFINE n == Len(log)
<1>1. /\ n \in Nat /\ DOMAIN log = 1..n /\ DOMAIN log' = 1..(n + 1)
      /\ log'[n + 1].target = target /\ log'[n + 1].action = action
      /\ \A i \in 1..n : log'[i] = log[i]
  <2>1. Entry(target, action, sources, roles).target = target
        /\ Entry(target, action, sources, roles).action = action
    BY DEF Entry
  <2> QED BY Appended, <2>1
<1>2. Holds' = {i \in 1..(n + 1) : /\ log'[i].target = Company /\ log'[i].action \in HoldActions
                                   /\ \A j \in 1..(n + 1) : log'[j].target = Company /\ j > i
                                          => log'[j].action # "enable"}
  BY <1>1 DEF Holds, Of
<1>3. Holds = {i \in 1..n : /\ log[i].target = Company /\ log[i].action \in HoldActions
                            /\ \A j \in 1..n : log[j].target = Company /\ j > i
                                   => log[j].action # "enable"}
  BY <1>1 DEF Holds, Of
<1>4. "enable" \notin HoldActions
  BY DEF HoldActions
<1> HIDE DEF n
<1>5. Holds \subseteq 1..n /\ n + 1 \notin Holds
  BY <1>1, <1>3
<1>6. ASSUME target # Company PROVE Holds' = Holds
  BY <1>1, <1>2, <1>3, <1>6
<1>7. ASSUME target = Company, action = "enable" PROVE Holds' = {}
  BY <1>1, <1>2, <1>4, <1>7
<1>8. ASSUME target = Company, action # "enable" PROVE Holds' = Holds \cup {n + 1}
  BY <1>1, <1>2, <1>3, <1>8
<1> QED BY <1>1, <1>5, <1>6, <1>7, <1>8 DEF n

\* What follows for the company's state: whether it is held, what its holds took, and whether
\* they erased.
LEMMA HeldAfter ==
    ASSUME log \in Seq(Records), HoldIsTheLatest, NEW target \in Sources \cup {Company},
           NEW action \in HoldActions \cup {"enable"},
           NEW sources \in SUBSET Sources, NEW roles \in SUBSET Roles,
           Record(target, action, sources, roles)
    PROVE  /\ HoldIsTheLatest'
           /\ Held' <=> IF target = Company THEN action # "enable" ELSE Held
<1>1. CompanyHold' <=> IF Company = target THEN action \in HoldActions ELSE CompanyHold
  BY LatestAfter DEF CompanyHold
<1>2. Held' <=> IF target = Company THEN action # "enable" ELSE Held
  BY HoldsAfter DEF Held
<1>3. action \in HoldActions <=> action # "enable"
  BY DEF HoldActions
<1>4. Held <=> CompanyHold
  BY DEF HoldIsTheLatest
<1>5. Held' <=> CompanyHold'
  BY <1>1, <1>2, <1>3, <1>4
<1>6. Held' \in BOOLEAN /\ CompanyHold' \in BOOLEAN
  BY DEF Held, CompanyHold, LatestIs
<1> QED BY <1>2, <1>5, <1>6 DEF HoldIsTheLatest

LEMMA TakenAfter ==
    ASSUME log \in Seq(Records), NEW target \in Sources \cup {Company},
           NEW action \in HoldActions \cup {"enable"},
           NEW sources \in SUBSET Sources, NEW roles \in SUBSET Roles,
           Record(target, action, sources, roles)
    PROVE  /\ target # Company =>
                  /\ HeldSources' = HeldSources /\ HeldRoles' = HeldRoles
                  /\ NotErased' <=> NotErased
           /\ target = Company /\ action # "enable" =>
                  /\ HeldSources' = HeldSources \cup sources
                  /\ HeldRoles' = HeldRoles \cup (IF action = "withdraw" THEN roles ELSE {})
                  /\ NotErased' <=> NotErased /\ action # "erase"
<1> DEFINE n == Len(log)
<1>1. log'[n + 1].action = action /\ log'[n + 1].sources = sources /\ log'[n + 1].roles = roles
  <2>1. log'[n + 1] = Entry(target, action, sources, roles)
    BY Appended
  <2> QED BY <2>1 DEF Entry
<1>2. \A i \in Holds : log'[i] = log[i]
  BY HoldsAfter
<1> HIDE DEF n
<1>3. ASSUME target # Company
      PROVE  HeldSources' = HeldSources /\ HeldRoles' = HeldRoles /\ (NotErased' <=> NotErased)
  <2>1. Holds' = Holds
    BY HoldsAfter, <1>3
  <2> QED BY <1>2, <2>1 DEF HeldSources, HeldRoles, NotErased
<1>4. ASSUME target = Company, action # "enable"
      PROVE  /\ HeldSources' = HeldSources \cup sources
             /\ HeldRoles' = HeldRoles \cup (IF action = "withdraw" THEN roles ELSE {})
             /\ NotErased' <=> NotErased /\ action # "erase"
  <2>1. Holds' = Holds \cup {n + 1}
    BY HoldsAfter, <1>4 DEF n
  <2>2. HeldSources' = UNION {log'[i].sources : i \in Holds \cup {n + 1}}
    BY <2>1 DEF HeldSources
  <2>3. HeldRoles' = UNION {log'[i].roles : i \in {j \in Holds \cup {n + 1} : log'[j].action = "withdraw"}}
    BY <2>1 DEF HeldRoles
  <2>4. HeldSources' = HeldSources \cup sources
    BY <1>1, <1>2, <2>2 DEF HeldSources
  <2>5. HeldRoles' = HeldRoles \cup (IF action = "withdraw" THEN roles ELSE {})
    BY <1>1, <1>2, <2>3 DEF HeldRoles
  <2>6. NotErased' <=> NotErased /\ action # "erase"
    BY <1>1, <1>2, <2>1 DEF NotErased
  <2> QED BY <2>4, <2>5, <2>6
<1> QED BY <1>3, <1>4

LEMMA KeptAfter ==
    ASSUME log \in Seq(Records), NEW target \in Sources \cup {Company},
           NEW action \in HoldActions \cup {"enable"},
           NEW sources \in SUBSET Sources, NEW roles \in SUBSET Roles,
           Record(target, action, sources, roles),
           NEW s \in Sources
    PROVE  s \in KeptOff' <=> IF s = target THEN action = "disable" ELSE s \in KeptOff
<1>1. s \in KeptOff <=> LatestIs(s, {"disable"})
  BY DEF KeptOff
<1>2. s \in KeptOff' <=> LatestIs(s, {"disable"})'
  BY DEF KeptOff
<1>3. LatestIs(s, {"disable"})' <=> IF s = target THEN action \in {"disable"} ELSE LatestIs(s, {"disable"})
  BY LatestAfter
<1> QED BY <1>1, <1>2, <1>3

\* Without a record nothing of this changes.
LEMMA NoRecord ==
    ASSUME log' = log
    PROVE  /\ Holds' = Holds /\ (Held' <=> Held) /\ KeptOff' = KeptOff
           /\ HeldSources' = HeldSources /\ HeldRoles' = HeldRoles
           /\ (NotErased' <=> NotErased) /\ (HoldIsTheLatest' <=> HoldIsTheLatest)
           /\ (CompanyHold' <=> CompanyHold)
<1>1. \A t : Of(t)' = Of(t)
  BY DEF Of
<1>2. \A t, A : LatestIs(t, A)' <=> LatestIs(t, A)
  BY DEF LatestIs, Of
<1>3. Holds' = Holds
  BY DEF Holds, Of
<1>4. CompanyHold' <=> CompanyHold
  BY <1>2 DEF CompanyHold
<1>5. KeptOff' = KeptOff
  BY DEF KeptOff, LatestIs, Of
<1>6. Held' <=> Held
  BY <1>3 DEF Held
<1>7. HoldIsTheLatest' <=> HoldIsTheLatest
  BY DEF HoldIsTheLatest, Held, CompanyHold, Holds, LatestIs, Of
<1> QED BY <1>3, <1>4, <1>5, <1>6, <1>7 DEF HeldSources, HeldRoles, NotErased

-----------------------------------------------------------------------------
(* Types. *)

LEMMA SourceTypes ==
    ASSUME source \in [Sources -> {"absent", "on", "off"}], NEW S
    PROVE  /\ Enabled \subseteq Stored /\ Stored \subseteq Sources
           /\ TurnOff(S) => source' \in [Sources -> {"absent", "on", "off"}]
           /\ TurnOn(S) => source' \in [Sources -> {"absent", "on", "off"}]
BY DEF Enabled, Stored, TurnOff, TurnOn

LEMMA RememberTypes ==
    ASSUME TypeOK, NEW listed \in SUBSET Roles, Remember(listed)
    PROVE  before' \in [on : SUBSET Sources, stored : SUBSET Sources,
                        listed : SUBSET Roles, roles : SUBSET Roles]
<1>1. Enabled \subseteq Sources /\ Stored \subseteq Sources
  BY DEF Enabled, Stored
<1>2. /\ before.on \subseteq Sources /\ before.listed \subseteq Roles /\ before.roles \subseteq Roles
  BY DEF TypeOK
<1>3. {r \in Roles : role[r] # "absent"} \subseteq Roles
  OBVIOUS
<1> QED BY <1>1, <1>2, <1>3 DEF Remember

\* A record of a command passes the table's constraints.
LEMMA Recorded ==
    ASSUME TypeOK, NEW target \in Sources \cup {Company}, NEW action \in HoldActions \cup {"enable"},
           NEW sources \in SUBSET Sources, NEW roles \in SUBSET Roles,
           Record(target, action, sources, roles),
           action \in {"withdraw", "erase"} => target = Company,
           action = "disable" => roles = {}
    PROVE  log' \in Seq(Records) /\ \A i \in DOMAIN log' : Admitted(log'[i])
<1>1. log \in Seq(Records) /\ \A i \in DOMAIN log : Admitted(log[i])
  BY DEF TypeOK
<1>2. log' \in Seq(Records)
  BY <1>1, LogType
<1>3. Admitted(Entry(target, action, sources, roles))
  BY DEF Admitted, Entry
<1>4. /\ Len(log) \in Nat /\ DOMAIN log = 1..Len(log) /\ DOMAIN log' = 1..(Len(log) + 1)
      /\ log'[Len(log) + 1] = Entry(target, action, sources, roles)
      /\ \A i \in 1..Len(log) : log'[i] = log[i]
  BY <1>1, Appended
<1>5. \A i \in DOMAIN log' : i \in DOMAIN log \/ i = Len(log) + 1
  BY <1>4
<1>6. \A i \in DOMAIN log' : Admitted(log'[i])
  BY <1>1, <1>3, <1>4, <1>5
<1> QED BY <1>2, <1>6

LEMMA TypeStep == TypeOK /\ [Next]_vars => TypeOK'
<1> SUFFICES ASSUME TypeOK, [Next]_vars PROVE TypeOK'
  OBVIOUS
<1> DEFINE SourceT == source' \in [Sources -> {"absent", "on", "off"}]
           RoleT == role' \in [Roles -> {"absent", "active", "inactive", "superseded"}]
           LogT == log' \in Seq(Records) /\ \A i \in DOMAIN log' : Admitted(log'[i])
           WriterT == saving' \in BOOLEAN /\ collecting' \in BOOLEAN /\ splitting' \in SUBSET Roles
           BeforeT == before' \in [on : SUBSET Sources, stored : SUBSET Sources,
                                   listed : SUBSET Roles, roles : SUBSET Roles]
<1>0. ASSUME SourceT, RoleT, LogT, WriterT, BeforeT PROVE TypeOK'
  BY <1>0 DEF TypeOK
<1>a. /\ source \in [Sources -> {"absent", "on", "off"}]
      /\ role \in [Roles -> {"absent", "active", "inactive", "superseded"}]
      /\ Enabled \subseteq Sources /\ Active \subseteq Roles
  BY DEF TypeOK, Enabled, Active
<1>b. UNCHANGED writers => WriterT
  BY DEF TypeOK, writers
<1>c. UNCHANGED before => BeforeT
  BY DEF TypeOK
<1>d. UNCHANGED role => RoleT
  BY DEF TypeOK
<1>e. UNCHANGED log => LogT
  BY DEF TypeOK
<1>f. UNCHANGED source => SourceT
  BY DEF TypeOK
<1>g. /\ \A a \in {"disable", "withdraw", "erase", "enable"} : a \in HoldActions \cup {"enable"}
      /\ Company \in Sources \cup {Company}
  BY DEF HoldActions
<1> HIDE DEF SourceT, RoleT, LogT, WriterT, BeforeT
<1>1. ASSUME NEW s \in Sources, DisableSource(s) PROVE TypeOK'
  <2>1. SourceT
    BY <1>1, <1>a, SourceTypes DEF DisableSource, SourceT
  <2>2. LogT
    BY <1>1, <1>a, <1>g, Recorded DEF DisableSource, LogT
  <2> QED BY <1>0, <1>1, <1>b, <1>c, <1>d, <2>1, <2>2 DEF DisableSource
<1>2. ASSUME NEW s \in Sources, EnableSource(s) PROVE TypeOK'
  <2>1. SourceT
    BY <1>2, <1>a, SourceTypes DEF EnableSource, SourceT
  <2>2. LogT
    BY <1>2, <1>a, <1>g, Recorded DEF EnableSource, LogT
  <2> QED BY <1>0, <1>2, <1>b, <1>c, <1>d, <2>1, <2>2 DEF EnableSource
<1>3. ASSUME NEW s \in Sources, SaveSource(s) PROVE TypeOK'
  <2>1. SourceT
    BY <1>3, <1>a, SourceTypes DEF SaveSource, SourceT
  <2> QED BY <1>0, <1>3, <1>b, <1>c, <1>d, <1>e, <2>1 DEF SaveSource
<1>4. CASE DisableCompany
  <2>1. SourceT
    BY <1>4, <1>a, SourceTypes DEF DisableCompany, SourceT
  <2>2. LogT
    BY <1>4, <1>a, <1>g, Recorded DEF DisableCompany, LogT
  <2>3. BeforeT
    BY <1>4, RememberTypes DEF DisableCompany, BeforeT
  <2> QED BY <1>0, <1>4, <1>b, <1>d, <2>1, <2>2, <2>3 DEF DisableCompany
<1>5. CASE Withdraw
  <2>1. SourceT
    BY <1>5, <1>a, SourceTypes DEF Withdraw, SourceT
  <2>2. LogT
    BY <1>5, <1>a, <1>g, Recorded DEF Withdraw, LogT
  <2>3. BeforeT
    BY <1>5, <1>a, RememberTypes DEF Withdraw, BeforeT
  <2>4. RoleT
    BY <1>5, <1>a DEF Withdraw, RoleT
  <2> QED BY <1>0, <1>5, <1>b, <2>1, <2>2, <2>3, <2>4 DEF Withdraw
<1>6. CASE Lift
  <2>1. SourceT
    BY <1>6, <1>a, SourceTypes DEF Lift, SourceT
  <2>2. Restored \subseteq Sources /\ Listed \subseteq Roles
    <3>1. \A i \in Holds : log[i] \in Records
      BY DEF TypeOK, Holds, Of
    <3> QED BY <3>1 DEF Restored, Listed, HeldSources, HeldRoles, Records
  <2>3. LogT
    BY <1>6, <1>g, <2>2, Recorded DEF Lift, LogT
  <2>4. RoleT
    BY <1>6, <1>a DEF Lift, RoleT
  <2> QED BY <1>0, <1>6, <1>b, <1>c, <2>1, <2>3, <2>4 DEF Lift
<1>7. CASE Erase
  <2>1. {r \in Roles : role[r] # "absent"} \subseteq Roles
    OBVIOUS
  <2>2. LogT
    BY <1>7, <1>g, <2>1, Recorded DEF Erase, LogT
  <2>3. RoleT
    BY <1>7 DEF Erase, RoleT
  <2> QED BY <1>0, <1>7, <1>b, <1>c, <1>f, <2>2, <2>3 DEF Erase
<1>8. CASE StartSaving \/ StopSaving \/ StartCollecting \/ StopCollecting
           \/ StartSplitting \/ StopSplitting
  <2>1. WriterT
    BY <1>8, <1>a DEF TypeOK, WriterT, StartSaving, StopSaving, StartCollecting, StopCollecting,
                      StartSplitting, StopSplitting
  <2> QED BY <1>0, <1>8, <1>c, <1>d, <1>e, <1>f, <2>1
          DEF StartSaving, StopSaving, StartCollecting, StopCollecting, StartSplitting, StopSplitting
<1>9. ASSUME NEW r \in Roles, SaveRole(r) PROVE TypeOK'
  <2>1. RoleT
    BY <1>9, <1>a DEF SaveRole, RoleT
  <2> QED BY <1>0, <1>9, <1>b, <1>c, <1>e, <1>f, <2>1 DEF SaveRole
<1>10. ASSUME NEW r \in Roles, NEW target \in Roles, Split(r, target) PROVE TypeOK'
  <2>1. RoleT
    BY <1>10, <1>a DEF Split, RoleT
  <2> QED BY <1>0, <1>10, <1>b, <1>c, <1>e, <1>f, <2>1 DEF Split
<1>11. CASE UNCHANGED vars
  <2>1. UNCHANGED <<source, role, log, before>> /\ UNCHANGED writers
    BY <1>11 DEF vars
  <2> QED BY <1>0, <1>b, <1>c, <1>d, <1>e, <1>f, <2>1
<1> QED BY <1>1, <1>2, <1>3, <1>4, <1>5, <1>6, <1>7, <1>8, <1>9, <1>10, <1>11 DEF Next

-----------------------------------------------------------------------------
(* The invariant. *)

LEMMA InvInit == Init => IInv
<1> SUFFICES ASSUME Init PROVE IInv
  OBVIOUS
<1>1. Len(log) = 0 /\ DOMAIN log = {}
  BY DEF Init
<1>2. \A t : Of(t) = {}
  BY <1>1 DEF Of
<1>3. Holds = {} /\ ~Held /\ ~CompanyHold /\ KeptOff = {}
  BY <1>2 DEF Holds, Held, CompanyHold, KeptOff, LatestIs
<1>4. TypeOK
  <2>1. log \in Seq(Records) /\ \A i \in DOMAIN log : Admitted(log[i])
    BY <1>1 DEF Init
  <2>2. /\ source \in [Sources -> {"absent", "on", "off"}]
        /\ role \in [Roles -> {"absent", "active", "inactive", "superseded"}]
    BY DEF Init
  <2>3. /\ saving \in BOOLEAN /\ collecting \in BOOLEAN /\ splitting \subseteq Roles
        /\ before \in [on : SUBSET Sources, stored : SUBSET Sources,
                       listed : SUBSET Roles, roles : SUBSET Roles]
    BY DEF Init, Nothing
  <2> QED BY <2>1, <2>2, <2>3 DEF TypeOK
<1>5. HoldIsTheLatest
  <2>1. Held \in BOOLEAN /\ CompanyHold \in BOOLEAN
    BY DEF Held, CompanyHold, LatestIs
  <2> QED BY <1>3, <2>1 DEF HoldIsTheLatest
<1> QED BY <1>3, <1>4, <1>5 DEF IInv, KeptIsOff, HoldsAreRemembered, TakenRolesAreOff

\* The steps without a record: what is off and what was taken stay.
LEMMA InvQuiet ==
    ASSUME IInv, [Next]_vars, log' = log, before' = before,
           \A s \in Sources : source[s] = "off" => source'[s] = "off",
           \A r \in Roles : role[r] \in {"inactive", "superseded"} => role'[r] \in {"inactive", "superseded"}
    PROVE  IInv'
<1>1. TypeOK'
  BY TypeStep DEF IInv
<1>2. /\ Holds' = Holds /\ (Held' <=> Held) /\ KeptOff' = KeptOff
      /\ HeldSources' = HeldSources /\ HeldRoles' = HeldRoles
      /\ (NotErased' <=> NotErased) /\ (HoldIsTheLatest' <=> HoldIsTheLatest)
  BY NoRecord
<1>3. before.stored \subseteq Sources /\ before.roles \subseteq Roles
  BY DEF IInv, TypeOK
<1>4. KeptIsOff'
  BY <1>2 DEF IInv, KeptIsOff, KeptOff
<1>5. HoldsAreRemembered'
  BY <1>2, <1>3 DEF IInv, HoldsAreRemembered
<1>6. TakenRolesAreOff'
  BY <1>2, <1>3 DEF IInv, TakenRolesAreOff
<1> QED BY <1>1, <1>2, <1>4, <1>5, <1>6 DEF IInv

\* The commands that name a source: the company's holds and roles are left alone.
LEMMA InvOwn ==
    ASSUME IInv, [Next]_vars, NEW s \in Sources, DisableSource(s) \/ EnableSource(s)
    PROVE  IInv'
<1>1. PICK action \in {"disable", "enable"}, sources \in SUBSET Sources :
          /\ Record(s, action, sources, {})
          /\ action = "disable" => source'[s] = "off"
          /\ \A t \in Sources : t # s \/ action = "disable" => (source[t] = "off" => source'[t] = "off")
          /\ action = "enable" => ~Held
  <2>1. {s} \cap Enabled \in SUBSET Sources /\ {s} \ Enabled \in SUBSET Sources
    OBVIOUS
  <2>2. ASSUME DisableSource(s) PROVE source'[s] = "off" /\ \A t \in Sources : source[t] = "off" => source'[t] = "off"
    BY <2>2 DEF DisableSource, TurnOff, Enabled, Stored, IInv, TypeOK
  <2>3. ASSUME EnableSource(s) PROVE \A t \in Sources : t # s => (source[t] = "off" => source'[t] = "off")
    BY <2>3 DEF EnableSource, TurnOn
  <2>4. CASE DisableSource(s)
    BY <2>1, <2>2, <2>4 DEF DisableSource
  <2>5. CASE EnableSource(s)
    BY <2>1, <2>3, <2>5 DEF EnableSource
  <2> QED BY <2>4, <2>5
<1>2. /\ log \in Seq(Records) /\ s \in Sources \cup {Company} /\ s # Company
      /\ action \in HoldActions \cup {"enable"} /\ {} \in SUBSET Roles
  BY TakedownConstants DEF IInv, TypeOK, HoldActions
<1>3. UNCHANGED <<role, before>>
  BY DEF DisableSource, EnableSource
<1>4. TypeOK'
  BY TypeStep DEF IInv
<1>5. HoldIsTheLatest' /\ (Held' <=> Held)
  BY <1>1, <1>2, HeldAfter DEF IInv
<1>6. HeldSources' = HeldSources /\ HeldRoles' = HeldRoles /\ (NotErased' <=> NotErased)
  BY <1>1, <1>2, TakenAfter
<1>7. KeptIsOff'
  <2> SUFFICES ASSUME NEW t \in Sources, t \in KeptOff' PROVE source'[t] = "off"
    BY DEF KeptIsOff, KeptOff
  <2>1. IF t = s THEN action = "disable" ELSE t \in KeptOff
    BY <1>1, <1>2, KeptAfter
  <2>2. t \in KeptOff => source[t] = "off"
    BY DEF IInv, KeptIsOff
  <2> QED BY <1>1, <2>1, <2>2
<1>8. HoldsAreRemembered'
  <2> SUFFICES ASSUME Held PROVE HoldsAreRemembered'
    BY <1>5 DEF HoldsAreRemembered
  <2>1. action = "disable"
    BY <1>1
  <2>2. before.stored \subseteq Sources
    BY DEF IInv, TypeOK
  <2> QED BY <1>1, <1>3, <1>6, <2>1, <2>2 DEF IInv, HoldsAreRemembered
<1>9. TakenRolesAreOff'
  BY <1>3, <1>5, <1>6 DEF IInv, TakenRolesAreOff
<1> QED BY <1>4, <1>5, <1>7, <1>8, <1>9 DEF IInv

\* A stop or a withdrawal takes what is on and listed, and remembers it.
LEMMA InvHold ==
    ASSUME IInv, [Next]_vars, DisableCompany \/ Withdraw
    PROVE  IInv'
<1>1. PICK action \in {"disable", "withdraw"}, roles \in SUBSET Roles :
          /\ Record(Company, action, Enabled, roles) /\ TurnOff(Enabled) /\ Remember(roles)
          /\ action = "disable" => roles = {} /\ role' = role
          /\ action = "withdraw" =>
                /\ roles = Active
                /\ role' = [r \in Roles |-> IF r \in Active THEN "inactive" ELSE role[r]]
  <2>1. {} \in SUBSET Roles /\ Active \in SUBSET Roles
    BY DEF Active
  <2> QED BY <2>1 DEF DisableCompany, Withdraw
<1>2. /\ log \in Seq(Records) /\ Company \in Sources \cup {Company}
      /\ action \in HoldActions \cup {"enable"} /\ Enabled \in SUBSET Sources
      /\ action # "enable" /\ action # "erase"
  BY DEF IInv, TypeOK, HoldActions, Enabled
<1>3. TypeOK'
  BY TypeStep DEF IInv
<1>4. HoldIsTheLatest' /\ Held'
  BY <1>1, <1>2, HeldAfter DEF IInv
<1>5. /\ HeldSources' = HeldSources \cup Enabled
      /\ HeldRoles' = HeldRoles \cup roles
      /\ NotErased' <=> NotErased
  <2>1. /\ HeldSources' = HeldSources \cup Enabled
        /\ HeldRoles' = HeldRoles \cup (IF action = "withdraw" THEN roles ELSE {})
        /\ NotErased' <=> NotErased /\ action # "erase"
    BY <1>1, <1>2, TakenAfter
  <2> QED BY <1>1, <1>2, <2>1
<1>6. ~Held => HeldSources = {} /\ HeldRoles = {}
  BY DEF Held, HeldSources, HeldRoles
<1>7. /\ before'.on = Enabled \cup (IF Held THEN before.on ELSE {})
      /\ before'.stored = Stored
      /\ before'.listed = roles \cup (IF Held THEN before.listed ELSE {})
      /\ before'.roles = IF roles # {} THEN {r \in Roles : role[r] # "absent"}
                         ELSE IF Held THEN before.roles ELSE {}
  BY <1>1 DEF Remember
<1>8. /\ \A s \in Stored : source'[s] = "off"
      /\ \A s \in Sources : source[s] = "off" => source'[s] = "off"
  BY <1>1 DEF TurnOff, Stored, Enabled, IInv, TypeOK
<1>9. KeptIsOff'
  <2> SUFFICES ASSUME NEW t \in Sources, t \in KeptOff' PROVE source'[t] = "off"
    BY DEF KeptIsOff, KeptOff
  <2>1. t \in KeptOff
    BY <1>1, <1>2, KeptAfter, TakedownConstants
  <2> QED BY <1>8, <2>1 DEF IInv, KeptIsOff
<1>10. HoldsAreRemembered'
  <2>1. Held => HeldSources = before.on /\ HeldRoles = before.listed /\ before.on \subseteq Stored
    <3> SUFFICES ASSUME Held PROVE before.on \subseteq Stored
      BY DEF IInv, HoldsAreRemembered
    <3>1. \A s \in before.on : s \in Sources /\ source[s] = "off"
      BY DEF IInv, HoldsAreRemembered, TypeOK
    <3> QED BY <3>1 DEF Stored
  <2>2. HeldSources' = before'.on /\ HeldRoles' = before'.listed
    BY <1>5, <1>6, <1>7, <2>1
  <2>3. before'.on \subseteq before'.stored
    BY <1>7, <2>1 DEF Enabled, Stored
  <2> QED BY <1>7, <1>8, <2>2, <2>3 DEF HoldsAreRemembered
<1>11. TakenRolesAreOff'
  <2> SUFFICES ASSUME NotErased, NEW r \in before'.roles PROVE role'[r] \in {"inactive", "superseded"}
    BY <1>5 DEF TakenRolesAreOff
  <2>1. role \in [Roles -> {"absent", "active", "inactive", "superseded"}]
    BY DEF IInv, TypeOK
  <2>2. CASE roles # {}
    BY <1>1, <1>7, <2>1, <2>2 DEF Active
  <2>3. CASE roles = {}
    <3>1. Held /\ r \in before.roles /\ r \in Roles
      BY <1>7, <2>3 DEF IInv, TypeOK
    <3>2. role[r] \in {"inactive", "superseded"}
      BY <3>1 DEF IInv, TakenRolesAreOff
    <3> QED BY <1>1, <3>1, <3>2
  <2> QED BY <2>2, <2>3
<1> QED BY <1>3, <1>4, <1>9, <1>10, <1>11 DEF IInv

LEMMA InvLift ==
    ASSUME IInv, [Next]_vars, Lift
    PROVE  IInv'
<1>1. Record(Company, "enable", Restored, Listed) /\ TurnOn(Restored)
  BY DEF Lift
<1>2. \A i \in Holds : log[i] \in Records
  BY DEF IInv, TypeOK, Holds, Of
<1>3. /\ log \in Seq(Records) /\ Company \in Sources \cup {Company}
      /\ "enable" \in HoldActions \cup {"enable"}
      /\ Restored \in SUBSET Sources /\ Listed \in SUBSET Roles
  BY <1>2 DEF IInv, TypeOK, Restored, Listed, HeldSources, HeldRoles, Records
<1>4. TypeOK'
  BY TypeStep DEF IInv
<1>5. HoldIsTheLatest' /\ ~Held'
  BY <1>1, <1>3, HeldAfter DEF IInv
<1>6. KeptIsOff'
  <2> SUFFICES ASSUME NEW t \in Sources, t \in KeptOff' PROVE source'[t] = "off"
    BY DEF KeptIsOff, KeptOff
  <2>1. t \in KeptOff
    BY <1>1, <1>3, KeptAfter, TakedownConstants
  <2>2. source[t] = "off" /\ t \notin Restored
    BY <2>1 DEF IInv, KeptIsOff, Restored
  <2> QED BY <1>1, <2>2 DEF TurnOn
<1> QED BY <1>4, <1>5, <1>6 DEF IInv, HoldsAreRemembered, TakenRolesAreOff

\* An erasure is of a company that is held.
LEMMA InvErase ==
    ASSUME IInv, [Next]_vars, Erase
    PROVE  IInv'
<1> DEFINE gone == {r \in Roles : role[r] # "absent"}
<1>1. Record(Company, "erase", {}, gone) /\ UNCHANGED <<source, before>>
  BY DEF Erase
<1>2. /\ log \in Seq(Records) /\ Company \in Sources \cup {Company}
      /\ "erase" \in HoldActions \cup {"enable"} /\ "erase" # "enable"
      /\ {} \in SUBSET Sources /\ gone \in SUBSET Roles
  BY DEF IInv, TypeOK, HoldActions
<1> HIDE DEF gone
<1>3. Held
  <2>1. CompanyHold
    BY DEF Erase, CompanyHold, LatestIs, HoldActions
  <2> QED BY <2>1 DEF IInv, HoldIsTheLatest
<1>4. TypeOK'
  BY TypeStep DEF IInv
<1>5. HoldIsTheLatest' /\ Held'
  BY <1>1, <1>2, HeldAfter DEF IInv
<1>6. HeldSources' = HeldSources /\ HeldRoles' = HeldRoles /\ ~NotErased'
  <2>1. /\ HeldSources' = HeldSources \cup {}
        /\ HeldRoles' = HeldRoles \cup (IF "erase" = "withdraw" THEN gone ELSE {})
        /\ NotErased' <=> NotErased /\ "erase" # "erase"
    BY <1>1, <1>2, TakenAfter
  <2> QED BY <2>1
<1>7. KeptIsOff'
  <2> SUFFICES ASSUME NEW t \in Sources, t \in KeptOff' PROVE source'[t] = "off"
    BY DEF KeptIsOff, KeptOff
  <2>1. t \in KeptOff
    BY <1>1, <1>2, KeptAfter, TakedownConstants
  <2> QED BY <1>1, <2>1 DEF IInv, KeptIsOff
<1>8. HoldsAreRemembered'
  BY <1>1, <1>3, <1>6 DEF IInv, HoldsAreRemembered
<1> QED BY <1>4, <1>5, <1>6, <1>7, <1>8 DEF IInv, TakenRolesAreOff

LEMMA InvStep == IInv /\ [Next]_vars => IInv'
<1> SUFFICES ASSUME IInv, [Next]_vars PROVE IInv'
  OBVIOUS
<1>a. TypeOK
  BY DEF IInv
<1>1. ASSUME NEW s \in Sources, DisableSource(s) \/ EnableSource(s) PROVE IInv'
  BY <1>1, InvOwn
<1>2. CASE DisableCompany \/ Withdraw
  BY <1>2, InvHold
<1>3. CASE Lift
  BY <1>3, InvLift
<1>4. CASE Erase
  BY <1>4, InvErase
<1>5. ASSUME NEW s \in Sources, SaveSource(s) PROVE IInv'
  <2>1. /\ log' = log /\ before' = before /\ role' = role
        /\ \A t \in Sources : source[t] = "off" => source'[t] = "off"
    BY <1>5 DEF SaveSource, TurnOn, Stored
  <2> QED BY <2>1, InvQuiet
<1>6. CASE StartSaving \/ StopSaving \/ StartCollecting \/ StopCollecting
           \/ StartSplitting \/ StopSplitting \/ UNCHANGED vars
  <2>1. UNCHANGED <<source, role, log, before>>
    BY <1>6 DEF StartSaving, StopSaving, StartCollecting, StopCollecting, StartSplitting,
                StopSplitting, vars
  <2> QED BY <2>1, InvQuiet
<1>7. ASSUME NEW r \in Roles, SaveRole(r) PROVE IInv'
  <2>1. /\ UNCHANGED <<log, before, source>>
        /\ \A o \in Roles : role[o] \in {"inactive", "superseded"} => role'[o] \in {"inactive", "superseded"}
    BY <1>7, <1>a DEF SaveRole, TypeOK
  <2> QED BY <2>1, InvQuiet
<1>8. ASSUME NEW r \in Roles, NEW target \in Roles, Split(r, target) PROVE IInv'
  <2>1. /\ UNCHANGED <<log, before, source>>
        /\ \A o \in Roles : role[o] \in {"inactive", "superseded"} => role'[o] \in {"inactive", "superseded"}
    BY <1>8, <1>a DEF Split, TypeOK
  <2> QED BY <2>1, InvQuiet
<1> QED BY <1>1, <1>2, <1>3, <1>4, <1>5, <1>6, <1>7, <1>8 DEF Next

-----------------------------------------------------------------------------
(* The theorems. *)

LEMMA InvHolds == Spec => []IInv
BY InvInit, InvStep, PTL DEF Spec

\* The rows keep their types and every record of a command passes the constraints of
\* collection_takedowns, so none is refused by them (migration 0039).
THEOREM TypeCorrect == Spec => []TypeOK
<1>1. IInv => TypeOK
  BY DEF IInv
<1> QED BY <1>1, InvHolds, PTL

\* apply_collection_takedown and the worker's company_hold read the same answer from the record.
THEOREM ReadersAgree == Spec => []HoldIsTheLatest
<1>1. IInv => HoldIsTheLatest
  BY DEF IInv
<1> QED BY <1>1, InvHolds, PTL

\* What was turned off on its own, and every stored source of a held company, is off, and a
\* withdrawn role is on no product read path: no writer that began before the command turns any
\* of it on again.
THEOREM OffStaysOff == Spec => []StaysOff
<1>1. IInv => OwnDisableSticks
  BY DEF IInv, KeptIsOff, OwnDisableSticks
<1>2. IInv => HeldStaysOff
  BY DEF IInv, HoldsAreRemembered, HeldStaysOff
<1>3. IInv => WithdrawnStaysOff
  <2> SUFFICES ASSUME IInv, Holds # {}, \A i \in Holds : log[i].action # "erase"
               PROVE  \A r \in before.roles : role[r] # "active"
    BY DEF WithdrawnStaysOff
  <2> QED BY DEF IInv, TakenRolesAreOff, Held, NotErased
<1>4. IInv => StaysOff
  BY <1>1, <1>2, <1>3 DEF StaysOff
<1> QED BY <1>4, InvHolds, PTL

\* Only the lift writes the record of a lift.
LEMMA LiftingIsLift ==
    ASSUME IInv, [Next]_vars, Lifting
    PROVE  Lift
<1>1. log \in Seq(Records) /\ Len(log) \in Nat
  BY DEF IInv, TypeOK
<1>2. log' # log
  BY <1>1 DEF Lifting
<1>3. ASSUME NEW target \in Sources \cup {Company}, NEW action, NEW sources, NEW roles,
             Record(target, action, sources, roles)
      PROVE  target = Company /\ action = "enable"
  <2>1. Len(log') = Len(log) + 1 /\ log'[Len(log) + 1] = Entry(target, action, sources, roles)
    BY <1>1, <1>3, Appended
  <2> QED BY <2>1 DEF Lifting, Entry
<1>4. ASSUME NEW s \in Sources, DisableSource(s) \/ EnableSource(s) PROVE FALSE
  BY <1>3, <1>4, TakedownConstants DEF DisableSource, EnableSource
<1>5. ASSUME DisableCompany \/ Withdraw \/ Erase PROVE FALSE
  <2>1. Company \in Sources \cup {Company} /\ "disable" # "enable" /\ "withdraw" # "enable" /\ "erase" # "enable"
    OBVIOUS
  <2> QED BY <1>3, <1>5, <2>1 DEF DisableCompany, Withdraw, Erase
<1>6. ASSUME NEW s \in Sources, SaveSource(s) PROVE FALSE
  BY <1>2, <1>6 DEF SaveSource
<1>7. ASSUME \/ StartSaving \/ StopSaving \/ StartCollecting \/ StopCollecting
             \/ StartSplitting \/ StopSplitting \/ UNCHANGED vars
             \/ \E r \in Roles : SaveRole(r) \/ \E target \in Roles : Split(r, target)
      PROVE  FALSE
  BY <1>2, <1>7 DEF StartSaving, StopSaving, StartCollecting, StopCollecting, StartSplitting,
                    StopSplitting, vars, SaveRole, Split
<1> QED BY <1>4, <1>5, <1>6, <1>7 DEF Next

\* takedown.py:12-13: a lift turns on exactly the sources its holds turned off, except one
\* disabled on its own since, and lists exactly the roles a withdrawal took that are still there.
THEOREM LiftIsTheInverse == Spec => LiftRestores /\ LiftListsAgain
<1>1. ASSUME IInv, [Next]_vars, Lifting
      PROVE  /\ \A s \in Sources : (source'[s] = "on") = (source[s] = "on" \/ s \in before.on \ KeptOff)
             /\ \A r \in Roles :
                    (role'[r] = "active") = (role[r] = "active"
                        \/ (r \in before.listed /\ role[r] \notin {"superseded", "absent"}))
  <2>1. Lift
    BY <1>1, LiftingIsLift
  <2>2. /\ HeldSources = before.on /\ HeldRoles = before.listed
        /\ \A s \in before.on : source[s] = "off"
    BY <1>1, <2>1 DEF Lift, IInv, HoldsAreRemembered
  <2>3. /\ source \in [Sources -> {"absent", "on", "off"}]
        /\ role \in [Roles -> {"absent", "active", "inactive", "superseded"}]
    BY <1>1 DEF IInv, TypeOK
  <2>4. /\ source' = [s \in Sources |-> IF s \in Restored THEN "on" ELSE source[s]]
        /\ role' = [r \in Roles |-> IF r \in Listed THEN "active" ELSE role[r]]
    BY <2>1 DEF Lift, TurnOn
  <2>5. ASSUME NEW s \in Sources
        PROVE  (source'[s] = "on") <=> (source[s] = "on" \/ s \in before.on \ KeptOff)
    BY <2>2, <2>3, <2>4 DEF Restored
  <2>6. ASSUME NEW r \in Roles
        PROVE  (role'[r] = "active") <=> (role[r] = "active"
                   \/ (r \in before.listed /\ role[r] \notin {"superseded", "absent"}))
    BY <2>2, <2>3, <2>4 DEF Listed
  <2> QED BY <2>5, <2>6
<1>2. IInv /\ [Next]_vars =>
          [Lifting => \A s \in Sources :
               (source'[s] = "on") = (source[s] = "on" \/ s \in before.on \ KeptOff)]_vars
  BY <1>1
<1>3. IInv /\ [Next]_vars =>
          [Lifting => \A r \in Roles :
               (role'[r] = "active") =
                   (role[r] = "active" \/ (r \in before.listed /\ role[r] \notin {"superseded", "absent"}))]_vars
  BY <1>1
<1>4. Spec => LiftRestores
  BY <1>2, InvHolds, PTL DEF Spec, LiftRestores
<1>5. Spec => LiftListsAgain
  BY <1>3, InvHolds, PTL DEF Spec, LiftListsAgain
<1> QED BY <1>4, <1>5

=============================================================================
