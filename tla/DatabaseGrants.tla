----------------------------- MODULE DatabaseGrants -----------------------------
(* Who may read and write the hosted database, and what the acceptance check
   (scripts/verify-supabase.mjs, scripts/lib/grant-contract.mjs) proves about it.
   The migrations bring a project whose default privileges grant the API roles
   everything, or nothing, to one contract; later changes made by hand drift from
   it, and a run of the check that is green has to mean that none did.  One table
   stands for each class of tables, and one more is created after the check. *)
EXTENDS Naturals, Sequences, FiniteSets

CONSTANT MaxDrifts   \* bound on the changes made by hand

VARIABLES grants,     \* privileges granted, to a role or to PUBLIC
          defaults,   \* privileges the next table will be created with
          tables,     \* the tables that exist
          secured,    \* the tables whose row level security is on
          policies,   \* the policies on each table
          callers,    \* who may execute the service-only functions
          applied,    \* the migrations applied
          surface,    \* the other facts the check reads
          checked,    \* the last verdict, and whether nothing changed since
          drifts

grantVars == <<grants, defaults, tables, secured, policies, callers, applied, surface, checked, drifts>>

Roles == {"anon", "authenticated", "service_role"}
Grantees == Roles \cup {"PUBLIC"}
REFERENCE_TABLES == {"companies"}
USER_OWNED_TABLES == {"watchlist_items"}
SERVICE_ONLY_TABLES == {"agent_runs"}
ALL_TABLES == REFERENCE_TABLES \cup USER_OWNED_TABLES \cup SERVICE_ONLY_TABLES
NewTable == "next"
Migrations == <<"guest_access", "revoke_authenticated_writes", "explicit_api_role_grants">>

Reads == "SELECT"
Writes == "INSERT"
ColumnWrites == "UPDATE (alerts_enabled)"
Privileges == {Reads, Writes, ColumnWrites}
TablePrivileges == {Reads, Writes}

Grant(to, on, what) == [to |-> to, on |-> on, what |-> what]
Default(to, what) == [to |-> to, what |-> what]

\* has_table_privilege: through the role itself or through PUBLIC.
Holds(role, on, what) == Grant(role, on, what) \in grants \/ Grant("PUBLIC", on, what) \in grants

AUTHENTICATED_READS == REFERENCE_TABLES \cup USER_OWNED_TABLES
AUTHENTICATED_WRITES == {<<"watchlist_items", Writes>>, <<"watchlist_items", ColumnWrites>>}

\* A column privilege counts only where the table-level one is absent.
AuthenticatedWrites == {w \in tables \X {Writes, ColumnWrites} : Holds("authenticated", w[1], w[2])}

AuthenticatedWriteViolations ==
  (AuthenticatedWrites \ AUTHENTICATED_WRITES) \cup (AUTHENTICATED_WRITES \ AuthenticatedWrites)

\* Defaults for PUBLIC are left out (grantee <> 0).
BrowserDefaultPrivileges ==
  {d \in defaults : d.to = "anon" \/ (d.to = "authenticated" /\ d.what = Writes)}

ApiRoleGrantViolations ==
  {<<"service_role", t>> : t \in {t \in tables : \E p \in TablePrivileges : ~Holds("service_role", t, p)}}
  \cup {<<"authenticated", t>> : t \in {t \in tables : Holds("authenticated", t, Reads)} \ AUTHENTICATED_READS}
  \cup {<<"authenticated", t>> : t \in {t \in AUTHENTICATED_READS : ~Holds("authenticated", t, Reads)}}

\* Each check's outcome, and the checks a run without a direct connection skips.
CheckMigrations == applied = Len(Migrations)
CheckTables == ALL_TABLES \subseteq tables
CheckRowLevelSecurity == ALL_TABLES \subseteq secured
MutantCheckGrants == \A t \in SERVICE_ONLY_TABLES, r \in {"anon", "authenticated"}, p \in TablePrivileges : ~Holds(r, t, p)
CheckUserPolicies == /\ \A t \in USER_OWNED_TABLES : "auth.uid()" \in policies[t]
                     /\ \A t \in SERVICE_ONLY_TABLES : policies[t] = {}
CheckGrants == /\ \A t \in SERVICE_ONLY_TABLES, r \in {"anon", "authenticated"}, p \in TablePrivileges : ~Holds(r, t, p)
               /\ \A t \in tables, p \in TablePrivileges : ~Holds("anon", t, p)
CheckAuthenticatedWrites == AuthenticatedWriteViolations = {} /\ BrowserDefaultPrivileges = {}
CheckApiRoleGrants == ApiRoleGrantViolations = {}
CheckFunctionGrants == callers \subseteq {"service_role"}
CheckDefinerFunctions == surface.pinned
CheckNoFixtureRows == ~surface.fixtures
CheckRestSurface == surface.rest

\* Above one page of rows the cap shows; below it the question is only noted.
CheckPagingRowCap == surface.rows = "few" \/ surface.cap

SqlChecks == /\ CheckMigrations /\ CheckTables /\ CheckRowLevelSecurity /\ CheckUserPolicies
             /\ CheckGrants /\ CheckAuthenticatedWrites /\ CheckApiRoleGrants
             /\ CheckFunctionGrants /\ CheckDefinerFunctions /\ CheckNoFixtureRows

\* Granted by default to every role, less what the migrations before these three revoked.
LeftByEarlierMigrations ==
  {g \in [to : Roles, on : ALL_TABLES, what : TablePrivileges] :
     /\ g.on \in SERVICE_ONLY_TABLES => g.to = "service_role"
     /\ g.on \in USER_OWNED_TABLES => g.to # "anon"}

GrantsInit ==
  /\ grants \in {{}, LeftByEarlierMigrations}
  /\ defaults = IF grants = {} THEN {} ELSE {Default(r, p) : r \in Roles, p \in TablePrivileges}
  /\ tables = ALL_TABLES
  /\ secured = ALL_TABLES
  /\ policies = [t \in ALL_TABLES \cup {NewTable} |->
                   IF t \in REFERENCE_TABLES THEN {"true"}
                   ELSE IF t \in USER_OWNED_TABLES THEN {"auth.uid()"} ELSE {}]
  /\ callers = {"service_role"}
  /\ applied = 0
  /\ surface = [pinned |-> TRUE, fixtures |-> FALSE, rest |-> TRUE, sql |-> "set", rows |-> "few", cap |-> TRUE]
  /\ checked = [verdict |-> "none", fresh |-> FALSE]
  /\ drifts = 0

Stale == checked' = [checked EXCEPT !.fresh = FALSE]

\* The grants that revoking everything, from one role on some tables, leaves.
Without(roles, on, what) == {g \in grants : ~(g.to \in roles /\ g.on \in on /\ g.what \in what)}

GuestAccess ==
  /\ grants' = Without({"anon"}, REFERENCE_TABLES, TablePrivileges)
  /\ defaults' = {d \in defaults : d.to # "anon"}

RevokeAuthenticatedWrites ==
  /\ grants' = Without({"authenticated"}, tables, {Writes, ColumnWrites})
                 \cup {Grant("authenticated", w[1], w[2]) : w \in AUTHENTICATED_WRITES}
  /\ defaults' = {d \in defaults : ~(d.to = "authenticated" /\ d.what = Writes)}

ExplicitApiRoleGrants ==
  /\ grants' = grants
                 \cup {Grant("service_role", t, p) : t \in tables, p \in TablePrivileges}
                 \cup {Grant("authenticated", t, Reads) : t \in AUTHENTICATED_READS}
  /\ defaults' = defaults \cup {Default("service_role", p) : p \in TablePrivileges}
                          \cup {Default("authenticated", Reads)}

Migrate ==
  /\ applied < Len(Migrations)
  /\ applied' = applied + 1
  /\ CASE applied = 0 -> GuestAccess
       [] applied = 1 -> RevokeAuthenticatedWrites
       [] applied = 2 -> ExplicitApiRoleGrants
  /\ Stale
  /\ UNCHANGED <<tables, secured, policies, callers, surface, drifts>>

ByHand == drifts < MaxDrifts /\ drifts' = drifts + 1 /\ Stale

GrantByHand ==
  /\ ByHand
  /\ \E g \in [to : Grantees, on : tables, what : Privileges] :
       \/ g \notin grants /\ grants' = grants \cup {g}
       \/ g \in grants /\ grants' = grants \ {g}
  /\ UNCHANGED <<defaults, tables, secured, policies, callers, applied, surface>>

AlterDefaults ==
  /\ ByHand
  /\ \E d \in [to : Roles, what : TablePrivileges] : defaults' = (defaults \ {d}) \cup ({d} \ defaults)
  /\ UNCHANGED <<grants, tables, secured, policies, callers, applied, surface>>

AlterTable ==
  /\ ByHand
  /\ \E t \in tables :
       \/ secured' = (secured \ {t}) \cup ({t} \ secured) /\ UNCHANGED policies
       \/ \E p \in {"auth.uid()", "true"} :
            policies' = [policies EXCEPT ![t] = (@ \ {p}) \cup ({p} \ @)] /\ UNCHANGED secured
  /\ UNCHANGED <<grants, defaults, tables, callers, applied, surface>>

AlterFunctions ==
  /\ ByHand
  /\ \/ \E r \in {"anon", "authenticated"} : callers' = callers \cup {r} /\ UNCHANGED surface
     \/ surface' = [surface EXCEPT !.pinned = FALSE] /\ UNCHANGED callers
  /\ UNCHANGED <<grants, defaults, tables, secured, policies, applied>>

SurfaceChanges ==
  /\ ByHand
  /\ \E s \in [fixtures : BOOLEAN, rest : BOOLEAN, sql : {"set", "unset", "bad"}, rows : {"few", "many"}, cap : BOOLEAN] :
       surface' = [surface EXCEPT !.fixtures = s.fixtures, !.rest = s.rest, !.sql = s.sql, !.rows = s.rows, !.cap = s.cap]
  /\ UNCHANGED <<grants, defaults, tables, secured, policies, callers, applied>>

\* What a table is created with: what the defaults grant.
CreatedWith(t) == {Grant(d.to, t, d.what) : d \in defaults}

(* The next migration's table. *)
CreateTable ==
  /\ applied = Len(Migrations) /\ NewTable \notin tables
  /\ tables' = tables \cup {NewTable}
  /\ grants' = grants \cup CreatedWith(NewTable)
  /\ secured' = secured \cup {NewTable}
  /\ Stale
  /\ UNCHANGED <<defaults, policies, callers, applied, surface, drifts>>

(* The direct connection is what the catalogue's checks need: without it each is
   skipped, and a skipped check is not a passed one. *)
Verify ==
  /\ checked' = [verdict |-> IF /\ CheckRestSurface /\ surface.sql = "set" /\ SqlChecks
                                /\ CheckPagingRowCap
                             THEN "green" ELSE "not ready",
                 fresh |-> TRUE]
  /\ UNCHANGED <<grants, defaults, tables, secured, policies, callers, applied, surface, drifts>>

GrantsNext == \/ Migrate \/ GrantByHand \/ AlterDefaults \/ AlterTable \/ AlterFunctions
              \/ SurfaceChanges \/ CreateTable \/ Verify

GrantsSpec == GrantsInit /\ [][GrantsNext]_grantVars

--------------------------------------------------------------------------------
\* What the repository says of the project: guest access (for a whole table; a column granted to
\* anon is not looked for), the writes the routes make, row security.
Contract ==
  /\ \A t \in tables, p \in TablePrivileges : ~Holds("anon", t, p) /\ Holds("service_role", t, p)
  /\ \A t \in tables : Holds("authenticated", t, Reads) <=> t \in AUTHENTICATED_READS
  /\ \A t \in tables, p \in {Writes, ColumnWrites} :
        Holds("authenticated", t, p) <=> <<t, p>> \in AUTHENTICATED_WRITES
  /\ ALL_TABLES \subseteq secured
  /\ \A t \in SERVICE_ONLY_TABLES : policies[t] = {}
  /\ callers = {"service_role"} /\ surface.pinned /\ ~surface.fixtures

(* A green check that nothing changed since means the whole contract: the browser
   roles hold exactly what the routes use and the services hold all they need,
   whatever was granted, revoked or skipped on the way. *)
GreenMeansContract == checked = [verdict |-> "green", fresh |-> TRUE] => Contract

(* The three migrations bring a project that granted everything, or nothing, by
   default to the same contract (202608140031, 038, 044). *)
MigratedMeansContract == (applied = Len(Migrations) /\ drifts = 0 /\ tables = ALL_TABLES) => Contract

(* After a green check the next table hides itself: it will be created with nothing
   for anon and no write for a signed-in session (checkAuthenticatedWrites). *)
NewTableIsClosed ==
  checked = [verdict |-> "green", fresh |-> TRUE]
    => \A g \in CreatedWith(NewTable) : g.to # "anon" /\ (g.to = "authenticated" => g.what = Reads)

(* The access contract, as the migrations make it, a green check finds it, and the next
   table inherits it. *)
ContractHolds == GreenMeansContract /\ MigratedMeansContract /\ NewTableIsClosed
================================================================================
