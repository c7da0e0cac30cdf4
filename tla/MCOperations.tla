------------------------------ MODULE MCOperations ------------------------------
(* The operations side for TLC: the alerts, the backup, the collection report, the
   database's contract and the preflight share no state, so a run is one of them at
   a time, chosen at the start, the others staying where they begin. *)
EXTENDS OpsAlerts, CorpusBackup, CollectionHealth, DatabaseGrants, Preflight

VARIABLE script   \* the part at work

opsVars == <<script, alertVars, backupVars, healthVars, grantVars, preflightVars>>

OpsInit ==
  /\ script \in {"alerts", "backup", "health", "grants", "preflight"}
  /\ AlertsInit /\ BackupInit /\ HealthInit /\ GrantsInit /\ PreflightInit
  /\ script # "grants" => grants = {}
  /\ script # "preflight" => file["SUPABASE_URL"] = Unset

OpsNext ==
  /\ UNCHANGED script
  /\ \/ script = "alerts" /\ AlertsNext /\ UNCHANGED <<backupVars, healthVars, grantVars, preflightVars>>
     \/ script = "backup" /\ BackupNext /\ UNCHANGED <<alertVars, healthVars, grantVars, preflightVars>>
     \/ script = "health" /\ HealthNext /\ UNCHANGED <<alertVars, backupVars, grantVars, preflightVars>>
     \/ script = "grants" /\ GrantsNext /\ UNCHANGED <<alertVars, backupVars, healthVars, preflightVars>>
     \/ script = "preflight" /\ PreflightNext /\ UNCHANGED <<alertVars, backupVars, healthVars, grantVars>>

OpsSpec == OpsInit /\ [][OpsNext]_opsVars
================================================================================
