------------------------ MODULE MCAccountDeletion ------------------------
(* Instances of AccountDeletion for TLC. *)
EXTENDS AccountDeletion

CONSTANTS cal, mail

\* One callback per provider.
MCCallbackProvider == [c \in Callbacks |-> IF c = cal THEN "google_calendar" ELSE "gmail"]

=============================================================================
