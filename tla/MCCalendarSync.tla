-------------------------- MODULE MCCalendarSync --------------------------
(* CalendarSync for TLC: requests, records, contents and accounts are interchangeable. *)
EXTENDS CalendarSync, TLC

Symmetry ==
    Permutations(Syncs) \cup Permutations(Records) \cup Permutations(Contents)
        \cup Permutations(Accounts)

=============================================================================
