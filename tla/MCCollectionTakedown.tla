----------------------- MODULE MCCollectionTakedown -----------------------
(* CollectionTakedown for TLC: sources are interchangeable, and so are roles. *)
EXTENDS CollectionTakedown, TLC

Symmetry == Permutations(Sources) \cup Permutations(Roles)

=============================================================================
