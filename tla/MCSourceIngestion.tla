------------------------ MODULE MCSourceIngestion ------------------------
(* Instances of SourceIngestion for TLC. *)
EXTENDS SourceIngestion, TLC

Symmetry == Permutations(Postings) \cup Permutations(Contents)

=============================================================================
