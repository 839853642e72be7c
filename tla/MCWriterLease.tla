--------------------------- MODULE MCWriterLease ---------------------------
(* Instances of WriterLease for TLC. *)
EXTENDS WriterLease, TLC

Symmetry == Permutations(Repos)
=============================================================================
