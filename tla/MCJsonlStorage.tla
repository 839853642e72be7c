---------------------------- MODULE MCJsonlStorage ----------------------------
(* JsonlStorage on small instances. *)
EXTENDS JsonlStorage

Symmetry == Permutations(Ids)
=============================================================================
