---------------------------- MODULE MCClientLeases ----------------------------
(* ClientLeases on small instances. *)
EXTENDS ClientLeases, TLC

Symmetry == Permutations(Leases)
=============================================================================
