---------------------------- MODULE MCAdminAuth ----------------------------
(* Instances of AdminAuth for TLC. *)
EXTENDS AdminAuth, TLC
Symmetry == Permutations(Requests)
=============================================================================
