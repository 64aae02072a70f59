---------------------------- MODULE MCObjects ----------------------------
(* Instance of Objects for TLC: two tags and two credentials, which are  *)
(* interchangeable.                                                      *)
EXTENDS Objects, TLC

CONSTANTS a, b, x, y, v, w
Symmetry == Permutations(Tags) \cup Permutations(Configs) \cup Permutations(Versions)
==========================================================================
