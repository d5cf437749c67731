---------------------------- MODULE MCApplications ----------------------------
(* Instances of Applications for TLC. *)
EXTENDS Applications, TLC

CONSTANTS h1, h2, h3, i1, i2, i3

Symmetry == Permutations(Requests) \cup Permutations(Ids)
===============================================================================
