--------------------------- MODULE MCServerEvents ---------------------------
(* Instances of ServerEvents for TLC. *)
EXTENDS ServerEvents, TLC

CONSTANTS w1, w2, r1, p1

Symmetry == Permutations(Workers)
=============================================================================
