----------------------------- MODULE MCShelves -----------------------------
(* Instances of Shelves for TLC.                                           *)
EXTENDS Shelves, TLC

CONSTANTS u1, u2, r1, r2, n1, b1

Symmetry == Permutations(Requests)
=============================================================================
