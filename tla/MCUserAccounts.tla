--------------------------- MODULE MCUserAccounts ---------------------------
(* UserAccounts on small instances.                                        *)
EXTENDS UserAccounts, TLC

Symmetry == Permutations(Names) \cup Permutations(Emails) \cup Permutations(Requests)
=============================================================================
