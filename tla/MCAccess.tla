------------------------------ MODULE MCAccess ------------------------------
(* Access on small instances.                                              *)
EXTENDS Access, TLC

Row(users_, bookmark) == [manage_users |-> users_, bookmark_link |-> bookmark]

ThreeMatrices == {Row("none", "none"), Row("grant", "revoke"), Row("revoke", "grant")}

Symmetry == Permutations(Requests) \cup Permutations(Names)
=============================================================================
