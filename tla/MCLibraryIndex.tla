--------------------------- MODULE MCLibraryIndex ---------------------------
(* Instances of LibraryIndex for TLC.                                      *)
EXTENDS LibraryIndex, TLC

CONSTANTS t1, t2, c1, c2, i1, s1

TwoRoots   == {1, 2}
ThreeRoots == {1, 2, 3}
OneRoot    == {1}
OneName  == {1}
TwoNames == {1, 2}
AllPaths == Paths
NoPaths  == {}
FirstPath == {<<1, 1>>}

(* Files change only between scans.                                        *)
BetweenScans == Busy => scan.quiet

(* A clear, and a shelf with a row, leave one change to the files fewer.   *)
FewThingsHappen ==
  changes + used.clears + (IF shelf = {} THEN 0 ELSE 1) <= MaxChanges

Symmetry == Permutations(Titles) \cup Permutations(Callbacks)
=============================================================================
