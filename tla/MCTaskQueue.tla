---------------------------- MODULE MCTaskQueue ----------------------------
(* TaskQueue on small instances.                                           *)
EXTENDS TaskQueue, TLC

(* Callers and keys are interchangeable: the model only compares them.     *)
Symmetry == Permutations(Callers) \cup Permutations(Keys)
=============================================================================
