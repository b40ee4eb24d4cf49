----------------------------- MODULE MCJobEngine -----------------------------
(***************************************************************************)
(* JobEngine on small instances.  Workers are interchangeable, and so are  *)
(* callers; jobs are not, because the order of their creation matters.     *)
(***************************************************************************)
EXTENDS JobEngine, TLC

WorkerSymmetry == Permutations(Workers)
Symmetry == Permutations(Workers) \cup Permutations(Callers)
=============================================================================
