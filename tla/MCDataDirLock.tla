---------------------------- MODULE MCDataDirLock ----------------------------
(***************************************************************************)
(* DataDirLock for a few processes, which are interchangeable.             *)
(***************************************************************************)
EXTENDS DataDirLock, TLC

Symmetry == Permutations(Processes)
=============================================================================
