------------------------------ MODULE MCLibrary ------------------------------
(* Two paths, two places in the Trash, four files: two of equal bytes, and two *)
(* copies of a generated file with one id in their metadata; two requests at a  *)
(* time.  The initial states share out the bounds, and in each some files are   *)
(* absent: one call, one change by other programs and two starts for two files  *)
(* that are equal, copies or neither; two calls, one change and one start for   *)
(* the file with an id of its own; two calls and one start for equal files;     *)
(* three calls and one start for one file.                                      *)
EXTENDS Library, TLC
CONSTANTS p1, p2, t1, t2, f1, f2, f3, f4, i1, i2, i3, u1, u2
Besides == [p \in Paths |-> IF p = p1 THEN p2 ELSE p1]
Pair == [f \in Files |-> IF f = f2 THEN f1 ELSE IF f = f4 THEN f3 ELSE f]
Marks == [f \in Files |-> IF f \in {f3, f4} THEN i1 ELSE None]
Symmetry == Permutations(Requests) \cup Permutations({i2, i3}) \cup Permutations(Bins)
MCInit ==
    \/ \E some \in {{f1, f2}, {f1, f3}, {f3, f4}} : InitWith(2, 0, 0, Files \ some)
    \/ InitWith(1, 0, MaxBoots - 1, Files \ {f3})
    \/ InitWith(1, MaxMoves, MaxBoots - 1, Files \ {f1, f2})
    \/ InitWith(0, MaxMoves, MaxBoots - 1, Files \ {f1})
MCSpec == MCInit /\ [][Next]_vars
=============================================================================
