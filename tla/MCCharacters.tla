---------------------------- MODULE MCCharacters ----------------------------
(* Two requests at a time; they are interchangeable.  The last of four calls is  *)
(* for what edits and jobs do to each other: it is asked where no process died,  *)
(* no version was chosen and no training matters.  Two references of one role    *)
(* are added by the first request only, of different roles by the first two.  A   *)
(* Character is created without references or with an anchor.                    *)
EXTENDS Characters, TLC

Symmetry == Permutations(Callers)

Quiet == crashes = 0 /\ ~switched /\ identities = {} /\ Trainers = {} /\ young = {} /\ consent
LastCall == calls = MaxCalls => Quiet
Adding == \A c \in Callers :
    /\ \A r \in call[c].rows : r.nr > 1 => r.by <= 1
    /\ call[c].op = "add" /\ call[c].n > 2 => Cardinality(call[c].rows) = 1
Created == Init /\ refs[1] \subseteq Some(0, "anchor", 1)
MCSpec == Created /\ [][Next /\ LastCall' /\ Adding']_vars
OneByOneSpec == Created /\ [][Next]_vars
=============================================================================
