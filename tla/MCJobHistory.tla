---------------------------- MODULE MCJobHistory ----------------------------
(***************************************************************************)
(* JobHistory on small instances, which share out the bounds:              *)
(*   meeting     three calls of any method, or two and a lost network,     *)
(*               which overlap, and one start;                             *)
(*   restarting  one call, a lost network and two starts;                  *)
(*   crashing    four calls, one after the other, and three starts, with   *)
(*               the network up, no cancel, and one message of a key.      *)
(* Workers are interchangeable, and so are callers.                        *)
(***************************************************************************)
EXTENDS JobHistory, TLC

VARIABLE instance

Symmetry == Permutations(Workers) \cup Permutations(Callers)

InTurn == Cardinality({c \in Callers : ~At(c, "idle")'}) <= 1

\* A start is kept for each stop and crash.
Bounded(n, b) ==
    /\ calls' <= n /\ boots' <= b
    /\ phase' \in {"stopping", "down"} /\ phase' # phase => boots' < b

Meeting == Bounded(3 - unreachable', 1)
Restarting == Bounded(1, 2)
Crashing ==
    /\ Bounded(4, 3) /\ InTurn /\ unreachable' = 0
    /\ \A j \in Jobs, k \in Kinds : queue'[j][k] <= 1
    /\ \A c \in Callers : act'[c].pc # "cancelWrite"

MCInit == HInit /\ instance \in {"meeting", "restarting", "crashing"}
MCNext ==
    /\ Next /\ UNCHANGED instance
    /\ instance = "meeting" => Meeting
    /\ instance = "restarting" => Restarting
    /\ instance = "crashing" => Crashing
    /\ Watch
MCSpec == MCInit /\ [][MCNext]_<<hvars, instance>>
=============================================================================
