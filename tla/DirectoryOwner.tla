---------------------------- MODULE DirectoryOwner ----------------------------
(***************************************************************************)
(* What the data-directory lock promises, without files or turns: a        *)
(* process opens the directory when nobody is named as its owner, is named *)
(* from that moment until its last open is closed or it dies, and the name *)
(* of a dead owner may be taken away but a live owner's is not.            *)
(***************************************************************************)
EXTENDS Naturals

CONSTANTS
    Processes,
    Nobody

VARIABLES
    live,            \* the processes that run
    owner,           \* who the directory is said to belong to
    opens            \* how often each process has it open

vars == <<live, owner, opens>>

Init ==
    /\ live = Processes
    /\ owner = Nobody
    /\ opens = [p \in Processes |-> 0]

\* The first open of a process, which names it.
Take(p) ==
    /\ p \in live
    /\ owner = Nobody
    /\ owner' = p
    /\ opens' = [opens EXCEPT ![p] = 1]
    /\ UNCHANGED live

\* One more open of the owner.
Share(p) ==
    /\ p \in live /\ owner = p /\ opens[p] > 0
    /\ opens' = [opens EXCEPT ![p] = @ + 1]
    /\ UNCHANGED <<live, owner>>

\* One open less, or all of them when the process ends.
Close(p) ==
    /\ p \in live /\ owner = p /\ opens[p] > 0
    /\ \E n \in {0, opens[p] - 1} : opens' = [opens EXCEPT ![p] = n]
    /\ UNCHANGED <<live, owner>>

\* The owner that has nothing open any more takes its own name away.
Leave(p) ==
    /\ p \in live /\ owner = p /\ opens[p] = 0
    /\ owner' = Nobody
    /\ UNCHANGED <<live, opens>>

\* The name of a dead owner is taken away by whoever finds it.
Evict ==
    /\ owner \in Processes \ live
    /\ owner' = Nobody
    /\ UNCHANGED <<live, opens>>

Die(p) ==
    /\ p \in live
    /\ live' = live \ {p}
    /\ opens' = [opens EXCEPT ![p] = 0]
    /\ UNCHANGED owner

Next ==
    \/ Evict
    \/ \E p \in Processes : Take(p) \/ Share(p) \/ Close(p) \/ Leave(p) \/ Die(p)

Spec == Init /\ [][Next]_vars
=============================================================================
