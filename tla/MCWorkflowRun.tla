---------------------------- MODULE MCWorkflowRun ----------------------------
(***************************************************************************)
(* WorkflowRun on two steps: a barrier, which an automatic run passes, and *)
(* behind it a conditional generate step that always asks, with a second   *)
(* attempt and an alternate model.  MaxCalls bounds the requests and the   *)
(* crashes together: three requests, or two and a crash.                   *)
(***************************************************************************)
EXTENDS WorkflowRun
CONSTANTS c1, c2

Graph     == <<{}, {1}>>
Approvals == <<"soft", "hard">>
Policies  == <<"fail", "skip">>
Once      == <<0, 1>>

Bounded == calls' + boots' + (IF up' THEN 0 ELSE 1) <= MaxCalls

\* One hard gate in front of one job; a request begins when no drive is under way.
OneStep  == <<{}>>
HardGate == <<"hard">>
Fails    == <<"fail">>
Never    == <<0>>
InTurn == Init /\ [][Next /\ (calls' > calls => ~queued /\ At("idle"))]_vars

MCSpec == Init /\ [][Next /\ Bounded]_vars /\ Fairness
=============================================================================
