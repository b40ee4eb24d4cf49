-------------------------- MODULE WorkflowRunProofs --------------------------
(***************************************************************************)
(* Types of WorkflowRun, and the invariants that hold for any graph, any   *)
(* gates, policies, retries and alternates, and any number of requests and *)
(* restarts.                                                               *)
(***************************************************************************)
EXTENDS WorkflowRun, TLAPS

-----------------------------------------------------------------------------
(* Types.                                                                   *)

LEMMA OneIsStep == 1 \in Steps
  BY GraphAssumption DEF Steps

LEMMA AppendJob ==
    ASSUME NEW S, NEW s \in Seq(S), NEW c \in S
    PROVE  Append(s, c) \in Seq(S) /\ Len(Append(s, c)) = Len(s) + 1
  OBVIOUS

LEMMA ReplaceJob ==
    ASSUME NEW S, NEW s \in Seq(S), NEW c \in S, NEW e
    PROVE  [s EXCEPT ![e] = c] \in Seq(S) /\ Len([s EXCEPT ![e] = c]) = Len(s)
<1>1. s \in [1 .. Len(s) -> S] /\ Len(s) \in Nat
  OBVIOUS
<1>2. [s EXCEPT ![e] = c] \in [1 .. Len(s) -> S]
  BY <1>1
<1> QED
  BY <1>1, <1>2

LEMMA RestType == Rest \in Drives
  BY OneIsStep, GraphAssumption DEF Rest, Drives, DrivePcs, RunStatuses, Nodes, Fresh, StepStatuses, Steps

LEMMA NoCallType == NoCall \in Calls
  BY OneIsStep DEF NoCall, Calls

LEMMA UpsertType ==
    ASSUME NEW old \in Rows, NEW node \in Nodes
    PROVE  Upsert(old, node) \in Rows
  BY DEF Upsert, Rows, Nodes

LEMMA CheckpointType ==
    ASSUME drive \in Drives, NEW s \in 0 .. N, NEW c \in [Steps -> Nodes],
           NEW then \in {"scan", "create", "finish"}, NEW st \in RunStatuses,
           Checkpoint(s, c, then, st)
    PROVE  drive' \in Drives
  BY OneIsStep DEF Checkpoint, Drives, DrivePcs

LEMMA GotoType ==
    ASSUME drive \in Drives, NEW p \in DrivePcs, Goto(p)
    PROVE  drive' \in Drives
  BY DEF Goto, Drives

LEMMA StepsType == Steps \subseteq 0 .. N /\ Steps \subseteq Nat
  BY GraphAssumption DEF Steps

LEMMA StatusTypes ==
    /\ {"pending", "running", "waiting", "completed", "failed", "skipped", "denied",
        "cancelled"} \subseteq StepStatuses
    /\ {"running", "awaiting", "completed", "failed", "cancelled"} \subseteq RunStatuses
    /\ {"idle", "load", "scan", "decide", "persist", "create", "mark", "wait", "finish", "throw",
        "throwRow", "throwRun"} \subseteq DrivePcs
  BY DEF StepStatuses, RunStatuses, DrivePcs

LEMMA DriveFields ==
    ASSUME drive \in Drives
    PROVE  /\ drive.pc \in DrivePcs /\ drive.copy \in [Steps -> Nodes]
           /\ drive.step \in 0 .. N /\ drive.at \in Steps
           /\ drive.after \in {"scan", "create", "finish"}
           /\ drive.tries \in Nat /\ drive.swaps \in Nat
           /\ drive.status \in RunStatuses
           /\ \A s \in Steps : /\ Node(s) \in Nodes /\ Node(s).status \in StepStatuses
                               /\ Node(s).approved \in BOOLEAN
                               /\ Node(s).attempts \in Nat /\ Node(s).job \in Nat
  BY DEF Drives, Nodes, Node

LEMMA NodeStatus ==
    ASSUME NEW n \in Nodes, NEW st \in StepStatuses
    PROVE  [n EXCEPT !.status = st] \in Nodes
  BY DEF Nodes

LEMMA RowStatus ==
    ASSUME NEW r \in Rows, NEW st \in StepStatuses, NEW n \in Nat
    PROVE  /\ [r EXCEPT !.status = st] \in Rows
           /\ [r EXCEPT !.status = st, !.job = n] \in Rows
  BY DEF Rows

LEMMA StatusType ==
    ASSUME NEW c \in [Steps -> Nodes], NEW s, NEW st \in StepStatuses
    PROVE  [c EXCEPT ![s].status = st] \in [Steps -> Nodes]
  BY DEF Nodes

LEMMA ApprovedType ==
    ASSUME NEW c \in [Steps -> Nodes], NEW s, NEW st \in StepStatuses, NEW b \in BOOLEAN
    PROVE  [c EXCEPT ![s].status = st, ![s].approved = b] \in [Steps -> Nodes]
  BY DEF Nodes

LEMMA JobType ==
    ASSUME NEW c \in [Steps -> Nodes], NEW s, NEW st \in StepStatuses, NEW n, s \in Steps => n \in Nat
    PROVE  [c EXCEPT ![s].status = st, ![s].job = n] \in [Steps -> Nodes]
  BY DEF Nodes

LEMMA CopyType ==
    ASSUME drive \in Drives, NEW c \in [Steps -> Nodes], NEW p \in DrivePcs
    PROVE  [drive EXCEPT !.pc = p, !.copy = c] \in Drives
  BY DEF Drives

LEMMA TriesType ==
    ASSUME drive \in Drives, NEW p \in DrivePcs
    PROVE  /\ [drive EXCEPT !.pc = p, !.tries = @ + 1] \in Drives
           /\ [drive EXCEPT !.pc = p, !.swaps = @ + 1] \in Drives
<1>1. drive.tries + 1 \in Nat /\ drive.swaps + 1 \in Nat
  BY DriveFields
<1>2. \A n \in Nat : /\ [drive EXCEPT !.pc = p, !.tries = n] \in Drives
                     /\ [drive EXCEPT !.pc = p, !.swaps = n] \in Drives
  BY DEF Drives
<1> QED
  BY <1>1, <1>2

LEMMA SettleType ==
    ASSUME drive \in Drives, NEW s \in Steps, NEW st \in StepStatuses, Settle(s, st)
    PROVE  drive' \in Drives
<1>1. [drive.copy EXCEPT ![s].status = st] \in [Steps -> Nodes]
  BY DEF Drives, Nodes
<1> QED
  BY <1>1, CheckpointType, StepsType DEF Settle, RunStatuses

LEMMA TypeStep == TypeOK /\ [Next]_vars => TypeOK'
<1> SUFFICES ASSUME TypeOK, [Next]_vars PROVE TypeOK'
  OBVIOUS
<1> USE OneIsStep, StepsType
<1>1. CASE Fetch
  BY <1>1 DEF TypeOK, Fetch, Goto, Drives, DrivePcs, counted
<1>2. CASE Load
  <2>1. [s \in Steps |-> [row[s] EXCEPT !.status = IF @ = "none" THEN "pending" ELSE @]] \in [Steps -> Nodes]
    BY DEF TypeOK, Rows, Nodes, StepStatuses
  <2> QED
    BY <1>2, <2>1, RestType DEF TypeOK, Load, Drives, DrivePcs, counted
<1>3. CASE Exhausted
  <2>1. drive.step \in 0 .. N /\ drive.copy \in [Steps -> Nodes] /\ drive \in Drives
    BY DEF TypeOK, Drives
  <2>2. drive' \in Drives
    BY <1>3, <2>1, CheckpointType DEF Exhausted, RunStatuses
  <2> QED
    BY <1>3, <2>2 DEF TypeOK, Exhausted, counted
<1>4. ASSUME NEW s \in Steps, Scan(s) PROVE TypeOK'
  <2>0. drive \in Drives /\ drive.copy \in [Steps -> Nodes] /\ drive.copy[s].approved \in BOOLEAN
    BY DEF TypeOK, Drives, Nodes
  <2>1. CASE SkipStep(s)
    BY <2>0, <2>1, SettleType, StatusTypes DEF TypeOK, SkipStep, counted
  <2>2. CASE AskGate(s)
    BY <2>0, <2>2 DEF TypeOK, AskGate, Drives, DrivePcs, counted
  <2>3. CASE PassBarrier(s)
    <3>1. drive' \in Drives
      <4>1. [drive.copy EXCEPT ![s].status = "completed", ![s].approved = TRUE] \in [Steps -> Nodes]
        BY <2>0, ApprovedType, StatusTypes
      <4> QED
        BY <2>0, <2>3, <4>1, CheckpointType, StatusTypes DEF PassBarrier
    <3> QED
      BY <2>3, <3>1 DEF TypeOK, PassBarrier, counted
  <2>4. CASE Enter(s)
    <3>1. [drive.copy EXCEPT ![s].status = "running", ![s].approved = @ \/ Gate[s] # "none"]
            \in [Steps -> Nodes]
      <4>1. [drive.copy EXCEPT ![s].status = "running",
                               ![s].approved = drive.copy[s].approved \/ Gate[s] # "none"]
              \in [Steps -> Nodes]
        BY <2>0, ApprovedType, StatusTypes
      <4> QED
        BY <2>0, <4>1
    <3>2. drive' \in Drives
      BY <2>0, <2>4, <3>1, CheckpointType DEF Enter, RunStatuses
    <3> QED
      BY <2>4, <3>2 DEF TypeOK, Enter, counted
  <2> QED
    BY <1>4, <2>1, <2>2, <2>3, <2>4 DEF Scan
<1>5. CASE Decide
  <2>1. /\ drive \in Drives
        /\ drive.step \in 0 .. N
        /\ [drive.copy EXCEPT ![drive.step].status = "waiting"] \in [Steps -> Nodes]
    BY StatusType, DriveFields, StatusTypes DEF TypeOK
  <2>2. drive' \in Drives
    BY <1>5, <2>1, CheckpointType DEF Decide, RunStatuses
  <2>3. row' \in [Steps -> Rows]
    BY <1>5, <2>1, UpsertType DEF TypeOK, Decide
  <2> QED
    BY <1>5, <2>2, <2>3 DEF TypeOK, Decide, counted
<1>6. CASE Persist
  <2>1. drive \in Drives /\ drive.at \in Steps /\ drive.copy \in [Steps -> Nodes]
        /\ drive.after \in DrivePcs
    BY DEF TypeOK, Drives, DrivePcs
  <2>2. row' \in [Steps -> Rows]
    BY <1>6, <2>1, UpsertType DEF TypeOK, Persist, Node
  <2>3. drive' \in Drives
    <3>1. drive.at < N => drive.at + 1 \in Steps
      BY <2>1, GraphAssumption DEF Steps
    <3> QED
      BY <1>6, <2>1, <3>1 DEF Persist, Goto, Drives
  <2> QED
    BY <1>6, <2>2, <2>3 DEF TypeOK, Persist, counted
<1>7. CASE CreateThrows
  BY <1>7 DEF TypeOK, CreateThrows, Goto, Drives, DrivePcs, counted
<1>8. CASE Create
  <2> DEFINE s == drive.step
             k == Node(s).attempts + 1
  <2>1. drive \in Drives /\ drive.copy \in [Steps -> Nodes] /\ (s \in Steps => k \in Nat)
    BY DEF TypeOK, Drives, Nodes, Node
  <2>2. [drive.copy EXCEPT ![s].attempts = k] \in [Steps -> Nodes]
    BY <2>1 DEF Nodes
  <2>3. drive' = [drive EXCEPT !.pc = "mark", !.copy = [drive.copy EXCEPT ![s].attempts = k]]
    BY <1>8, <2>1 DEF Create, Drives
  <2>4. drive' \in Drives
    BY <2>1, <2>2, <2>3, CopyType, StatusTypes
  <2>5. s \in Steps => (IF k <= Len(jobs[s]) THEN jobs[s] ELSE Append(jobs[s], "live")) \in Seq(JobStatuses)
    BY AppendJob DEF TypeOK, JobStatuses
  <2>6. jobs' \in [Steps -> Seq(JobStatuses)]
    BY <1>8, <2>5 DEF TypeOK, Create
  <2> QED
    BY <1>8, <2>4, <2>6 DEF TypeOK, Create, counted
<1>9. CASE Mark
  <2>1. drive.step \in Steps => Node(drive.step).attempts \in Nat
    BY DEF TypeOK, Drives, Nodes, Node
  <2>2. ASSUME drive.step \in Steps
        PROVE  [row[drive.step] EXCEPT !.status = "running", !.job = Node(drive.step).attempts] \in Rows
    BY <2>1, <2>2, RowStatus, StatusTypes DEF TypeOK
  <2>3. row' = [row EXCEPT ![drive.step] =
                   [row[drive.step] EXCEPT !.status = "running", !.job = Node(drive.step).attempts]]
    BY <1>9 DEF TypeOK, Mark
  <2>4. row' \in [Steps -> Rows]
    BY <2>2, <2>3 DEF TypeOK
  <2> QED
    BY <1>9, <2>4 DEF TypeOK, Mark, Goto, Drives, DrivePcs, counted
<1>10. CASE StepCompletes
  <2>1. /\ drive \in Drives /\ drive.step \in 0 .. N
        /\ drive.copy \in [Steps -> Nodes]
        /\ drive.step \in Steps => Node(drive.step).attempts \in Nat
    BY DEF TypeOK, Drives, Nodes, Node
  <2>2. drive' \in Drives
    <3>1. [drive.copy EXCEPT ![drive.step].status = "completed",
                             ![drive.step].job = Node(drive.step).attempts] \in [Steps -> Nodes]
      BY <2>1, JobType, StatusTypes
    <3> QED
      BY <1>10, <2>1, <3>1, CheckpointType, StatusTypes DEF StepCompletes
  <2> QED
    BY <1>10, <2>2 DEF TypeOK, StepCompletes, counted
<1>11. CASE RetryAttempt
  BY <1>11, TriesType, StatusTypes DEF TypeOK, RetryAttempt, counted
<1>12. CASE SwapModel
  BY <1>12, TriesType, StatusTypes DEF TypeOK, SwapModel, counted
<1>13. CASE AskSwap
  BY <1>13 DEF TypeOK, AskSwap, Goto, Drives, DrivePcs, counted
<1>14. CASE AskModerated
  <2> DEFINE s == drive.step
             k == Node(s).attempts
  <2>1. drive \in Drives /\ drive.copy \in [Steps -> Nodes] /\ (s \in Steps => k \in Nat)
    BY DEF TypeOK, Drives, Nodes, Node
  <2>2. [drive.copy EXCEPT ![s].job = k] \in [Steps -> Nodes]
    BY <2>1 DEF Nodes
  <2>3. drive' = [drive EXCEPT !.pc = "decide", !.copy = [drive.copy EXCEPT ![s].job = k]]
    BY <1>14, <2>1 DEF AskModerated, Drives
  <2>4. drive' \in Drives
    BY <2>1, <2>2, <2>3, CopyType, StatusTypes
  <2> QED
    BY <1>14, <2>4 DEF TypeOK, AskModerated, counted
<1>15. CASE StepFails
  <2> DEFINE s == drive.step
             failed == [drive.copy EXCEPT ![s].status = "failed", ![s].job = Node(s).attempts]
             skipped == [t \in Steps |-> IF failed[t].status = "pending" /\ s \in Deps[t]
                                         THEN [failed[t] EXCEPT !.status = "skipped"] ELSE failed[t]]
  <2>1. /\ drive \in Drives /\ s \in 0 .. N
        /\ drive.copy \in [Steps -> Nodes]
        /\ s \in Steps => Node(s).attempts \in Nat
    BY DEF TypeOK, Drives, Nodes, Node
  <2>2. failed \in [Steps -> Nodes]
    BY <2>1, JobType, StatusTypes
  <2>3. skipped \in [Steps -> Nodes]
    <3> HIDE DEF failed
    <3>1. \A t \in Steps : [failed[t] EXCEPT !.status = "skipped"] \in Nodes
      BY <2>2, NodeStatus, StatusTypes
    <3> QED
      BY <2>2, <3>1
  <2> HIDE DEF failed, skipped
  <2>4. \/ Checkpoint(s, failed, "finish", "failed")
        \/ Checkpoint(s, skipped, "scan", "running")
        \/ Checkpoint(s, failed, "scan", "running")
    BY <1>15 DEF StepFails, failed, skipped
  <2>5. drive' \in Drives
    BY <2>1, <2>2, <2>3, <2>4, CheckpointType DEF RunStatuses
  <2> QED
    BY <1>15, <2>5 DEF TypeOK, StepFails, counted
<1>16. CASE Finish
  BY <1>16, RestType DEF TypeOK, Finish, Drives, counted
<1>17. CASE Throw
  BY <1>17 DEF TypeOK, Throw, Goto, Drives, DrivePcs, counted
<1>18. CASE ThrowRow
  <2>1. row' \in [Steps -> Rows]
    <3>1. \A s \in Steps : [row[s] EXCEPT !.status = "failed"] \in Rows
      BY RowStatus, StatusTypes, OneIsStep DEF TypeOK
    <3> QED
      BY <1>18, <3>1 DEF TypeOK, ThrowRow
  <2> QED
    BY <1>18, <2>1, GotoType, StatusTypes DEF TypeOK, ThrowRow, counted
<1>19. CASE ThrowRun
  BY <1>19, RestType DEF TypeOK, ThrowRun, RunStatuses, counted
<1>20. ASSUME NEW c \in Callers, NEW op \in Operations, NEW t \in Steps, Begin(c, op, t) PROVE TypeOK'
  <2>1. Targets(op, t) \subseteq Steps
    BY ChoicesAssumption DEF Targets, Downstream
  <2>2. [s \in Steps |-> IF op = "cancel" /\ s \in Targets(op, t) /\ row[s].status # "waiting"
                         THEN row[s].job ELSE 0] \in [Steps -> Nat]
    BY DEF TypeOK, Rows
  <2>3. call' \in [Callers -> Calls]
    BY <1>20, <2>1, <2>2, ChoicesAssumption DEF TypeOK, Begin, Calls
  <2> QED
    BY <1>20, <2>3 DEF TypeOK, Begin
<1>21. ASSUME NEW c \in Callers, NEW s \in Steps, CancelJob(c, s) PROVE TypeOK'
  <2>1. call' \in [Callers -> Calls]
    <3>1. [call[c].live EXCEPT ![s] = 0] \in [Steps -> Nat] /\ call[c] \in Calls
      BY DEF TypeOK, Calls
    <3>2. call' = [call EXCEPT ![c] = [call[c] EXCEPT !.pc = "row", !.step = s,
                                          !.live = [call[c].live EXCEPT ![s] = 0]]]
      BY <1>21, <3>1 DEF CancelJob, TypeOK, Calls
    <3> QED
      BY <3>1, <3>2 DEF TypeOK, Calls
  <2>2. jobs' \in [Steps -> Seq(JobStatuses)]
    <3>1. CASE jobs' = [jobs EXCEPT ![s][call[c].live[s]] = "cancelled"]
      <4>1. [jobs[s] EXCEPT ![call[c].live[s]] = "cancelled"] \in Seq(JobStatuses)
        BY ReplaceJob DEF TypeOK, JobStatuses
      <4> QED
        BY <3>1, <4>1 DEF TypeOK
    <3> QED
      BY <1>21, <3>1 DEF TypeOK, CancelJob
  <2> QED
    BY <1>21, <2>1, <2>2 DEF TypeOK, CancelJob, counted
<1>22. ASSUME NEW c \in Callers, NEW s \in Steps, WriteRow(c, s) PROVE TypeOK'
  <2>1. Rewritten(c, s) \in Rows
    <3>1. row[s] \in Rows
      BY DEF TypeOK
    <3>2. \A st \in StepStatuses \cup {"none"}, b \in BOOLEAN :
            /\ [row[s] EXCEPT !.status = st] \in Rows
            /\ [row[s] EXCEPT !.status = st, !.approved = b] \in Rows
      BY <3>1 DEF Rows
    <3> QED
      <4>1. CASE call[c].op = "approve"
        BY <3>2, <4>1, StatusTypes DEF Rewritten
      <4>2. CASE call[c].op = "deny"
        BY <3>2, <4>2, StatusTypes DEF Rewritten
      <4>3. CASE call[c].op = "cancel"
        BY <3>2, <4>3, StatusTypes DEF Rewritten
      <4>4. CASE call[c].op = "retry"
        BY <3>2, <4>4, StatusTypes DEF Rewritten
      <4>5. CASE call[c].op = "start"
        BY <3>1, <4>5 DEF Rewritten
      <4> QED
        BY <4>1, <4>2, <4>3, <4>4, <4>5 DEF TypeOK, Calls
  <2>2. call' \in [Callers -> Calls]
    <3>1. [call[c] EXCEPT !.pc = "rows", !.left = @ \ {s}] \in Calls
      BY DEF TypeOK, Calls
    <3> QED
      BY <1>22, <3>1 DEF TypeOK, WriteRow
  <2>3. row' \in [Steps -> Rows]
    BY <1>22, <2>1 DEF TypeOK, WriteRow
  <2>4. approvals' \in [Steps -> Nat] /\ resets' \in [Steps -> Nat]
        /\ opened' \in [Steps -> {"no", "approved", "kept"}]
    BY <1>22 DEF TypeOK, WriteRow
  <2> QED
    BY <1>22, <2>2, <2>3, <2>4 DEF TypeOK, WriteRow
<1>23. ASSUME NEW c \in Callers, WriteRun(c) PROVE TypeOK'
  <2>1. [call[c] EXCEPT !.pc = "send"] \in Calls
    BY DEF TypeOK, Calls
  <2>2. call' \in [Callers -> Calls]
    BY <1>23, <2>1, NoCallType DEF TypeOK, WriteRun, Move
  <2> QED
    BY <1>23, <2>2, StatusTypes DEF TypeOK, WriteRun, counted
<1>24. ASSUME NEW c \in Callers, Send(c) PROVE TypeOK'
  BY <1>24, NoCallType DEF TypeOK, Send, counted
<1>25. ASSUME NEW s \in Steps, JobSettles(s) PROVE TypeOK'
  <2>1. PICK k \in DOMAIN jobs[s], st \in {"completed", "failed", "moderated"} :
            jobs' = [jobs EXCEPT ![s][k] = st]
    BY <1>25 DEF JobSettles
  <2>2. [jobs[s] EXCEPT ![k] = st] \in Seq(JobStatuses)
    BY ReplaceJob DEF TypeOK, JobStatuses
  <2> QED
    BY <1>25, <2>1, <2>2 DEF TypeOK, JobSettles, counted
<1>26. CASE Crash
  BY <1>26, RestType, NoCallType DEF TypeOK, Crash, counted
<1>27. CASE Boot
  BY <1>27 DEF TypeOK, Boot
<1>28. CASE UNCHANGED vars
  BY <1>28 DEF TypeOK, vars, counted
<1> QED
  BY <1>1, <1>2, <1>3, <1>4, <1>5, <1>6, <1>7, <1>8, <1>9, <1>10, <1>11, <1>12, <1>13, <1>14,
     <1>15, <1>16, <1>17, <1>18, <1>19, <1>20, <1>21, <1>22, <1>23, <1>24, <1>25, <1>26, <1>27,
     <1>28
  DEF Next, DriveStep, CallStep

\* Every variable keeps its type: the copies, the rows and the jobs of the steps, the
\* places of the drive and the requests.
THEOREM RunTypes == Spec => []TypeOK
<1>1. Init => TypeOK
  <2> SUFFICES ASSUME Init PROVE TypeOK
    OBVIOUS
  <2>1. row \in [Steps -> Rows] /\ jobs \in [Steps -> Seq(JobStatuses)]
    <3>1. [Fresh EXCEPT !.status = "none"] \in Rows
      BY DEF Fresh, Rows
    <3>2. <<>> \in Seq(JobStatuses)
      OBVIOUS
    <3> QED
      BY <3>1, <3>2 DEF Init
  <2> QED
    BY <2>1, RestType, NoCallType DEF Init, TypeOK
<1> QED
  BY <1>1, TypeStep, PTL DEF Spec

-----------------------------------------------------------------------------
(* A running run has somebody to drive it.                                  *)

\* A drive that is about to write its result has one.
Resolved == At("finish") \/ (At("persist") /\ drive.after = "finish") => drive.status # "running"

NeverForgotten == NoForgottenRun /\ Resolved

\* A checkpoint leaves the run as it is, with a drive at work.
LEMMA CheckpointKeeps ==
    ASSUME drive \in Drives, NEW s, NEW c, NEW then, NEW st,
           then = "finish" => st # "running",
           Checkpoint(s, c, then, st)
    PROVE  Resolved' /\ ~At("idle")'
  BY DEF Checkpoint, Drives, Resolved, At

LEMMA NeverForgottenStep == TypeOK /\ NeverForgotten /\ [Next]_vars => NeverForgotten'
<1> SUFFICES ASSUME TypeOK, NeverForgotten, [Next]_vars PROVE NeverForgotten'
  OBVIOUS
<1> drive \in Drives
  BY DEF TypeOK
<1>1. CASE Fetch
  BY <1>1 DEF Fetch, Goto, Drives, NeverForgotten, NoForgottenRun, Resolved, At, Is
<1>2. CASE Load
  BY <1>2 DEF Load, Rest, NeverForgotten, NoForgottenRun, Resolved, At, Is
<1>3. CASE Exhausted
  BY <1>3, CheckpointKeeps DEF Exhausted, NeverForgotten, NoForgottenRun
<1>4. ASSUME NEW s \in Steps, Scan(s) PROVE NeverForgotten'
  <2>1. CASE AskGate(s)
    BY <2>1 DEF AskGate, Drives, NeverForgotten, NoForgottenRun, Resolved, At
  <2>2. CASE SkipStep(s) \/ PassBarrier(s) \/ Enter(s)
    BY <2>2, CheckpointKeeps DEF SkipStep, Settle, PassBarrier, Enter, NeverForgotten, NoForgottenRun
  <2> QED
    BY <1>4, <2>1, <2>2 DEF Scan
<1>5. CASE Decide
  BY <1>5, CheckpointKeeps DEF Decide, NeverForgotten, NoForgottenRun
<1>6. CASE Persist
  BY <1>6 DEF Persist, Goto, Drives, NeverForgotten, NoForgottenRun, Resolved, At
<1>7. CASE CreateThrows \/ Create \/ Mark
  BY <1>7 DEF CreateThrows, Create, Mark, Goto, Drives, NeverForgotten, NoForgottenRun, Resolved, At
<1>8. CASE StepCompletes
  BY <1>8, CheckpointKeeps DEF StepCompletes, NeverForgotten, NoForgottenRun
<1>9. CASE RetryAttempt \/ SwapModel \/ AskSwap \/ AskModerated
  BY <1>9 DEF RetryAttempt, SwapModel, AskSwap, AskModerated, Goto, Drives, NeverForgotten, NoForgottenRun,
              Resolved, At
<1>10. CASE StepFails
  BY <1>10, CheckpointKeeps DEF StepFails, NeverForgotten, NoForgottenRun
<1>11. CASE Finish
  BY <1>11 DEF Finish, Rest, NeverForgotten, NoForgottenRun, Resolved, At
<1>12. CASE Throw \/ ThrowRow
  BY <1>12 DEF Throw, ThrowRow, Goto, Drives, NeverForgotten, NoForgottenRun, Resolved, At
<1>13. CASE ThrowRun
  BY <1>13 DEF ThrowRun, Rest, NeverForgotten, NoForgottenRun, Resolved, At
<1>14. ASSUME NEW c \in Callers, NEW op \in Operations, NEW t \in Steps, Begin(c, op, t) PROVE NeverForgotten'
  BY <1>14 DEF Begin, TypeOK, Calls, NeverForgotten, NoForgottenRun, Resolved, At, Is
<1>15. ASSUME NEW c \in Callers, NEW s \in Steps, CancelJob(c, s) \/ WriteRow(c, s) PROVE NeverForgotten'
  <2>1. \A d \in Callers : Is(d, "send") => Is(d, "send")'
    BY <1>15 DEF CancelJob, WriteRow, TypeOK, Calls, Is
  <2>2. UNCHANGED <<run, queued, up, drive>>
    BY <1>15 DEF CancelJob, WriteRow
  <2> QED
    BY <2>1, <2>2 DEF NeverForgotten, NoForgottenRun, Resolved, At
<1>16. ASSUME NEW c \in Callers, WriteRun(c) PROVE NeverForgotten'
  BY <1>16 DEF WriteRun, Move, TypeOK, Calls, NoCall, NeverForgotten, NoForgottenRun, Resolved, At, Is
<1>17. ASSUME NEW c \in Callers, Send(c) PROVE NeverForgotten'
  BY <1>17 DEF Send, NeverForgotten, NoForgottenRun, Resolved, At
<1>18. ASSUME NEW s \in Steps, JobSettles(s) PROVE NeverForgotten'
  BY <1>18 DEF JobSettles, NeverForgotten, NoForgottenRun, Resolved, At, Is
<1>19. CASE Crash
  BY <1>19 DEF Crash, Rest, NeverForgotten, NoForgottenRun, Resolved, At
<1>20. CASE Boot
  BY <1>20 DEF Boot, NeverForgotten, NoForgottenRun, Resolved, At
<1>21. CASE UNCHANGED vars
  BY <1>21 DEF vars, NeverForgotten, NoForgottenRun, Resolved, At, Is
<1> QED
  BY <1>1, <1>2, <1>3, <1>4, <1>5, <1>6, <1>7, <1>8, <1>9, <1>10, <1>11, <1>12, <1>13, <1>14,
     <1>15, <1>16, <1>17, <1>18, <1>19, <1>20, <1>21
  DEF Next, DriveStep, CallStep

\* A run that says running in a process that is up is never left to itself: a message,
\* a drive or a request is about to carry it on.
THEOREM NoRunForgotten == Spec => []NoForgottenRun
<1>1. Init => NeverForgotten
  BY DEF Init, Rest, NeverForgotten, NoForgottenRun, Resolved, At
<1>2. NeverForgotten => NoForgottenRun
  BY DEF NeverForgotten
<1> QED
  BY <1>1, <1>2, RunTypes, NeverForgottenStep, PTL DEF Spec

-----------------------------------------------------------------------------
(* Work starts behind its gates.                                            *)

\* The drive is about to run step s, or running it.
Entering(s) == At("persist") /\ drive.after = "create" /\ drive.step = s
Working(s)  == drive.pc \in {"create", "mark", "wait"} /\ drive.step = s

Cleared(b) == Node(b).status \in {"completed", "skipped"}

\* An approval in a row was given since the step was last reset, or kept by the reset, and
\* one in the copy is still in the row: a write of the copy drops it only where the copy
\* has none ...
Recorded ==
    \A s \in Steps :
        /\ row[s].approved => opened[s] # "no"
        /\ Asks(s) /\ Node(s).approved => row[s].approved

\* ... a barrier that asks is completed by one, in the row and in the copy ...
BarriersAnswered ==
    \A b \in Barriers :
        Asks(b) /\ "completed" \in {row[b].status, Node(b).status} => row[b].approved

\* ... and so a step that is at work has what it needed, and is no barrier once it has a job.
WorkCleared ==
    \A s \in 0 .. N :
        /\ Entering(s) \/ Working(s) =>
              /\ s \in Steps
              /\ Node(s).status = "running"
              /\ Asks(s) => Node(s).approved
              /\ \A b \in Deps[s] \cap Barriers : Cleared(b)
        /\ drive.pc \in {"mark", "wait"} /\ drive.step = s => s \notin Barriers

Gated == Recorded /\ BarriersAnswered /\ WorkCleared

\* Moves that change no node and put nothing to work.
LEMMA GatedMove ==
    ASSUME TypeOK, Gated, UNCHANGED <<row, automatic, opened>>,
           drive'.copy = drive.copy,
           \A s \in 0 .. N : (Entering(s) \/ Working(s))' => Entering(s) \/ Working(s),
           \A s \in 0 .. N : (drive'.pc \in {"mark", "wait"} /\ drive'.step = s)
                              => drive.pc \in {"mark", "wait"} /\ drive.step = s
    PROVE  Gated'
<1> USE GraphAssumption
<1>1. \A s \in Steps : Node(s)' = Node(s) /\ Asks(s)' = Asks(s) /\ Cleared(s)' = Cleared(s)
  BY DEF Node, Asks, Cleared
<1>2. Recorded'
  BY <1>1 DEF Gated, Recorded
<1>3. BarriersAnswered'
  BY <1>1 DEF Gated, BarriersAnswered
<1>4. WorkCleared'
  BY <1>1 DEF Gated, WorkCleared
<1> QED
  BY <1>2, <1>3, <1>4 DEF Gated

\* A checkpoint that puts nothing to work.
LEMMA GatedCheckpoint ==
    ASSUME TypeOK, Gated, UNCHANGED <<row, automatic, opened>>,
           NEW s, NEW c \in [Steps -> Nodes], NEW then \in {"scan", "finish"}, NEW st,
           Checkpoint(s, c, then, st),
           \A t \in Steps : Asks(t) /\ c[t].approved => row[t].approved,
           \A b \in Barriers : Asks(b) /\ c[b].status = "completed" => row[b].approved
    PROVE  Gated'
<1> USE GraphAssumption
<1>1. drive'.copy = c /\ drive'.pc = "persist" /\ drive'.after = then
  BY DEF Checkpoint, TypeOK, Drives
<1>2. \A t \in Steps : Node(t)' = c[t] /\ Asks(t)' = Asks(t)
  BY <1>1 DEF Node, Asks
<1>3. Recorded'
  BY <1>2 DEF Gated, Recorded
<1>4. BarriersAnswered'
  BY <1>2 DEF Gated, BarriersAnswered
<1>5. WorkCleared'
  BY <1>1 DEF WorkCleared, Entering, Working, At
<1> QED
  BY <1>3, <1>4, <1>5 DEF Gated

LEMMA GatedStep == TypeOK /\ Gated /\ [Next]_vars => Gated'
<1> SUFFICES ASSUME TypeOK, Gated, [Next]_vars PROVE Gated'
  OBVIOUS
<1> USE GraphAssumption
<1>0. /\ drive \in Drives /\ drive.copy \in [Steps -> Nodes]
      /\ \A s \in Steps : /\ Node(s) = drive.copy[s]
                          /\ Asks(s) /\ drive.copy[s].approved => row[s].approved
      /\ \A b \in Barriers : Asks(b) /\ drive.copy[b].status = "completed" => row[b].approved
  BY DriveFields DEF TypeOK, Gated, Recorded, BarriersAnswered, Node
<1>1. CASE Fetch
  BY <1>0, <1>1, GatedMove DEF Fetch, Goto, Drives, Entering, Working, At, counted
<1>2. CASE Load
  <2>1. /\ drive'.pc = "scan"
        /\ \A s \in Steps : /\ Node(s)'.approved = row[s].approved
                            /\ Node(s)'.status = "completed" => row[s].status = "completed"
    BY <1>2 DEF Load, Rest, Node, TypeOK, Rows
  <2>2. UNCHANGED <<row, automatic, opened>> /\ \A s \in Steps : Asks(s)' = Asks(s)
    BY <1>2 DEF Load, counted, Asks
  <2>3. Recorded'
    BY <2>1, <2>2 DEF Gated, Recorded
  <2>4. BarriersAnswered'
    BY <2>1, <2>2 DEF Gated, BarriersAnswered
  <2>5. WorkCleared'
    BY <2>1 DEF WorkCleared, Entering, Working, At
  <2> QED
    BY <2>3, <2>4, <2>5 DEF Gated
<1>3. CASE Exhausted
  BY <1>0, <1>3, GatedCheckpoint DEF Exhausted, counted
<1>4. ASSUME NEW s \in Steps, Scan(s) PROVE Gated'
  <2>1. CASE SkipStep(s)
    <3> DEFINE c == [drive.copy EXCEPT ![s].status = "skipped"]
    <3>1. c \in [Steps -> Nodes]
      BY <1>0, StatusType, StatusTypes
    <3>2. \A t \in Steps : /\ c[t].approved = drive.copy[t].approved
                           /\ c[t].status = "completed" => drive.copy[t].status = "completed"
      BY <1>0 DEF Nodes
    <3> HIDE DEF c
    <3>3. Checkpoint(s, c, "scan", "running") /\ UNCHANGED <<row, automatic, opened>>
      BY <2>1 DEF SkipStep, Settle, counted, c
    <3> QED
      BY <1>0, <3>1, <3>2, <3>3, GatedCheckpoint
  <2>2. CASE AskGate(s)
    BY <1>0, <2>2, GatedMove DEF AskGate, Drives, Entering, Working, At, counted
  <2>3. CASE PassBarrier(s)
    <3> DEFINE c == [drive.copy EXCEPT ![s].status = "completed", ![s].approved = TRUE]
    <3>1. c \in [Steps -> Nodes]
      BY <1>0, ApprovedType, StatusTypes
    <3>2. \A t \in Steps : t # s => c[t] = drive.copy[t]
      BY <1>0
    <3>3. ~Asks(s)
      BY <2>3 DEF PassBarrier, Proceeds, Asks
    <3> HIDE DEF c
    <3>4. Checkpoint(s, c, "scan", "running") /\ UNCHANGED <<row, automatic, opened>>
      BY <2>3 DEF PassBarrier, counted, c
    <3> QED
      BY <1>0, <3>1, <3>2, <3>3, <3>4, GatedCheckpoint
  <2>4. CASE Enter(s)
    <3>1. /\ drive'.pc = "persist" /\ drive'.step = s
          /\ \A t \in Steps : /\ t # s => Node(t)' = Node(t)
                              /\ Node(s)'.status = "running"
                              /\ Node(s)'.approved => Node(s).approved \/ Gate[s] # "none"
      BY <1>0, <2>4, DriveFields DEF Enter, Checkpoint, Drives, Node, Nodes
    <3>2. UNCHANGED <<row, automatic, opened>> /\ \A t \in Steps : Asks(t)' = Asks(t)
      BY <2>4 DEF Enter, counted, Asks
    <3>0. Node(s).approved => Node(s)'.approved
      BY <1>0, <2>4, DriveFields DEF Enter, Checkpoint, Drives, Node, Nodes
    <3>3. Asks(s) => Node(s).approved /\ row[s].approved /\ Node(s)'.approved
      BY <1>0, <2>4, <3>0 DEF Enter, Passes, Proceeds, Asks
    <3>4. \A b \in Deps[s] \cap Barriers : Cleared(b) /\ b # s
      BY <1>0, <2>4 DEF Enter, IsNext, Ready, Done, Cleared, Node
    <3>5. \A b \in Deps[s] \cap Barriers : Cleared(b)'
      BY <3>1, <3>2, <3>4 DEF Cleared
    <3>6. Recorded'
      BY <1>0, <3>1, <3>2, <3>3 DEF Gated, Recorded, Asks
    <3>7. BarriersAnswered'
      BY <3>1, <3>2, <3>3 DEF Gated, BarriersAnswered
    <3>8. WorkCleared'
      BY <3>1, <3>2, <3>3, <3>5 DEF WorkCleared, Entering, Working, At
    <3> QED
      BY <3>6, <3>7, <3>8 DEF Gated
  <2> QED
    BY <1>4, <2>1, <2>2, <2>3, <2>4 DEF Scan
<1>5. CASE Decide
  <2> DEFINE s == drive.step
             c == [drive.copy EXCEPT ![s].status = "waiting"]
  <2>1. /\ drive'.pc = "persist" /\ drive'.after = "finish"
        /\ \A t \in Steps : /\ Node(t)'.approved = Node(t).approved
                            /\ Node(t)'.status = "completed" => Node(t).status = "completed"
    BY <1>0, <1>5 DEF Decide, Checkpoint, Drives, Node, Nodes
  <2>2. \A t \in Steps : /\ row'[t].approved <=> row[t].approved
                         /\ row'[t].status = "completed" => row[t].status = "completed"
    <3>0. s \in Steps => c[s].status = "waiting"
      BY <1>0 DEF Nodes
    <3>1. s \in Steps => Upsert(row[s], c[s]).status = "waiting"
      BY <1>0 DEF Upsert, Nodes
    <3>2. s \in Steps => (Upsert(row[s], c[s]).approved <=> row[s].approved)
      <4> HIDE DEF c
      <4> QED
        BY <3>0 DEF Upsert
    <3>3. row' = [row EXCEPT ![s] = Upsert(row[s], c[s])] /\ row \in [Steps -> Rows]
      BY <1>5 DEF Decide, TypeOK
    <3> QED
      BY <3>1, <3>2, <3>3
  <2>3. UNCHANGED <<automatic, opened>> /\ \A t \in Steps : Asks(t)' = Asks(t)
    BY <1>5 DEF Decide, counted, Asks
  <2>4. Recorded'
    BY <2>1, <2>2, <2>3 DEF Gated, Recorded
  <2>5. BarriersAnswered'
    BY <2>1, <2>2, <2>3 DEF Gated, BarriersAnswered
  <2>6. WorkCleared'
    BY <2>1 DEF WorkCleared, Entering, Working, At
  <2> QED
    BY <2>4, <2>5, <2>6 DEF Gated
<1>6. CASE Persist
  <2> DEFINE a == drive.at
  <2>1. UNCHANGED <<automatic, opened>> /\ drive'.copy = drive.copy /\ drive'.step = drive.step
        /\ drive'.after = drive.after
        /\ drive'.pc \in {"persist", drive.after} /\ a \in Steps
    BY <1>6, DriveFields, <1>0 DEF Persist, counted, Goto, Drives, At
  <2>2. \A t \in Steps :
            \/ row'[t] = row[t]
            \/ /\ row'[t].status = Node(t).status
               /\ row'[t].approved <=> row[t].approved /\ ~(Node(t).status = "pending" /\ ~Node(t).approved)
    <3>1. /\ Upsert(row[a], Node(a)).status = Node(a).status
          /\ Upsert(row[a], Node(a)).approved
                <=> row[a].approved /\ ~(Node(a).status = "pending" /\ ~Node(a).approved)
      BY DEF Upsert
    <3>2. row' = [row EXCEPT ![a] = Upsert(row[a], Node(a))] /\ row \in [Steps -> Rows]
      BY <1>6 DEF Persist, TypeOK
    <3> QED
      BY <2>1, <3>1, <3>2
  <2>3. \A t \in Steps : Asks(t)' = Asks(t) /\ Node(t)' = Node(t) /\ Cleared(t)' = Cleared(t)
    BY <2>1 DEF Asks, Node, Cleared
  <2>4. Recorded'
    BY <2>1, <2>2, <2>3 DEF Gated, Recorded
  <2>5. BarriersAnswered'
    BY <2>1, <2>2, <2>3 DEF Gated, BarriersAnswered
  <2>6. \A t \in 0 .. N : (Entering(t) \/ Working(t))' => Entering(t)
    BY <1>0, <1>6, <2>1, DriveFields DEF Entering, Working, At, Persist
  <2>7. WorkCleared'
    <3>1. drive'.pc \notin {"mark", "wait"}
      BY <1>0, <2>1, DriveFields
    <3> QED
      BY <2>1, <2>3, <2>6, <3>1 DEF Gated, WorkCleared
  <2> QED
    BY <2>4, <2>5, <2>7 DEF Gated
<1>7. CASE CreateThrows
  BY <1>0, <1>7, GatedMove DEF CreateThrows, Goto, Drives, Entering, Working, At, counted
<1>8. CASE Create
  <2>1. /\ drive.pc = "create" /\ drive'.pc = "mark" /\ drive'.step = drive.step
        /\ drive.step \notin Barriers
        /\ \A t \in Steps : /\ Node(t)'.approved = Node(t).approved
                            /\ Node(t)'.status = Node(t).status
    BY <1>0, <1>8 DEF Create, Drives, Node, Nodes, At
  <2>2. UNCHANGED <<row, automatic, opened>> /\ \A t \in Steps : Asks(t)' = Asks(t)
    BY <1>8 DEF Create, counted, Asks
  <2>3. Recorded'
    BY <2>1, <2>2 DEF Gated, Recorded
  <2>4. BarriersAnswered'
    BY <2>1, <2>2 DEF Gated, BarriersAnswered
  <2>5. \A t \in Steps : Cleared(t)' = Cleared(t)
    BY <2>1, <2>2 DEF Cleared
  <2>6. WorkCleared'
    BY <2>1, <2>2, <2>5 DEF Gated, WorkCleared, Entering, Working, At
  <2> QED
    BY <2>3, <2>4, <2>6 DEF Gated
<1>9. CASE Mark
  <2>1. /\ drive.pc = "mark" /\ drive'.pc = "wait" /\ drive'.step = drive.step
        /\ drive'.copy = drive.copy
    BY <1>0, <1>9 DEF Mark, Goto, Drives, At
  <2>2. \A t \in Steps : /\ row'[t].approved = row[t].approved
                         /\ row'[t].status = "completed" => row[t].status = "completed"
    <3>2. \A t \in Steps : row'[t] =
            IF t = drive.step
            THEN [row[t] EXCEPT !.status = "running", !.job = Node(drive.step).attempts] ELSE row[t]
      BY <1>9 DEF Mark, TypeOK
    <3> DEFINE marked(t) == [row[t] EXCEPT !.status = "running", !.job = Node(drive.step).attempts]
    <3>3. ASSUME NEW t \in Steps, t = drive.step
          PROVE  marked(t).approved = row[t].approved /\ marked(t).status = "running"
      <4>1. row[t] \in Rows
        BY DEF TypeOK
      <4> QED
        BY <4>1 DEF Rows
    <3> QED
      BY <3>2, <3>3
  <2>3. UNCHANGED <<automatic, opened>>
        /\ \A t \in Steps : Asks(t)' = Asks(t) /\ Node(t)' = Node(t) /\ Cleared(t)' = Cleared(t)
    BY <1>9, <2>1 DEF Mark, counted, Asks, Node, Cleared
  <2>4. Recorded'
    BY <2>2, <2>3 DEF Gated, Recorded
  <2>5. BarriersAnswered'
    BY <2>2, <2>3 DEF Gated, BarriersAnswered
  <2>6. WorkCleared'
    BY <2>1, <2>3 DEF Gated, WorkCleared, Entering, Working, At
  <2> QED
    BY <2>4, <2>5, <2>6 DEF Gated
<1>10. CASE StepCompletes
  <2> DEFINE s == drive.step
             c == [drive.copy EXCEPT ![s].status = "completed", ![s].job = Node(s).attempts]
  <2>1. c \in [Steps -> Nodes]
    BY <1>0, DriveFields, JobType, StatusTypes
  <2>2. \A t \in Steps : /\ c[t].approved = drive.copy[t].approved
                         /\ t # s => c[t] = drive.copy[t]
    BY <1>0 DEF Nodes
  <2>3. s \notin Barriers
    BY <1>0, <1>10, DriveFields DEF StepCompletes, At, Gated, WorkCleared
  <2> HIDE DEF c
  <2>4. Checkpoint(s, c, "scan", "running") /\ UNCHANGED <<row, automatic, opened>>
    BY <1>10 DEF StepCompletes, counted, c
  <2>5. \A b \in Barriers : b \in Steps /\ c[b] = drive.copy[b]
    BY <2>2, <2>3
  <2>6. \A t \in Steps : Asks(t) /\ c[t].approved => row[t].approved
    BY <1>0, <2>2
  <2>7. \A b \in Barriers : Asks(b) /\ c[b].status = "completed" => row[b].approved
    BY <1>0, <2>5
  <2> QED
    BY <2>1, <2>4, <2>6, <2>7, GatedCheckpoint
<1>11. CASE RetryAttempt \/ SwapModel
  BY <1>0, <1>11, GatedMove DEF RetryAttempt, SwapModel, Drives, Entering, Working, At, counted
<1>12. CASE AskSwap
  BY <1>0, <1>12, GatedMove DEF AskSwap, Goto, Drives, Entering, Working, At, counted
<1>13. CASE AskModerated
  <2>1. /\ drive'.pc = "decide"
        /\ \A t \in Steps : /\ Node(t)'.approved = Node(t).approved
                            /\ Node(t)'.status = Node(t).status
    BY <1>0, <1>13 DEF AskModerated, Drives, Node, Nodes
  <2>2. UNCHANGED <<row, automatic, opened>> /\ \A t \in Steps : Asks(t)' = Asks(t)
    BY <1>13 DEF AskModerated, counted, Asks
  <2>3. Recorded'
    BY <2>1, <2>2 DEF Gated, Recorded
  <2>4. BarriersAnswered'
    BY <2>1, <2>2 DEF Gated, BarriersAnswered
  <2>5. WorkCleared'
    BY <2>1 DEF WorkCleared, Entering, Working, At
  <2> QED
    BY <2>3, <2>4, <2>5 DEF Gated
<1>14. CASE StepFails
  <2> DEFINE s == drive.step
             failed == [drive.copy EXCEPT ![s].status = "failed", ![s].job = Node(s).attempts]
             skipped == [t \in Steps |-> IF failed[t].status = "pending" /\ s \in Deps[t]
                                         THEN [failed[t] EXCEPT !.status = "skipped"] ELSE failed[t]]
  <2>1. failed \in [Steps -> Nodes]
    BY <1>0, DriveFields, JobType, StatusTypes
  <2>2. \A t \in Steps : /\ failed[t].approved = drive.copy[t].approved
                         /\ failed[t].status = "completed" => drive.copy[t].status = "completed"
    BY <1>0 DEF Nodes
  <2>3. skipped \in [Steps -> Nodes]
    <3> HIDE DEF failed
    <3>1. \A t \in Steps : [failed[t] EXCEPT !.status = "skipped"] \in Nodes
      BY <2>1, NodeStatus, StatusTypes
    <3> QED
      BY <2>1, <3>1
  <2>4. \A t \in Steps : /\ skipped[t].approved = drive.copy[t].approved
                         /\ skipped[t].status = "completed" => drive.copy[t].status = "completed"
    <3> HIDE DEF failed
    <3> QED
      BY <2>1, <2>2 DEF Nodes
  <2> HIDE DEF failed, skipped
  <2>5. /\ \/ Checkpoint(s, failed, "finish", "failed")
           \/ Checkpoint(s, skipped, "scan", "running")
           \/ Checkpoint(s, failed, "scan", "running")
        /\ UNCHANGED <<row, automatic, opened>>
    BY <1>14 DEF StepFails, failed, skipped, counted
  <2>6. \A t \in Steps : Asks(t) /\ (failed[t].approved \/ skipped[t].approved) => row[t].approved
    BY <1>0, <2>2, <2>4
  <2>7. \A b \in Barriers : Asks(b) /\ "completed" \in {failed[b].status, skipped[b].status}
                                => row[b].approved
    BY <1>0, <2>2, <2>4
  <2>8. CASE Checkpoint(s, failed, "finish", "failed")
    BY <2>1, <2>5, <2>6, <2>7, <2>8, GatedCheckpoint
  <2>9. CASE Checkpoint(s, skipped, "scan", "running")
    BY <2>3, <2>5, <2>6, <2>7, <2>9, GatedCheckpoint
  <2>10. CASE Checkpoint(s, failed, "scan", "running")
    BY <2>1, <2>5, <2>6, <2>7, <2>10, GatedCheckpoint
  <2> QED
    BY <2>5, <2>8, <2>9, <2>10
<1>15. CASE Finish \/ ThrowRun \/ Crash
  <2>1. /\ drive'.pc = "idle"
        /\ \A t \in Steps : ~Node(t)'.approved /\ Node(t)'.status = "pending"
    BY <1>15 DEF Finish, ThrowRun, Crash, Rest, Fresh, Node
  <2>2. UNCHANGED <<row, automatic, opened>> /\ \A t \in Steps : Asks(t)' = Asks(t)
    BY <1>15 DEF Finish, ThrowRun, Crash, counted, Asks
  <2>3. Recorded'
    BY <2>1, <2>2 DEF Gated, Recorded
  <2>4. BarriersAnswered'
    BY <2>1, <2>2 DEF Gated, BarriersAnswered
  <2>5. WorkCleared'
    BY <2>1 DEF WorkCleared, Entering, Working, At
  <2> QED
    BY <2>3, <2>4, <2>5 DEF Gated
<1>16. CASE Throw
  <2>1. drive'.copy = drive.copy /\ drive'.pc \in {"throwRow", "throwRun"}
    BY <1>0, <1>16 DEF Throw, Goto, Drives
  <2> QED
    BY <1>16, <2>1, GatedMove DEF Throw, Entering, Working, At, counted
<1>17. CASE ThrowRow
  <2>1. drive'.copy = drive.copy /\ drive'.pc = "throwRun"
    BY <1>0, <1>17 DEF ThrowRow, Goto, Drives
  <2>2. \A t \in Steps : /\ row'[t].approved = row[t].approved
                         /\ row'[t].status = "completed" => row[t].status = "completed"
    <3>1. \A t \in Steps : row'[t] =
            IF t = drive.step THEN [row[t] EXCEPT !.status = "failed"] ELSE row[t]
      BY <1>17 DEF ThrowRow, TypeOK
    <3>2. ASSUME NEW t \in Steps
          PROVE  /\ [row[t] EXCEPT !.status = "failed"].approved = row[t].approved
                 /\ [row[t] EXCEPT !.status = "failed"].status = "failed"
      <4>1. row[t] \in Rows /\ 0 \in Nat
        BY DEF TypeOK
      <4> QED
        BY <4>1 DEF Rows
    <3> QED
      BY <3>1, <3>2
  <2>3. UNCHANGED <<automatic, opened>>
        /\ \A t \in Steps : Asks(t)' = Asks(t) /\ Node(t)' = Node(t)
    BY <1>17, <2>1 DEF ThrowRow, counted, Asks, Node
  <2>4. Recorded'
    BY <2>2, <2>3 DEF Gated, Recorded
  <2>5. BarriersAnswered'
    BY <2>2, <2>3 DEF Gated, BarriersAnswered
  <2>6. WorkCleared'
    BY <2>1 DEF WorkCleared, Entering, Working, At
  <2> QED
    BY <2>4, <2>5, <2>6 DEF Gated
<1>18. ASSUME NEW c \in Callers, NEW s \in Steps, WriteRow(c, s) PROVE Gated'
  <2>1. UNCHANGED <<drive, automatic>> /\ \A t \in Steps : Asks(t)' = Asks(t) /\ Node(t)' = Node(t)
    BY <1>18 DEF WriteRow, Asks, Node
  <2>2. /\ row'[s] = Rewritten(c, s) /\ row[s] \in Rows /\ call[c] \in Calls
        /\ \A t \in Steps : t # s => row'[t] = row[t] /\ opened'[t] = opened[t]
        /\ opened'[s] = CASE call[c].op = "approve" -> "approved"
                          [] call[c].op = "retry"   -> IF row[s].approved THEN "kept" ELSE "no"
                          [] OTHER                  -> opened[s]
    BY <1>18 DEF WriteRow, TypeOK
  <2>3. \A t \in Steps : row[t].approved => opened[t] # "no"
    BY DEF Gated, Recorded
  <2>4. \A t \in Steps : /\ row[t].approved => row'[t].approved
                         /\ row'[t].approved => opened'[t] # "no"
                         /\ row'[t].status = "completed" => row[t].status = "completed" \/ row'[t].approved
    <3>1. CASE call[c].op = "approve"
      <4>1. Rewritten(c, s).approved /\ opened'[s] = "approved"
        BY <2>2, <3>1 DEF Rewritten, Rows
      <4> QED
        BY <2>2, <2>3, <4>1
    <3>2. CASE call[c].op # "approve"
      <4>1. /\ Rewritten(c, s).approved = row[s].approved
            /\ Rewritten(c, s).status = "completed" => row[s].status = "completed"
        <5>1. CASE call[c].op = "deny"
          BY <2>2, <5>1 DEF Rewritten, Rows
        <5>2. CASE call[c].op = "cancel"
          BY <2>2, <5>2 DEF Rewritten, Rows
        <5>3. CASE call[c].op = "retry"
          BY <2>2, <5>3 DEF Rewritten, Rows
        <5>4. CASE call[c].op = "start"
          BY <5>4 DEF Rewritten
        <5> QED
          BY <2>2, <3>2, <5>1, <5>2, <5>3, <5>4 DEF Calls
      <4>2. row[s].approved => opened'[s] # "no"
        BY <2>2, <2>3, <3>2
      <4> QED
        BY <2>2, <2>3, <4>1, <4>2
    <3> QED
      BY <3>1, <3>2
  <2>5. Recorded'
    BY <2>1, <2>4 DEF Gated, Recorded
  <2>6. BarriersAnswered'
    BY <2>1, <2>4 DEF Gated, BarriersAnswered
  <2>7. WorkCleared'
    BY <2>1 DEF Gated, WorkCleared, Entering, Working, At, Cleared, Node
  <2> QED
    BY <2>5, <2>6, <2>7 DEF Gated
<1>19. CASE UNCHANGED <<row, automatic, opened, drive>>
  BY <1>19, GatedMove DEF Entering, Working, At
<1>20. ASSUME NEW c \in Callers, NEW op \in Operations, NEW t \in Steps, Begin(c, op, t) PROVE Gated'
  BY <1>19, <1>20 DEF Begin
<1>21. ASSUME NEW c \in Callers, NEW s \in Steps, CancelJob(c, s) PROVE Gated'
  BY <1>19, <1>21 DEF CancelJob, counted
<1>22. ASSUME NEW c \in Callers, WriteRun(c) \/ Send(c) PROVE Gated'
  BY <1>19, <1>22 DEF WriteRun, Send, counted
<1>23. ASSUME NEW s \in Steps, JobSettles(s) PROVE Gated'
  BY <1>19, <1>23 DEF JobSettles, counted
<1>24. CASE Boot
  BY <1>19, <1>24 DEF Boot
<1>25. CASE UNCHANGED vars
  BY <1>19, <1>25 DEF vars, counted
<1> QED
  BY <1>1, <1>2, <1>3, <1>4, <1>5, <1>6, <1>7, <1>8, <1>9, <1>10, <1>11, <1>12, <1>13, <1>14,
     <1>15, <1>16, <1>17, <1>18, <1>20, <1>21, <1>22, <1>23, <1>24, <1>25
  DEF Next, DriveStep, CallStep

\* No step that asks starts before the owner has approved it since it was last reset, nor
\* behind a barrier that asks, unless that was skipped.  Only the approvals a retry leaves
\* in the row stand in for a new one.
THEOREM WorkIsGated == Spec => []GateBeforeWork
<1>1. Init => Gated
  <2> SUFFICES ASSUME Init PROVE Gated
    OBVIOUS
  <2>1. \A s \in Steps : /\ ~row[s].approved /\ row[s].status = "none"
                         /\ ~Node(s).approved /\ Node(s).status = "pending"
    BY DEF Init, Rest, Fresh, Node
  <2>2. drive.pc = "idle"
    BY DEF Init, Rest
  <2> QED
    BY <2>1, <2>2, GraphAssumption
    DEF Gated, Recorded, BarriersAnswered, WorkCleared, Entering, Working, At
<1>2. TypeOK /\ Gated => GateBeforeWork
  <2> SUFFICES ASSUME TypeOK, Gated, At("create") PROVE GateBeforeWork
    BY DEF GateBeforeWork
  <2>1. drive.step \in 0 .. N /\ Working(drive.step)
    BY DriveFields DEF TypeOK, Working, At
  <2>2. /\ drive.step \in Steps
        /\ Asks(drive.step) => Node(drive.step).approved
        /\ \A b \in Deps[drive.step] \cap Barriers : Cleared(b)
    BY <2>1 DEF Gated, WorkCleared
  <2>3. \A s \in Steps : Asks(s) /\ Node(s).approved => opened[s] # "no"
    BY DEF Gated, Recorded
  <2>4. \A b \in Barriers : Asks(b) /\ Node(b).status = "completed" => opened[b] # "no"
    BY GraphAssumption DEF Gated, Recorded, BarriersAnswered
  <2> QED
    BY <2>2, <2>3, <2>4 DEF GateBeforeWork, Cleared
<1> QED
  BY <1>1, <1>2, RunTypes, GatedStep, PTL DEF Spec

-----------------------------------------------------------------------------
(* What a run may cost: no step makes more jobs than the requests for it    *)
(* allow, for any graph, gates, retries and alternates, and any number of   *)
(* requests and restarts.                                                   *)

Attempts(s) == 1 + Retries[s] + Alternates[s]
Granted(s)  == Attempts(s) * (1 + approvals[s] + resets[s])

Walking == drive.pc \in {"scan", "decide", "persist", "create", "mark", "wait"}
Pending(s) == row[s].status \in {"pending", "none"}

\* The step will still be started: its row says pending, or the drive's copy does, which
\* goes over the row; a step that is entered is pending until its own row is written.
Owes(s) ==
    \/ Pending(s)
    \/ Walking /\ Node(s).status = "pending"
    \/ Entering(s) /\ drive.at <= s
Owed(s) == IF Owes(s) THEN Attempts(s) ELSE 0

\* The jobs the drive may still make for the step it is at.
Remaining(s) ==
    CASE Entering(s) /\ drive.at > s    -> Attempts(s)
      [] Working(s) /\ At("create")     -> Attempts(s) - drive.tries - drive.swaps
      [] Working(s) /\ ~At("create")    -> Attempts(s) - 1 - drive.tries - drive.swaps
      [] OTHER                          -> 0

\* What was made, what is owed and what remains is granted.
Afforded(s) == Len(jobs[s]) + Owed(s) + Remaining(s) <= Granted(s)

Counted(s) ==
    /\ Entering(s) \/ Working(s) => drive.tries <= Retries[s] /\ drive.swaps <= Alternates[s]
    /\ Entering(s) => drive.tries = 0 /\ drive.swaps = 0

PaidAt(s) == Afforded(s) /\ Counted(s)
Paid == \A s \in Steps : PaidAt(s)

-----------------------------------------------------------------------------
LEMMA Numbers ==
    ASSUME TypeOK, NEW s \in Steps
    PROVE  /\ Retries[s] \in Nat /\ Alternates[s] \in Nat /\ Attempts(s) \in Nat
           /\ Len(jobs[s]) \in Nat /\ approvals[s] \in Nat /\ resets[s] \in Nat
           /\ drive.tries \in Nat /\ drive.swaps \in Nat /\ drive.at \in Nat /\ s \in Nat
           /\ Granted(s) \in Nat
<1>1. Retries[s] \in Nat /\ Alternates[s] \in Nat /\ s \in Nat
  BY GraphAssumption DEF Steps
<1>2. approvals[s] \in Nat /\ resets[s] \in Nat /\ Len(jobs[s]) \in Nat
  BY DEF TypeOK
<1>3. drive.tries \in Nat /\ drive.swaps \in Nat /\ drive.at \in Nat
  BY StepsType DEF TypeOK, Drives
<1>6. \A a, b \in Nat : 1 + a + b \in Nat
  OBVIOUS
<1>4. Attempts(s) \in Nat /\ 1 + approvals[s] + resets[s] \in Nat
  BY <1>1, <1>2, <1>6 DEF Attempts
<1>5. \A a, b \in Nat : a * b \in Nat
  OBVIOUS
<1> QED
  BY <1>1, <1>2, <1>3, <1>4, <1>5 DEF Granted

LEMMA Grants ==
    ASSUME TypeOK, NEW s \in Steps, NEW n \in Nat,
           1 + approvals'[s] + resets'[s] = n + 1, n = 1 + approvals[s] + resets[s]
    PROVE  Granted(s)' = Granted(s) + Attempts(s)
<1>1. \A a, b \in Nat : a * (b + 1) = a * b + a
  OBVIOUS
<1>2. Granted(s)' = Attempts(s) * (n + 1) /\ Granted(s) = Attempts(s) * n
  BY DEF Granted, Attempts
<1> QED
  BY <1>1, <1>2, Numbers

\* The attempts that are left, behind the one being made.
LEMMA AttemptsLeft ==
    ASSUME NEW a \in Nat, NEW b \in Nat, NEW x \in Nat, NEW y \in Nat, x <= a, y <= b
    PROVE  /\ (1 + a + b) - 1 - x - y \in Nat
           /\ (1 + a + b) - x - y = ((1 + a + b) - 1 - x - y) + 1
  OBVIOUS

LEMMA AttemptTaken ==
    \A m, x, y \in Nat : m - (x + 1) - y = m - 1 - x - y /\ m - x - (y + 1) = m - 1 - x - y
  OBVIOUS

\* What a change of one node leaves of the others.
LEMMA StatusAt ==
    ASSUME NEW c \in [Steps -> Nodes], NEW t, NEW s \in Steps, NEW st
    PROVE  [c EXCEPT ![t].status = st][s].status \in {c[s].status, st}
<1>1. CASE s = t
  BY <1>1 DEF Nodes
<1>2. CASE s # t
  BY <1>2
<1> QED
  BY <1>1, <1>2

LEMMA ApprovedAt ==
    ASSUME NEW c \in [Steps -> Nodes], NEW t, NEW s \in Steps, NEW st, NEW b
    PROVE  [c EXCEPT ![t].status = st, ![t].approved = b][s].status \in {c[s].status, st}
<1>1. CASE s = t
  BY <1>1 DEF Nodes
<1>2. CASE s # t
  BY <1>2
<1> QED
  BY <1>1, <1>2

LEMMA RemainingType ==
    ASSUME TypeOK, NEW s \in Steps, PaidAt(s)
    PROVE  Remaining(s) \in Nat
<1>1. CASE Working(s)
  <2>1. drive.tries <= Retries[s] /\ drive.swaps <= Alternates[s] /\ ~Entering(s)
    BY <1>1 DEF PaidAt, Counted, Working, Entering, At
  <2>2. Remaining(s) = IF At("create") THEN Attempts(s) - drive.tries - drive.swaps
                       ELSE Attempts(s) - 1 - drive.tries - drive.swaps
    BY <1>1, <2>1 DEF Remaining
  <2>3. /\ Attempts(s) - drive.tries - drive.swaps \in Nat
        /\ Attempts(s) - 1 - drive.tries - drive.swaps \in Nat
    <3>1. /\ Retries[s] \in Nat /\ Alternates[s] \in Nat /\ drive.tries \in Nat /\ drive.swaps \in Nat
          /\ Attempts(s) = 1 + Retries[s] + Alternates[s]
      BY Numbers DEF Attempts
    <3>2. /\ Attempts(s) - 1 - drive.tries - drive.swaps \in Nat
          /\ Attempts(s) - drive.tries - drive.swaps = (Attempts(s) - 1 - drive.tries - drive.swaps) + 1
      BY <2>1, <3>1, AttemptsLeft
    <3> QED
      BY <3>2
  <2> QED
    BY <2>2, <2>3
<1>2. CASE ~Working(s)
  BY <1>2, Numbers DEF Remaining
<1> QED
  BY <1>1, <1>2

\* Nobody is granted anything.
Unasked(s) == Len(jobs'[s]) = Len(jobs[s]) /\ approvals'[s] = approvals[s] /\ resets'[s] = resets[s]

\* What is owed becomes what remains.
LEMMA StillAfforded ==
    ASSUME TypeOK, NEW s \in Steps, PaidAt(s), Granted(s)' = Granted(s),
           Len(jobs'[s]) = Len(jobs[s]),
           Owed(s) \in Nat, Remaining(s) \in Nat, Owed(s)' \in Nat, Remaining(s)' \in Nat,
           Owed(s)' + Remaining(s)' <= Owed(s) + Remaining(s)
    PROVE  Afforded(s)'
<1> DEFINE j == Len(jobs[s])
           o == Owed(s)
           r == Remaining(s)
           p == Owed(s)'
           q == Remaining(s)'
           g == Granted(s)
<1>1. j \in Nat /\ o \in Nat /\ r \in Nat /\ p \in Nat /\ q \in Nat /\ g \in Nat
  BY Numbers
<1>2. j + o + r <= g
  BY DEF PaidAt, Afforded
<1>3. p + q <= o + r
  OBVIOUS
<1>4. (j + p + q <= g) => Afforded(s)'
  BY DEF Afforded
<1> HIDE DEF j, o, r, p, q, g
<1>5. j + p + q <= g
  BY <1>1, <1>2, <1>3
<1> QED
  BY <1>4, <1>5

\* A step that leaves the drive off s.
LEMMA PaidOff ==
    ASSUME TypeOK, NEW s \in Steps, PaidAt(s), Unasked(s),
           ~Entering(s)', ~Working(s)',
           Pending(s)' => Owes(s),
           Walking' /\ Node(s)'.status = "pending" => Owes(s)
    PROVE  PaidAt(s)'
<1>1. Granted(s)' = Granted(s) /\ Attempts(s)' = Attempts(s)
  BY DEF Granted, Attempts, Unasked
<1>2. Remaining(s)' = 0
  BY DEF Remaining
<1>3. Owes(s)' => Owes(s)
  BY DEF Owes
<1>4. Owed(s)' <= Owed(s) /\ Owed(s)' \in Nat /\ Owed(s) \in Nat
  BY <1>1, <1>3, Numbers DEF Owed
<1>5. Afforded(s)'
  BY <1>1, <1>2, <1>4, Numbers, RemainingType DEF PaidAt, Afforded, Unasked
<1> QED
  BY <1>5 DEF PaidAt, Counted

\* A step that leaves the drive where it is.
LEMMA PaidOn ==
    ASSUME TypeOK, NEW s \in Steps, PaidAt(s), UNCHANGED drive,
           Len(jobs'[s]) = Len(jobs[s]),
           Granted(s)' \in Nat,
           Granted(s)' >= Granted(s),
           Pending(s)' => Pending(s) \/ Granted(s)' >= Granted(s) + Attempts(s)
    PROVE  PaidAt(s)'
<1>1. /\ Attempts(s)' = Attempts(s) /\ Entering(s)' = Entering(s) /\ Working(s)' = Working(s)
      /\ Walking' = Walking /\ Node(s)' = Node(s) /\ Counted(s)' = Counted(s)
  BY DEF Attempts, Entering, Working, Walking, Node, At, Counted
<1>2. Remaining(s)' = Remaining(s)
  BY <1>1 DEF Remaining, Entering, Working, At, Attempts
<1>3. Owes(s)' => Owes(s) \/ Granted(s)' >= Granted(s) + Attempts(s)
  BY <1>1 DEF Owes
<1>4. Owed(s)' \in Nat /\ Owed(s) \in Nat /\ Owed(s)' + Granted(s) <= Owed(s) + Granted(s)'
  BY <1>1, <1>3, Numbers DEF Owed
<1>5. Afforded(s)'
  BY <1>2, <1>4, Numbers, RemainingType DEF PaidAt, Afforded
<1> QED
  BY <1>1, <1>5 DEF PaidAt

\* A checkpoint that puts nothing to work, and makes no step pending.
LEMMA PaidCheckpoint ==
    ASSUME TypeOK, NEW s \in Steps, PaidAt(s), Unasked(s), Walking,
           NEW t, NEW c \in [Steps -> Nodes], NEW then \in {"scan", "finish"}, NEW st,
           Checkpoint(t, c, then, st),
           c[s].status = "pending" => Node(s).status = "pending",
           Pending(s)' => Pending(s)
    PROVE  PaidAt(s)'
<1>1. drive'.copy = c /\ drive'.pc = "persist" /\ drive'.after = then
  BY DEF Checkpoint, TypeOK, Drives
<1>2. ~Entering(s)' /\ ~Working(s)' /\ Node(s)' = c[s]
  BY <1>1 DEF Entering, Working, At, Node
<1> QED
  BY <1>2, PaidOff DEF Owes

-----------------------------------------------------------------------------
(* Steps of the drive.                                                      *)

\* Fetching, loading, deciding and finishing.
LEMMA PaidAround ==
    ASSUME TypeOK, NEW s \in Steps, PaidAt(s),
           \/ Fetch \/ Load \/ Exhausted \/ Decide \/ CreateThrows
           \/ Finish \/ Throw \/ ThrowRow \/ ThrowRun
    PROVE  PaidAt(s)'
<1>0. /\ drive \in Drives /\ drive.copy \in [Steps -> Nodes] /\ row \in [Steps -> Rows]
      /\ Node(s) = drive.copy[s]
  BY DriveFields DEF TypeOK, Node
<1>1. CASE Fetch
  BY <1>0, <1>1, PaidOff DEF Fetch, Goto, Drives, Entering, Working, Walking, At, counted, Unasked,
       Pending, Owes
<1>2. CASE Load
  <2>1. Node(s)'.status = "pending" => Pending(s)
    BY <1>0, <1>2 DEF Load, Rest, Node, Rows, Pending
  <2>2. drive'.pc = "scan"
    BY <1>2 DEF Load, Rest
  <2> QED
    BY <1>2, <2>1, <2>2, PaidOff DEF Load, Entering, Working, At, counted, Unasked, Pending, Owes
<1>3. CASE Exhausted
  BY <1>0, <1>3, PaidCheckpoint DEF Exhausted, counted, Unasked, Pending, Walking, At
<1>4. CASE Decide
  <2> DEFINE t == drive.step
             c == [drive.copy EXCEPT ![t].status = "waiting"]
  <2>1. c \in [Steps -> Nodes] /\ c[s].status \in {Node(s).status, "waiting"}
    BY <1>0, StatusType, StatusTypes, StatusAt
  <2>2. row' = [row EXCEPT ![t] = Upsert(row[t], c[t])] /\ Checkpoint(t, c, "finish", "awaiting")
    BY <1>4 DEF Decide
  <2>3. t = s => Upsert(row[t], c[t]).status = "waiting"
    BY <1>0 DEF Upsert, Nodes
  <2>4. Pending(s)' => Pending(s)
    BY <1>0, <2>2, <2>3 DEF Pending
  <2> HIDE DEF c, t
  <2> QED
    BY <1>4, <2>1, <2>2, <2>4, PaidCheckpoint DEF Decide, counted, Unasked, Walking, At
<1>5. CASE CreateThrows \/ Throw
  BY <1>0, <1>5, PaidOff DEF CreateThrows, Throw, Goto, Drives, Entering, Working, Walking, At,
       counted, Unasked, Pending, Owes
<1>6. CASE ThrowRow
  <2>1. row' = [row EXCEPT ![drive.step].status = "failed"]
    BY <1>6 DEF ThrowRow
  <2>2. Pending(s)' => Pending(s)
    BY <1>0, <2>1 DEF Pending, Rows
  <2> QED
    BY <1>0, <1>6, <2>2, PaidOff DEF ThrowRow, Goto, Drives, Entering, Working, Walking, At, counted,
         Unasked, Owes
<1>7. CASE Finish \/ ThrowRun
  BY <1>7, PaidOff DEF Finish, ThrowRun, Rest, Entering, Working, Walking, At, counted, Unasked,
       Pending, Owes
<1> QED
  BY <1>1, <1>2, <1>3, <1>4, <1>5, <1>6, <1>7

\* The scan goes on, asks, or enters a step.
LEMMA PaidScan ==
    ASSUME TypeOK, NEW s \in Steps, PaidAt(s), NEW t \in Steps, Scan(t)
    PROVE  PaidAt(s)'
<1>0. /\ drive \in Drives /\ drive.copy \in [Steps -> Nodes] /\ drive.pc = "scan"
      /\ Node(s) = drive.copy[s] /\ Walking
  BY DriveFields
  DEF TypeOK, Node, Scan, SkipStep, AskGate, PassBarrier, Enter, At, Walking
<1>1. Unasked(s) /\ UNCHANGED row
  BY DEF Scan, SkipStep, AskGate, PassBarrier, Enter, counted, Unasked
<1>2. CASE SkipStep(t)
  <2> DEFINE c == [drive.copy EXCEPT ![t].status = "skipped"]
  <2>1. c \in [Steps -> Nodes] /\ c[s].status \in {Node(s).status, "skipped"}
    BY <1>0, StatusType, StatusTypes, StatusAt
  <2>2. Checkpoint(t, c, "scan", "running")
    BY <1>2 DEF SkipStep, Settle
  <2> HIDE DEF c
  <2> QED
    BY <1>0, <1>1, <2>1, <2>2, PaidCheckpoint DEF Pending
<1>3. CASE AskGate(t)
  BY <1>0, <1>1, <1>3, PaidOff
  DEF AskGate, Drives, Entering, Working, Walking, At, Pending, Owes, Node
<1>4. CASE PassBarrier(t)
  <2> DEFINE c == [drive.copy EXCEPT ![t].status = "completed", ![t].approved = TRUE]
  <2>1. c \in [Steps -> Nodes] /\ c[s].status \in {Node(s).status, "completed"}
    BY <1>0, ApprovedType, StatusTypes, ApprovedAt
  <2>2. Checkpoint(t, c, "scan", "running")
    BY <1>4 DEF PassBarrier
  <2> HIDE DEF c
  <2> QED
    BY <1>0, <1>1, <2>1, <2>2, PaidCheckpoint DEF Pending
<1>5. CASE Enter(t)
  <2>1. /\ drive'.pc = "persist" /\ drive'.at = 1 /\ drive'.after = "create" /\ drive'.step = t
        /\ drive'.tries = 0 /\ drive'.swaps = 0
        /\ s # t => Node(s)' = Node(s)
        /\ Node(t)'.status = "running"
    BY <1>0, <1>5 DEF Enter, Checkpoint, Drives, Node, Nodes
  <2>2. CASE s # t
    <3>1. ~Entering(s)' /\ ~Working(s)'
      BY <2>1, <2>2 DEF Entering, Working, At
    <3> QED
      BY <1>0, <1>1, <2>1, <2>2, <3>1, PaidOff DEF Pending, Owes
  <2>3. CASE s = t
    <3>1. Owes(s) /\ Remaining(s) = 0
      BY <1>0, <1>5, <2>3 DEF Owes, Remaining, Entering, Working, At, Enter, IsNext, Ready
    <3>2. Entering(s)' /\ ~Working(s)' /\ ~(drive'.at > s)
      BY <2>1, <2>3, Numbers DEF Entering, Working, At, Steps
    <3>3. Remaining(s)' = 0
      BY <3>2 DEF Remaining
    <3>4. Attempts(s)' = Attempts(s) /\ Granted(s)' = Granted(s)
      BY <1>1 DEF Attempts, Granted, Unasked
    <3>5. Owed(s)' <= Owed(s) /\ Owed(s)' \in Nat /\ Owed(s) \in Nat
      BY <3>1, <3>4, Numbers DEF Owed
    <3>6. Afforded(s)'
      BY <1>1, <3>1, <3>3, <3>4, <3>5, Numbers DEF PaidAt, Afforded, Unasked
    <3>7. Counted(s)'
      BY <2>1, Numbers DEF Counted
    <3> QED
      BY <3>6, <3>7 DEF PaidAt
  <2> QED
    BY <2>2, <2>3
<1> QED
  BY <1>2, <1>3, <1>4, <1>5 DEF Scan

\* A row is written from the copy.
LEMMA PaidPersist ==
    ASSUME TypeOK, NEW s \in Steps, PaidAt(s), Gated, Persist
    PROVE  PaidAt(s)'
<1> DEFINE a == drive.at
<1>0. /\ drive \in Drives /\ drive.pc = "persist" /\ a \in Steps /\ Walking /\ a \in Nat /\ N \in Nat
      /\ a <= N /\ s <= N /\ 1 <= s
      /\ row \in [Steps -> Rows]
  BY DriveFields, StepsType, GraphAssumption DEF TypeOK, Persist, At, Walking, Steps
<1>1. Unasked(s) /\ Attempts(s)' = Attempts(s) /\ Granted(s)' = Granted(s)
  BY DEF Persist, counted, Unasked, Attempts, Granted
<1>2. /\ drive'.copy = drive.copy /\ drive'.step = drive.step /\ drive'.after = drive.after
      /\ drive'.tries = drive.tries /\ drive'.swaps = drive.swaps
      /\ Node(s)' = Node(s)
      /\ \/ a < N /\ drive'.pc = "persist" /\ drive'.at = a + 1
         \/ a = N /\ drive'.pc = drive.after /\ drive'.at = a
  BY <1>0 DEF Persist, Goto, Drives, Node
<1>3. row'[s].status = IF s = a THEN Node(s).status ELSE row[s].status
  <2>1. row' = [row EXCEPT ![a] = Upsert(row[a], Node(a))]
    BY DEF Persist
  <2> QED
    BY <1>0, <2>1 DEF Upsert
<1>4. CASE ~Entering(s)
  <2>1. ~Entering(s)' /\ ~Working(s)'
    BY <1>0, <1>2, <1>4, DriveFields DEF Entering, Working, At
  <2>2. Pending(s)' => Owes(s)
    <3>1. Node(s).status # "none"
      BY <1>0, DriveFields DEF Node, Nodes, StepStatuses
    <3> QED
      BY <1>0, <1>3, <3>1 DEF Pending, Owes
  <2>3. Node(s)'.status = "pending" => Owes(s)
    BY <1>0, <1>2 DEF Owes
  <2> QED
    BY <1>1, <2>1, <2>2, <2>3, PaidOff
<1>5. CASE Entering(s)
  <2>1. Node(s).status = "running" /\ drive.tries = 0 /\ drive.swaps = 0 /\ ~Working(s)
        /\ drive.step = s /\ drive.after = "create" /\ s \in 0 .. N
    BY <1>0, <1>5, StepsType DEF Gated, WorkCleared, PaidAt, Counted, Entering, Working, At
  <2>2. Owes(s) <=> Pending(s) \/ a <= s
    BY <1>5, <2>1 DEF Owes
  <2>3. Remaining(s) = IF a > s THEN Attempts(s) ELSE 0
    BY <1>5, <2>1 DEF Remaining
  <2>4. Pending(s)' => Pending(s) /\ s # a
    BY <1>3, <2>1 DEF Pending
  <2>5. Counted(s)'
    BY <1>2, <2>1, Numbers DEF Counted
  <2>6. CASE a < N
    <3>1. Entering(s)' /\ ~Working(s)' /\ drive'.at = a + 1
      BY <1>2, <1>5, <2>1, <2>6, <1>0 DEF Entering, Working, At
    <3>2. Owes(s)' <=> Pending(s)' \/ a + 1 <= s
      BY <1>2, <2>1, <3>1 DEF Owes
    <3>3. Remaining(s)' = IF a + 1 > s THEN Attempts(s) ELSE 0
      BY <1>1, <3>1 DEF Remaining
    <3>4. Owed(s)' + Remaining(s)' <= Owed(s) + Remaining(s)
          /\ Owed(s)' + Remaining(s)' \in Nat /\ Owed(s) + Remaining(s) \in Nat
      <4>1. CASE a < s
        BY <1>0, <1>1, <2>2, <2>3, <3>2, <3>3, <4>1, Numbers DEF Owed
      <4>2. CASE a = s
        BY <1>0, <1>1, <2>2, <2>3, <2>4, <3>2, <3>3, <4>2, Numbers DEF Owed
      <4>3. CASE a > s
        BY <1>0, <1>1, <2>2, <2>3, <2>4, <3>2, <3>3, <4>3, Numbers DEF Owed
      <4> QED
        BY <1>0, <4>1, <4>2, <4>3, Numbers
    <3>5. Remaining(s)' \in Nat /\ Owed(s)' \in Nat /\ Remaining(s) \in Nat /\ Owed(s) \in Nat
      BY <1>1, <2>3, <3>3, Numbers DEF Owed
    <3> QED
      BY <1>1, <2>5, <3>4, <3>5, StillAfforded DEF PaidAt, Unasked
  <2>7. CASE a = N
    <3>1. ~Entering(s)' /\ Working(s)' /\ At("create")'
      BY <1>2, <2>1, <2>7, <1>0 DEF Entering, Working, At
    <3>2. Owes(s)' <=> Pending(s)'
      BY <1>2, <2>1, <3>1 DEF Owes
    <3>3. Remaining(s)' = Attempts(s)
      BY <1>1, <1>2, <2>1, <3>1, Numbers DEF Remaining
    <3>4. Owed(s)' + Remaining(s)' <= Owed(s) + Remaining(s)
      <4>1. CASE a = s
        BY <1>0, <1>1, <2>2, <2>3, <2>4, <3>2, <3>3, <4>1, Numbers DEF Owed
      <4>2. CASE a > s
        BY <1>0, <1>1, <2>2, <2>3, <2>4, <3>2, <3>3, <4>2, Numbers DEF Owed
      <4> QED
        BY <1>0, <2>7, <4>1, <4>2, Numbers
    <3>5. Remaining(s)' \in Nat /\ Owed(s)' \in Nat /\ Remaining(s) \in Nat /\ Owed(s) \in Nat
      BY <1>1, <2>3, <3>3, Numbers DEF Owed
    <3> QED
      BY <1>1, <2>5, <3>4, <3>5, StillAfforded DEF PaidAt, Unasked
  <2> QED
    BY <1>0, <2>6, <2>7
<1> QED
  BY <1>4, <1>5

\* A step that goes on working on s, and pays out of what remains.
LEMMA PaidWorking ==
    ASSUME TypeOK, NEW s \in Steps, PaidAt(s), UNCHANGED <<approvals, resets>>,
           Working(s), Working(s)', Node(s).status = "running", Node(s)'.status = "running",
           Pending(s)' => Pending(s), Counted(s)',
           Len(jobs'[s]) \in Nat, Remaining(s)' \in Nat,
           Len(jobs'[s]) + Remaining(s)' <= Len(jobs[s]) + Remaining(s)
    PROVE  PaidAt(s)'
<1>1. Attempts(s)' = Attempts(s) /\ Granted(s)' = Granted(s)
  BY DEF Attempts, Granted
<1>2. ~Entering(s) /\ ~Entering(s)'
  BY DEF Entering, Working, At
<1>3. Owes(s)' => Owes(s)
  BY <1>2 DEF Owes
<1>4. Owed(s)' <= Owed(s) /\ Owed(s)' \in Nat /\ Owed(s) \in Nat
  BY <1>1, <1>3, Numbers DEF Owed
<1>5. Afforded(s)'
  <2> DEFINE r == Remaining(s)'
             o == Owed(s)'
             l == Len(jobs'[s])
  <2>1. Len(jobs[s]) + Owed(s) + Remaining(s) <= Granted(s)
    BY DEF PaidAt, Afforded
  <2>2. r \in Nat /\ o \in Nat /\ l \in Nat /\ o <= Owed(s) /\ l + r <= Len(jobs[s]) + Remaining(s)
    BY <1>4
  <2> HIDE DEF r, o, l
  <2>3. l + o + r <= Granted(s)
    BY <1>4, <2>1, <2>2, Numbers, RemainingType
  <2> QED
    BY <1>1, <2>3 DEF Afforded, r, o, l
<1> QED
  BY <1>5 DEF PaidAt

\* The step at work is a step, and the copy has it running.
LEMMA AtWork ==
    ASSUME TypeOK, Gated, drive.pc \in {"create", "mark", "wait"}
    PROVE  /\ drive.step \in Steps /\ Node(drive.step).status = "running"
           /\ Working(drive.step) /\ Walking
           /\ \A s \in Steps : s # drive.step => ~Working(s) /\ ~Entering(s)
<1>1. drive.step \in 0 .. N
  BY DriveFields DEF TypeOK
<1>2. Working(drive.step)
  BY DEF Working
<1>3. drive.step \in Steps /\ Node(drive.step).status = "running"
  BY <1>1, <1>2 DEF Gated, WorkCleared
<1> QED
  BY <1>2, <1>3 DEF Working, Walking, Entering

LEMMA AttemptPaid ==
    ASSUME NEW l \in Nat, NEW k \in Nat, NEW r \in Nat, l <= k + 1
    PROVE  l + r <= k + (r + 1)
  OBVIOUS

\* A job is made, or the next attempt begins.
LEMMA PaidWork ==
    ASSUME TypeOK, NEW s \in Steps, PaidAt(s), Gated,
           Create \/ Mark \/ RetryAttempt \/ SwapModel
    PROVE  PaidAt(s)'
<1> DEFINE t == drive.step
<1>0. /\ drive \in Drives /\ drive.copy \in [Steps -> Nodes] /\ row \in [Steps -> Rows]
      /\ jobs \in [Steps -> Seq(JobStatuses)]
      /\ Node(s) = drive.copy[s] /\ Node(s) \in Nodes /\ UNCHANGED <<approvals, resets>>
  BY DriveFields DEF TypeOK, Node, Create, Mark, RetryAttempt, SwapModel, counted
<1>1. drive.pc \in {"create", "mark", "wait"}
  BY DEF Create, Mark, RetryAttempt, SwapModel, At
<1>2. drive'.pc \in {"create", "mark", "wait"} /\ drive'.step = t
  BY <1>0 DEF Create, Mark, RetryAttempt, SwapModel, Goto, Drives
<1>3. Node(s)'.status = Node(s).status
  <2>1. CASE Create
    <3>1. drive'.copy = [drive.copy EXCEPT ![t].attempts = Node(t).attempts + 1]
      BY <1>0, <2>1 DEF Create, Drives
    <3> QED
      BY <1>0, <3>1 DEF Nodes, Node
  <2>2. CASE Mark \/ RetryAttempt \/ SwapModel
    BY <1>0, <2>2 DEF Mark, RetryAttempt, SwapModel, Goto, Drives, Node
  <2> QED
    BY <2>1, <2>2
<1>4. Pending(s)' => Pending(s)
  <2>1. CASE Mark
    <3>1. row' = [row EXCEPT ![t] = [row[t] EXCEPT !.status = "running", !.job = Node(t).attempts]]
      BY <1>0, <2>1, AtWork DEF Mark, At
    <3> QED
      BY <1>0, <3>1 DEF Pending, Rows
  <2>2. CASE Create \/ RetryAttempt \/ SwapModel
    BY <2>2 DEF Create, RetryAttempt, SwapModel, Pending
  <2> QED
    BY <2>1, <2>2
<1>5. CASE s # t
  <2>1. ~Entering(s)' /\ ~Working(s)'
    BY <1>2, <1>5 DEF Entering, Working, At
  <2>2. jobs'[s] = jobs[s]
    BY <1>0, <1>5 DEF Create, Mark, RetryAttempt, SwapModel
  <2> QED
    BY <1>0, <1>1, <1>3, <1>4, <2>1, <2>2, PaidOff, AtWork DEF Unasked, Owes
<1>6. CASE s = t
  <2>1. /\ Working(s) /\ Working(s)' /\ ~Entering(s) /\ ~Entering(s)'
        /\ Node(s).status = "running" /\ Node(s)'.status = "running"
    BY <1>1, <1>2, <1>3, <1>6, AtWork DEF Working, Entering, At
  <2>2. drive.tries <= Retries[s] /\ drive.swaps <= Alternates[s]
    BY <2>1 DEF PaidAt, Counted
  <2>3. Remaining(s) = IF drive.pc = "create" THEN Attempts(s) - drive.tries - drive.swaps
                       ELSE Attempts(s) - 1 - drive.tries - drive.swaps
    BY <2>1 DEF Remaining, At
  <2>4. Remaining(s)' = IF drive'.pc = "create" THEN Attempts(s) - drive'.tries - drive'.swaps
                        ELSE Attempts(s) - 1 - drive'.tries - drive'.swaps
    BY <2>1 DEF Remaining, At, Attempts
  <2>5. /\ Len(jobs'[s]) \in Nat
        /\ \/ /\ drive.pc = "create" /\ drive'.pc = "mark"
              /\ Len(jobs'[s]) <= Len(jobs[s]) + 1
              /\ drive'.tries = drive.tries /\ drive'.swaps = drive.swaps
           \/ /\ drive.pc = "mark" /\ drive'.pc = "wait"
              /\ Len(jobs'[s]) = Len(jobs[s])
              /\ drive'.tries = drive.tries /\ drive'.swaps = drive.swaps
           \/ /\ drive.pc = "wait" /\ drive'.pc = "create"
              /\ Len(jobs'[s]) = Len(jobs[s])
              /\ \/ drive.tries < Retries[s] /\ drive'.tries = drive.tries + 1
                    /\ drive'.swaps = drive.swaps
                 \/ drive.swaps < Alternates[s] /\ drive'.swaps = drive.swaps + 1
                    /\ drive'.tries = drive.tries
    <3>1. CASE Create
      <4>1. jobs'[s] = jobs[s] \/ jobs'[s] = Append(jobs[s], "live")
        BY <1>0, <1>6, <3>1 DEF Create
      <4>2. jobs[s] \in Seq(JobStatuses) /\ "live" \in JobStatuses
        BY <1>0 DEF JobStatuses
      <4>3. Len(jobs'[s]) \in Nat /\ Len(jobs'[s]) <= Len(jobs[s]) + 1
        BY <4>1, <4>2, AppendJob, Numbers
      <4> QED
        BY <1>0, <3>1, <4>3 DEF Create, At, Drives
    <3>2. CASE Mark
      BY <1>0, <3>2, Numbers DEF Mark, Goto, At, Drives
    <3>3. CASE RetryAttempt
      BY <1>0, <1>6, <3>3, Numbers DEF RetryAttempt, MayRetry, At, Drives
    <3>4. CASE SwapModel
      BY <1>0, <1>6, <3>4, Numbers DEF SwapModel, MaySwap, At, Drives
    <3> QED
      BY <3>1, <3>2, <3>3, <3>4
  <2>6. Counted(s)'
    BY <2>1, <2>2, <2>5, Numbers DEF Counted
  <2>7. Remaining(s)' \in Nat /\ Len(jobs'[s]) + Remaining(s)' <= Len(jobs[s]) + Remaining(s)
    <3> DEFINE l == Len(jobs'[s])
               r == Remaining(s)'
               x == drive.tries
               y == drive.swaps
               rest == Attempts(s) - 1 - x - y
    <3>1. /\ Retries[s] \in Nat /\ Alternates[s] \in Nat /\ x \in Nat /\ y \in Nat
          /\ Len(jobs[s]) \in Nat /\ x <= Retries[s] /\ y <= Alternates[s]
      BY <2>2, Numbers
    <3>2. rest \in Nat /\ Attempts(s) - x - y = rest + 1
      BY <3>1, AttemptsLeft DEF Attempts
    <3>t. Attempts(s) - (x + 1) - y = rest /\ Attempts(s) - x - (y + 1) = rest
      <4>1. Attempts(s) \in Nat /\ x \in Nat /\ y \in Nat
        BY Numbers
      <4> HIDE DEF x, y
      <4> QED
        BY <4>1, AttemptTaken
    <3>3. CASE drive.pc = "create"
      <4>1. /\ l \in Nat /\ l <= Len(jobs[s]) + 1
            /\ r = rest /\ Remaining(s) = rest + 1
        BY <2>3, <2>4, <2>5, <3>2, <3>3
      <4> HIDE DEF l, r, rest
      <4>2. r \in Nat /\ l + r <= Len(jobs[s]) + Remaining(s)
        BY <3>1, <3>2, <4>1, AttemptPaid
      <4> QED
        BY <4>2 DEF l, r
    <3>4. CASE drive.pc = "mark"
      <4>1. /\ l \in Nat /\ l = Len(jobs[s])
            /\ r = rest /\ Remaining(s) = rest
        BY <2>3, <2>4, <2>5, <3>4
      <4> HIDE DEF l, r, rest
      <4>2. r \in Nat /\ l + r <= Len(jobs[s]) + Remaining(s)
        BY <3>1, <3>2, <4>1
      <4> QED
        BY <4>2 DEF l, r
    <3>5. CASE drive.pc = "wait"
      <4>1. /\ l \in Nat /\ l = Len(jobs[s])
            /\ Remaining(s) = rest /\ r = Attempts(s) - drive'.tries - drive'.swaps
        BY <2>3, <2>4, <2>5, <3>5
      <4>2. \/ x < Retries[s] /\ drive'.tries = x + 1 /\ drive'.swaps = y
            \/ y < Alternates[s] /\ drive'.swaps = y + 1 /\ drive'.tries = x
        BY <2>5, <3>5
      <4>t. ASSUME drive'.tries = x + 1, drive'.swaps = y PROVE r = rest
        BY <3>t, <4>1, <4>t
      <4>s. ASSUME drive'.swaps = y + 1, drive'.tries = x PROVE r = rest
        BY <3>t, <4>1, <4>s
      <4>3. r = rest
        BY <4>2, <4>t, <4>s
      <4> HIDE DEF l, r, rest
      <4>4. r \in Nat /\ l + r <= Len(jobs[s]) + Remaining(s)
        BY <3>1, <3>2, <4>1, <4>3
      <4> QED
        BY <4>4 DEF l, r
    <3> QED
      BY <2>5, <3>3, <3>4, <3>5
  <2> QED
    BY <1>0, <1>4, <2>1, <2>5, <2>6, <2>7, PaidWorking
<1> QED
  BY <1>5, <1>6

\* The job is settled, or given up.
LEMMA PaidResult ==
    ASSUME TypeOK, NEW s \in Steps, PaidAt(s), Gated,
           StepCompletes \/ AskSwap \/ AskModerated \/ StepFails
    PROVE  PaidAt(s)'
<1> DEFINE t == drive.step
           k == Node(t).attempts
<1>0. /\ drive \in Drives /\ drive.copy \in [Steps -> Nodes] /\ drive.pc = "wait"
      /\ Node(s) = drive.copy[s] /\ t \in Steps /\ k \in Nat /\ Walking
      /\ UNCHANGED row /\ Unasked(s)
  BY DriveFields, AtWork
  DEF TypeOK, Node, StepCompletes, AskSwap, AskModerated, StepFails, At, counted, Unasked
<1>1. Pending(s)' => Pending(s)
  BY <1>0 DEF Pending
<1>2. CASE StepCompletes
  <2> DEFINE c == [drive.copy EXCEPT ![t].status = "completed", ![t].job = k]
  <2>1. c \in [Steps -> Nodes]
    BY <1>0, JobType, StatusTypes
  <2>2. c[s].status \in {Node(s).status, "completed"}
    BY <1>0 DEF Nodes
  <2>3. Checkpoint(t, c, "scan", "running")
    BY <1>2 DEF StepCompletes
  <2> HIDE DEF c
  <2> QED
    BY <1>0, <1>1, <2>1, <2>2, <2>3, PaidCheckpoint
<1>3. CASE AskSwap \/ AskModerated
  <2>1. drive'.pc = "decide"
    BY <1>0, <1>3 DEF AskSwap, AskModerated, Goto, Drives
  <2>2. Node(s)'.status = Node(s).status
    <3>1. CASE AskSwap
      BY <1>0, <3>1 DEF AskSwap, Goto, Drives, Node
    <3>2. CASE AskModerated
      <4>1. drive'.copy = [drive.copy EXCEPT ![t].job = k]
        BY <1>0, <3>2 DEF AskModerated, Drives
      <4> QED
        BY <1>0, <4>1 DEF Node, Nodes
    <3> QED
      BY <1>3, <3>1, <3>2
  <2>3. ~Entering(s)' /\ ~Working(s)'
    BY <2>1 DEF Entering, Working, At
  <2> QED
    BY <1>0, <1>1, <2>2, <2>3, PaidOff DEF Owes
<1>4. CASE StepFails
  <2> DEFINE failed == [drive.copy EXCEPT ![t].status = "failed", ![t].job = k]
             skipped == [u \in Steps |-> IF failed[u].status = "pending" /\ t \in Deps[u]
                                         THEN [failed[u] EXCEPT !.status = "skipped"] ELSE failed[u]]
  <2>1. failed \in [Steps -> Nodes]
    BY <1>0, JobType, StatusTypes
  <2>2. failed[s].status \in {Node(s).status, "failed"}
    BY <1>0 DEF Nodes
  <2>3. skipped \in [Steps -> Nodes]
    <3> HIDE DEF failed
    <3>1. \A u \in Steps : [failed[u] EXCEPT !.status = "skipped"] \in Nodes
      BY <2>1, NodeStatus, StatusTypes
    <3> QED
      BY <2>1, <3>1
  <2>4. skipped[s].status \in {failed[s].status, "skipped"}
    <3> HIDE DEF failed
    <3> QED
      BY <2>1 DEF Nodes
  <2> HIDE DEF failed, skipped
  <2>5. \/ Checkpoint(t, failed, "finish", "failed")
        \/ Checkpoint(t, skipped, "scan", "running")
        \/ Checkpoint(t, failed, "scan", "running")
    BY <1>4 DEF StepFails, failed, skipped
  <2>6. failed[s].status = "pending" => Node(s).status = "pending"
    BY <2>2
  <2>7. skipped[s].status = "pending" => Node(s).status = "pending"
    BY <2>4, <2>6
  <2> QED
    BY <1>0, <1>1, <2>1, <2>3, <2>5, <2>6, <2>7, PaidCheckpoint
<1> QED
  BY <1>2, <1>3, <1>4

-----------------------------------------------------------------------------
(* The owner's requests, the jobs and the process.                          *)

LEMMA PaidRequest ==
    ASSUME TypeOK, NEW s \in Steps, PaidAt(s), NEW c \in Callers, NEW t \in Steps,
           CancelJob(c, t) \/ WriteRow(c, t)
    PROVE  PaidAt(s)'
<1>0. /\ row \in [Steps -> Rows] /\ jobs \in [Steps -> Seq(JobStatuses)]
      /\ approvals \in [Steps -> Nat] /\ resets \in [Steps -> Nat]
      /\ UNCHANGED drive
  BY DEF TypeOK, CancelJob, WriteRow
<1>1. CASE CancelJob(c, t)
  <2>1. jobs' = jobs \/ \E k : jobs' = [jobs EXCEPT ![t] = [jobs[t] EXCEPT ![k] = "cancelled"]]
    BY <1>1 DEF CancelJob
  <2>2. Len(jobs'[s]) = Len(jobs[s])
    BY <1>0, <2>1, ReplaceJob DEF JobStatuses
  <2>3. UNCHANGED <<row, approvals, resets>>
    BY <1>1 DEF CancelJob, counted
  <2>4. Granted(s)' = Granted(s)
    BY <2>3 DEF Granted, Attempts
  <2> QED
    BY <1>0, <2>2, <2>3, <2>4, PaidOn, Numbers DEF Pending
<1>2. CASE WriteRow(c, t)
  <2> DEFINE op == call[c].op
  <2>0. approvals[s] \in Nat /\ resets[s] \in Nat
    BY <1>0
  <2>1. /\ UNCHANGED jobs
        /\ row' = [row EXCEPT ![t] = Rewritten(c, t)]
        /\ approvals' = [approvals EXCEPT ![t] = IF op = "approve" THEN @ + 1 ELSE @]
        /\ resets' = [resets EXCEPT ![t] = IF op = "retry" THEN @ + 1 ELSE @]
    BY <1>2 DEF WriteRow
  <2>2. CASE s = t /\ op \in {"approve", "retry"}
    <3>0. \/ approvals'[s] = approvals[s] + 1 /\ resets'[s] = resets[s]
          \/ approvals'[s] = approvals[s] /\ resets'[s] = resets[s] + 1
      BY <1>0, <2>1, <2>2
    <3>1. 1 + approvals'[s] + resets'[s] = (1 + approvals[s] + resets[s]) + 1
          /\ 1 + approvals[s] + resets[s] \in Nat
      BY <2>0, <3>0
    <3>2. Granted(s)' = Granted(s) + Attempts(s)
      BY <3>1, Grants
    <3>3. Granted(s)' \in Nat /\ Granted(s)' >= Granted(s)
          /\ Granted(s)' >= Granted(s) + Attempts(s)
      BY <3>2, Numbers
    <3>4. UNCHANGED <<drive, jobs>>
      BY <1>0, <2>1
    <3> QED
      BY <3>3, <3>4, PaidOn
  <2>3. CASE ~(s = t /\ op \in {"approve", "retry"})
    <3>1. approvals'[s] = approvals[s] /\ resets'[s] = resets[s]
      BY <1>0, <2>1, <2>3
    <3>2. Granted(s)' = Granted(s)
      BY <3>1 DEF Granted, Attempts
    <3>3. Pending(s)' => Pending(s)
      BY <1>0, <2>1, <2>3 DEF Pending, Rewritten, Rows
    <3> QED
      BY <1>0, <2>1, <3>2, <3>3, PaidOn, Numbers
  <2> QED
    BY <2>2, <2>3
<1> QED
  BY <1>1, <1>2

LEMMA PaidElsewhere ==
    ASSUME TypeOK, NEW s \in Steps, PaidAt(s),
           \/ UNCHANGED vars
           \/ \E c \in Callers : \/ WriteRun(c) \/ Send(c)
                                 \/ \E op \in Operations, t \in Steps : Begin(c, op, t)
           \/ \E t \in Steps : JobSettles(t)
           \/ Crash \/ Boot
    PROVE  PaidAt(s)'
<1>0. UNCHANGED <<row, approvals, resets>>
  BY DEF vars, counted, WriteRun, Send, Begin, JobSettles, Crash, Boot
<1>1. Granted(s)' = Granted(s) /\ Pending(s)' = Pending(s)
  BY <1>0 DEF Granted, Attempts, Pending
<1>2. CASE Crash
  <2>1. drive'.pc = "idle" /\ UNCHANGED jobs
    BY <1>2 DEF Crash, Rest
  <2> QED
    BY <1>0, <1>1, <2>1, PaidOff DEF Unasked, Entering, Working, Walking, At, Owes
<1>3. CASE \E t \in Steps : JobSettles(t)
  <2>1. PICK t \in Steps : JobSettles(t)
    BY <1>3
  <2>2. PICK k \in DOMAIN jobs[t], st \in {"completed", "failed", "moderated"} :
            jobs' = [jobs EXCEPT ![t] = [jobs[t] EXCEPT ![k] = st]]
    BY <2>1, Zenon DEF JobSettles
  <2>3. jobs \in [Steps -> Seq(JobStatuses)] /\ st \in JobStatuses
    BY DEF TypeOK, JobStatuses
  <2>4. Len(jobs'[s]) = Len(jobs[s])
    BY <2>2, <2>3, ReplaceJob
  <2>5. UNCHANGED drive
    BY <2>1 DEF JobSettles
  <2> QED
    BY <1>1, <2>4, <2>5, PaidOn, Numbers
<1>4. CASE ~Crash /\ ~(\E t \in Steps : JobSettles(t))
  <2>1. UNCHANGED <<drive, jobs>>
    BY <1>4 DEF vars, WriteRun, Send, Begin, Boot
  <2> QED
    BY <1>1, <2>1, PaidOn, Numbers
<1> QED
  BY <1>2, <1>3, <1>4

\* What a run has paid, still owes and may still spend stays within what was granted.
LEMMA PaidStep == TypeOK /\ Gated /\ Paid /\ [Next]_vars => Paid'
<1> SUFFICES ASSUME TypeOK, Gated, Paid, [Next]_vars, NEW s \in Steps PROVE PaidAt(s)'
  BY DEF Paid
<1>0. PaidAt(s)
  BY DEF Paid
<1>1. ASSUME DriveStep PROVE PaidAt(s)'
  BY <1>0, <1>1, PaidAround, PaidScan, PaidPersist, PaidWork, PaidResult DEF DriveStep
<1>2. ASSUME NEW c \in Callers, CallStep(c) PROVE PaidAt(s)'
  BY <1>0, <1>2, PaidRequest, PaidElsewhere DEF CallStep
<1>3. CASE UNCHANGED vars
  BY <1>0, <1>3, PaidElsewhere
<1>4. CASE \/ \E c \in Callers, op \in Operations, t \in Steps : Begin(c, op, t)
           \/ \E t \in Steps : JobSettles(t)
           \/ Crash \/ Boot
  BY <1>0, <1>4, PaidElsewhere
<1> QED
  BY <1>1, <1>2, <1>3, <1>4 DEF Next

\* No step is paid for more often than its retries and alternates allow for each time
\* the owner asked for it, whatever is crashed, resumed or asked twice in between:
\* upsertStep, markStepRunning and the idempotency keys of executor.ts and workflows.ts.
THEOREM PaidAsAsked == Spec => []PaidOnlyWhenAsked
<1>1. Init => Gated /\ Paid
  <2> SUFFICES ASSUME Init PROVE Gated /\ Paid
    OBVIOUS
  <2>1. \A s \in Steps : /\ ~row[s].approved /\ row[s].status = "none"
                         /\ ~Node(s).approved /\ Node(s).status = "pending"
    BY DEF Init, Rest, Fresh, Node
  <2>2. drive.pc = "idle"
    BY DEF Init, Rest
  <2>3. Gated
    BY <2>1, <2>2, GraphAssumption
    DEF Gated, Recorded, BarriersAnswered, WorkCleared, Entering, Working, At
  <2>4. ASSUME NEW s \in Steps PROVE PaidAt(s)
    <3>1. ~Entering(s) /\ ~Working(s) /\ Remaining(s) = 0
      BY <2>2 DEF Entering, Working, At, Remaining
    <3>2. Owed(s) = Attempts(s)
      BY <2>1 DEF Owed, Owes, Pending
    <3>3. Len(jobs[s]) = 0 /\ approvals[s] = 0 /\ resets[s] = 0
      BY DEF Init
    <3>4. Attempts(s) \in Nat
      BY GraphAssumption DEF Attempts
    <3>5. Granted(s) = Attempts(s)
      BY <3>3, <3>4 DEF Granted
    <3> QED
      BY <3>1, <3>2, <3>3, <3>4, <3>5 DEF PaidAt, Afforded, Counted
  <2> QED
    BY <2>3, <2>4 DEF Paid
<1>2. TypeOK /\ Paid => PaidOnlyWhenAsked
  <2> SUFFICES ASSUME TypeOK, Paid, NEW s \in Steps PROVE Len(jobs[s]) <= Granted(s)
    BY DEF PaidOnlyWhenAsked, Granted, Attempts
  <2>1. Owed(s) \in Nat /\ PaidAt(s)
    BY Numbers DEF Owed, Paid
  <2> QED
    BY <2>1, Numbers, RemainingType DEF PaidAt, Afforded
<1> QED
  BY <1>1, <1>2, RunTypes, GatedStep, PaidStep, PTL DEF Spec
=============================================================================
