----------------------------- MODULE WorkflowRun -----------------------------
(***************************************************************************)
(* One workflow run: the executor of packages/workflows/src/executor.ts,   *)
(* the driver and the owner's actions of apps/web/src/server/workflows.ts, *)
(* and the runs queue of packages/core/src/jobs/engine.ts.                 *)
(*                                                                         *)
(* A drive copies the step rows, walks the graph in its copy, and writes   *)
(* the copy back one row at a time after every change.  The owner's calls  *)
(* write the same rows by id, and nothing but the queue, which holds one   *)
(* drive of a run and serves one at a time, keeps the two apart.  A step   *)
(* of the model is the code between two awaits.                            *)
(*                                                                         *)
(* The rows, the queue and the jobs survive the process; the drive and the *)
(* calls do not.  The jobs are those of JobEngine, seen from outside.      *)
(***************************************************************************)
EXTENDS Integers, Sequences

CONSTANTS
    N,               \* steps of the expanded graph, numbered in graph order
    Deps,            \* impliedDependencies of each step
    Barriers,        \* the steps of kind approval; the others are generate steps
    Gate,            \* the approval of each step: "none", "soft" (skippable), "hard"
    Conditional,     \* the steps with a when
    OnFail,          \* on_fail of each step
    Retries,         \* retry.max of each step
    Alternates,      \* how many alternates each step lists
    Callers,         \* concurrent requests of the owner
    Operations,      \* what they ask for
    MaxCalls,        \* bound: requests
    MaxBoots         \* bound: process starts

Steps == 1 .. N

ASSUME GraphAssumption ==
    /\ N \in Nat \ {0}
    /\ Deps \in [Steps -> SUBSET Steps]
    /\ Barriers \subseteq Steps /\ Conditional \subseteq Steps
    /\ Gate \in [Steps -> {"none", "soft", "hard"}]
    /\ \A b \in Barriers : Gate[b] # "none"
    /\ OnFail \in [Steps -> {"fail", "skip", "continue"}]
    /\ Retries \in [Steps -> Nat] /\ Alternates \in [Steps -> Nat]
ASSUME ChoicesAssumption ==
    /\ Operations \subseteq {"start", "approve", "deny", "cancel", "retry"}
    /\ MaxCalls \in Nat /\ MaxBoots \in Nat

VARIABLES
    \* The database.
    run,             \* runs.status, "planned" before startRun
    automatic,       \* runs.automatic or runs.skip_approvals: every start of the
                     \* run asks for the same
    row,             \* run_steps: status, approved_at, attempts, job_id
    queued,          \* a message of the runs queue carries the run
    jobs,            \* the jobs of each step: the n-th has the key of attempt n
    \* The process.
    up,              \* the process runs
    drive,           \* the runs worker: where it is, and its copy of the run
    call,            \* the owner's requests: where they are, and what they read
    \* What the bounds and the properties count.
    approvals,       \* how often the owner approved the step
    resets,          \* how often a retry reset it
    opened,          \* its gate since it was last reset: "no", "approved" by the owner,
                     \* or "kept": approved before the reset, which left the row's time
    calls, boots

counted == <<automatic, approvals, resets, opened, calls, boots>>
vars == <<run, row, queued, jobs, up, drive, call, counted>>

-----------------------------------------------------------------------------
StepStatuses == {"pending", "running", "waiting", "completed", "failed", "skipped",
                 "denied", "cancelled"}
RunStatuses == {"running", "awaiting", "completed", "failed", "cancelled"}
JobStatuses == {"live", "completed", "failed", "moderated", "cancelled"}

\* A node of the graph, and a row of run_steps, "none" before its first upsert.
Nodes == [status : StepStatuses, approved : BOOLEAN, attempts : Nat, job : Nat]
Rows  == [status : StepStatuses \cup {"none"}, approved : BOOLEAN, attempts : Nat, job : Nat]
Fresh == [status |-> "pending", approved |-> FALSE, attempts |-> 0, job |-> 0]

DrivePcs == {"idle", "load", "scan", "decide", "persist", "create", "mark", "wait",
             "finish", "throw", "throwRow", "throwRun"}

\* The driver: its copy of the steps, the step it is at, the row it writes next
\* and where it goes after the last one, the attempts it made beyond the first,
\* the alternates it tried, the run status it will write.
Drives == [pc : DrivePcs, copy : [Steps -> Nodes], step : 0 .. N, at : Steps,
           after : {"scan", "create", "finish"}, tries : Nat, swaps : Nat,
           status : RunStatuses]
Rest == [pc |-> "idle", copy |-> [s \in Steps |-> Fresh], step |-> 0, at |-> 1,
         after |-> "scan", tries |-> 0, swaps |-> 0, status |-> "running"]

\* A request: the rows it still has to write, the jobs it still has to cancel,
\* and which of the rows it saw waiting.
Calls == [pc : {"idle", "rows", "row", "send"},
          op : {"start", "approve", "deny", "cancel", "retry"},
          left : SUBSET Steps, seen : SUBSET Steps, live : [Steps -> Nat], step : Steps]
NoCall == [pc |-> "idle", op |-> "start", left |-> {}, seen |-> {},
           live |-> [s \in Steps |-> 0], step |-> 1]

TypeOK ==
    /\ run \in RunStatuses \cup {"planned"}
    /\ automatic \in BOOLEAN
    /\ row \in [Steps -> Rows]
    /\ queued \in BOOLEAN
    /\ jobs \in [Steps -> Seq(JobStatuses)]
    /\ up \in BOOLEAN
    /\ drive \in Drives
    /\ call \in [Callers -> Calls]
    /\ approvals \in [Steps -> Nat] /\ resets \in [Steps -> Nat]
    /\ opened \in [Steps -> {"no", "approved", "kept"}]
    /\ calls \in Nat /\ boots \in Nat

Init ==
    /\ run = "planned"
    /\ automatic \in BOOLEAN
    /\ row = [s \in Steps |-> [Fresh EXCEPT !.status = "none"]]
    /\ queued = FALSE
    /\ jobs = [s \in Steps |-> <<>>]
    /\ up = TRUE
    /\ drive = Rest
    /\ call = [c \in Callers |-> NoCall]
    /\ approvals = [s \in Steps |-> 0] /\ resets = [s \in Steps |-> 0]
    /\ opened = [s \in Steps |-> "no"]
    /\ calls = 0 /\ boots = 0

-----------------------------------------------------------------------------
(* The drive: driveRunToRest, driveResumed and execute.                     *)

At(p) == drive.pc = p
Node(s) == drive.copy[s]
Goto(p) == drive' = [drive EXCEPT !.pc = p]

\* upsertStep.  The approval time is dropped when the step is pending with its
\* gate closed; a job id the node does not have leaves the row's alone.
Upsert(old, node) ==
    [status   |-> node.status,
     approved |-> old.approved /\ ~(node.status = "pending" /\ ~node.approved),
     attempts |-> node.attempts,
     job      |-> IF node.job = 0 THEN old.job ELSE node.job]

\* The copy changes at step s, every row is written, and the drive goes on.
Checkpoint(s, c, then, st) ==
    drive' = [drive EXCEPT !.pc = "persist", !.at = 1, !.after = then, !.step = s, !.copy = c,
                           !.status = st, !.tries = 0, !.swaps = 0]

\* The same, when only the status of s changes.
Settle(s, st) == Checkpoint(s, [drive.copy EXCEPT ![s].status = st], "scan", "running")

Fetch ==
    /\ up /\ At("idle") /\ queued
    /\ queued' = FALSE
    /\ Goto("load")
    /\ UNCHANGED <<run, row, jobs, up, call, counted>>

\* Deviation: a step without a row yet is taken as it is.
LoadAsIs ==
    /\ At("load")
    /\ drive' = [Rest EXCEPT !.pc = "scan", !.copy = row]
    /\ UNCHANGED <<run, row, queued, jobs, up, call, counted>>

\* rebuildRunState.  The status of the run is not looked at.
Load ==
    /\ At("load")
    /\ drive' = [Rest EXCEPT !.pc = "scan",
                    !.copy = [s \in Steps |-> [row[s] EXCEPT
                        !.status = IF @ = "none" THEN "pending" ELSE @]]]
    /\ UNCHANGED <<run, row, queued, jobs, up, call, counted>>

Done(s) == Node(s).status \in {"completed", "skipped"}
Ready == {s \in Steps : Node(s).status = "pending" /\ \A t \in Deps[s] : Done(t)}

\* The loop goes on behind the last step, and from the start after a round that
\* progressed.
Before(s, t) ==
    \/ s > drive.step /\ t <= drive.step
    \/ (s > drive.step <=> t > drive.step) /\ s <= t
IsNext(s) == s \in Ready /\ \A t \in Ready : Before(s, t)

\* Nothing is ready any more.
Exhausted ==
    /\ At("scan") /\ Ready = {}
    /\ Checkpoint(drive.step, drive.copy, "finish", "completed")
    /\ UNCHANGED <<run, row, queued, jobs, up, call, counted>>

\* The when of the step is false.
SkipStep(s) ==
    /\ At("scan") /\ IsNext(s) /\ s \in Conditional
    /\ Settle(s, "skipped")
    /\ UNCHANGED <<run, row, queued, jobs, up, call, counted>>

\* A checkpoint asks unless it has been answered, or may be passed by itself.
Passes(s) == Gate[s] = "none" \/ Node(s).approved
Proceeds(s) == Gate[s] = "soft" /\ automatic

AskGate(s) ==
    /\ At("scan") /\ IsNext(s) /\ ~Passes(s) /\ ~Proceeds(s)
    /\ drive' = [drive EXCEPT !.pc = "decide", !.step = s]
    /\ UNCHANGED <<run, row, queued, jobs, up, call, counted>>

PassBarrier(s) ==
    /\ At("scan") /\ IsNext(s) /\ s \in Barriers /\ ~Passes(s) /\ Proceeds(s)
    /\ Checkpoint(s, [drive.copy EXCEPT ![s].status = "completed", ![s].approved = TRUE],
                  "scan", "running")
    /\ UNCHANGED <<run, row, queued, jobs, up, call, counted>>

\* Deviation: an open gate is not asked about.
EnterUnasked(s) ==
    /\ At("scan") /\ IsNext(s)
    /\ Checkpoint(s, [drive.copy EXCEPT ![s].status = "running"], "create", "running")
    /\ UNCHANGED <<run, row, queued, jobs, up, call, counted>>

\* The step is marked running.  So is a barrier that is pending although it has
\* been approved.
Enter(s) ==
    /\ At("scan") /\ IsNext(s)
    /\ Passes(s) \/ (Proceeds(s) /\ s \notin Barriers)
    /\ Checkpoint(s, [drive.copy EXCEPT ![s].status = "running",
                                        ![s].approved = @ \/ Gate[s] # "none"],
                  "create", "running")
    /\ UNCHANGED <<run, row, queued, jobs, up, call, counted>>

\* decide writes the row as waiting and never answers: the drive ends here.
Decide ==
    LET s == drive.step
        c == [drive.copy EXCEPT ![s].status = "waiting"]
    IN  /\ At("decide")
        /\ row' = [row EXCEPT ![s] = Upsert(@, c[s])]
        /\ Checkpoint(s, c, "finish", "awaiting")
        /\ UNCHANGED <<run, queued, jobs, up, call, counted>>

Persist ==
    /\ At("persist")
    /\ row' = [row EXCEPT ![drive.at] = Upsert(@, Node(drive.at))]
    /\ \/ drive.at < N /\ drive' = [drive EXCEPT !.at = @ + 1]
       \/ drive.at = N /\ Goto(drive.after)
    /\ UNCHANGED <<run, queued, jobs, up, call, counted>>

\* runStep throws: a template that does not render, a job the engine refuses, a
\* kind the host cannot run.
CreateThrows ==
    /\ At("create")
    /\ Goto("throw")
    /\ UNCHANGED <<run, row, queued, jobs, up, call, counted>>

\* createJob, with a key made of the attempt: a job of that key is replayed.
Create ==
    LET s == drive.step
        k == Node(s).attempts + 1
    IN  /\ At("create") /\ s \notin Barriers
        /\ jobs' = [jobs EXCEPT ![s] = IF k <= Len(@) THEN @ ELSE Append(@, "live")]
        /\ drive' = [drive EXCEPT !.pc = "mark", !.copy[s].attempts = k]
        /\ UNCHANGED <<run, row, queued, up, call, counted>>

\* The row gets the job, whatever it says by now.
Mark ==
    LET s == drive.step
    IN  /\ At("mark")
        /\ row' = [row EXCEPT ![s].status = "running", ![s].job = Node(s).attempts]
        /\ Goto("wait")
        /\ UNCHANGED <<run, queued, jobs, up, call, counted>>

\* What waitForJob returns: the state of the job, "live" when the poll window has
\* passed.
Outcome == jobs[drive.step][Node(drive.step).attempts]

StepCompletes ==
    LET s == drive.step
    IN  /\ At("wait") /\ Outcome = "completed"
        /\ Checkpoint(s, [drive.copy EXCEPT ![s].status = "completed", ![s].job = Node(s).attempts],
                      "scan", "running")
        /\ UNCHANGED <<run, row, queued, jobs, up, call, counted>>

\* Only a failure is worth another attempt; the alternates ask nothing of the kind.
MayRetry == Outcome = "failed" /\ drive.swaps = 0 /\ drive.tries < Retries[drive.step]
MaySwap  == Outcome # "completed" /\ ~MayRetry /\ drive.swaps < Alternates[drive.step]
GivesUp  == Outcome # "completed" /\ ~MayRetry /\ ~MaySwap

\* Deviation: the attempts made so far are not counted.
RetryUncounted ==
    /\ At("wait") /\ MayRetry
    /\ Goto("create")
    /\ UNCHANGED <<run, row, queued, jobs, up, call, counted>>

RetryAttempt ==
    /\ At("wait") /\ MayRetry
    /\ drive' = [drive EXCEPT !.pc = "create", !.tries = @ + 1]
    /\ UNCHANGED <<run, row, queued, jobs, up, call, counted>>

SwapModel ==
    /\ At("wait") /\ MaySwap
    /\ drive' = [drive EXCEPT !.pc = "create", !.swaps = @ + 1]
    /\ UNCHANGED <<run, row, queued, jobs, up, call, counted>>

\* The alternate costs too much to be tried without asking.
AskSwap ==
    /\ At("wait") /\ MaySwap
    /\ Goto("decide")
    /\ UNCHANGED <<run, row, queued, jobs, up, call, counted>>

\* A step that is moderated to the end asks what to do.
AskModerated ==
    /\ At("wait") /\ GivesUp /\ Outcome = "moderated"
    /\ drive' = [drive EXCEPT !.pc = "decide", !.copy[drive.step].job = Node(drive.step).attempts]
    /\ UNCHANGED <<run, row, queued, jobs, up, call, counted>>

\* applyFailPolicy.
StepFails ==
    LET s == drive.step
        failed == [drive.copy EXCEPT ![s].status = "failed", ![s].job = Node(s).attempts]
        skipped == [t \in Steps |-> IF failed[t].status = "pending" /\ s \in Deps[t]
                                    THEN [failed[t] EXCEPT !.status = "skipped"] ELSE failed[t]]
    IN  /\ At("wait") /\ GivesUp /\ Outcome # "moderated"
        /\ IF OnFail[s] = "fail" THEN Checkpoint(s, failed, "finish", "failed")
           ELSE Checkpoint(s, IF OnFail[s] = "skip" THEN skipped ELSE failed, "scan", "running")
        /\ UNCHANGED <<run, row, queued, jobs, up, call, counted>>

\* persistRun: the status of the copy, over whatever the run says by now.
Finish ==
    /\ At("finish")
    /\ run' = drive.status
    /\ drive' = Rest
    /\ UNCHANGED <<row, queued, jobs, up, call, counted>>

\* markRunFailed: the first live row, then the run.
Throw ==
    LET live == {s \in Steps : row[s].status \in {"running", "pending", "waiting"}}
    IN  /\ At("throw")
        /\ \/ \E s \in live : drive' = [drive EXCEPT !.pc = "throwRow", !.step = s]
           \/ live = {} /\ Goto("throwRun")
        /\ UNCHANGED <<run, row, queued, jobs, up, call, counted>>

ThrowRow ==
    /\ At("throwRow")
    /\ row' = [row EXCEPT ![drive.step].status = "failed"]
    /\ Goto("throwRun")
    /\ UNCHANGED <<run, queued, jobs, up, call, counted>>

ThrowRun ==
    /\ At("throwRun")
    /\ run' = "failed"
    /\ drive' = Rest
    /\ UNCHANGED <<row, queued, jobs, up, call, counted>>

-----------------------------------------------------------------------------
(* The owner's requests.                                                    *)

Is(c, p) == call[c].pc = p
Move(c, p) == call' = [call EXCEPT ![c].pc = p]

\* The steps a retry resets: the target and whatever depends on it.
Downstream(t) ==
    {s \in Steps : \A S \in SUBSET Steps :
        (t \in S /\ \A u \in Steps : Deps[u] \cap S # {} => u \in S) => s \in S}

\* The rows each request will write, from the rows it reads.
Targets(op, t) ==
    CASE op = "start"   -> {}
      [] op = "approve" -> {s \in Steps : row[s].status = "waiting"}
      [] op = "deny"    -> {s \in Steps : row[s].status \in {"waiting", "pending"}}
      [] op = "cancel"  -> {s \in Steps : row[s].status \in {"pending", "running", "waiting"}}
      [] op = "retry"   -> Downstream(t) \cup {s \in Steps : row[s].status \in {"pending", "none"}}

Begin(c, op, t) ==
    LET left == Targets(op, t)
        live(s) == op = "cancel" /\ s \in left /\ row[s].status # "waiting"
    IN  /\ up /\ Is(c, "idle") /\ op \in Operations
        /\ calls < MaxCalls
        /\ op = "approve" => left # {}
        /\ op = "retry" \/ t = 1
        /\ call' = [call EXCEPT ![c] =
                [pc |-> "rows", op |-> op, left |-> left, step |-> 1,
                 seen |-> {s \in left : op = "deny" /\ row[s].status = "waiting"},
                 live |-> [s \in Steps |-> IF live(s) THEN row[s].job ELSE 0]]]
        /\ calls' = calls + 1
        /\ UNCHANGED <<run, row, queued, jobs, up, drive, automatic, approvals, resets, opened, boots>>

\* A cancel asks the engine to cancel the job the row named, if it is not too late.
CancelJob(c, s) ==
    LET k == call[c].live[s]
    IN  /\ Is(c, "rows") /\ s \in call[c].left /\ k # 0
        /\ \/ jobs[s][k] = "live" /\ jobs' = [jobs EXCEPT ![s][k] = "cancelled"]
           \/ UNCHANGED jobs
        /\ call' = [call EXCEPT ![c].pc = "row", ![c].step = s, ![c].live[s] = 0]
        /\ UNCHANGED <<run, row, queued, up, drive, counted>>

\* What a request makes of a row.  A retry leaves the approval time where it is.
Rewritten(c, s) ==
    CASE call[c].op = "approve" ->
            [row[s] EXCEPT !.status = IF s \in Barriers THEN "completed" ELSE "pending",
                           !.approved = TRUE]
      [] call[c].op = "deny" ->
            [row[s] EXCEPT !.status = IF s \in call[c].seen THEN "denied" ELSE "skipped"]
      [] call[c].op = "cancel" -> [row[s] EXCEPT !.status = "cancelled"]
      [] call[c].op = "retry" -> [row[s] EXCEPT !.status = IF @ = "none" THEN @ ELSE "pending"]
      [] OTHER -> row[s]

WriteRow(c, s) ==
    /\ \/ Is(c, "rows") /\ s \in call[c].left /\ call[c].live[s] = 0
       \/ Is(c, "row") /\ s = call[c].step
    /\ row' = [row EXCEPT ![s] = Rewritten(c, s)]
    /\ call' = [call EXCEPT ![c].pc = "rows", ![c].left = @ \ {s}]
    /\ approvals' = [approvals EXCEPT ![s] = IF call[c].op = "approve" THEN @ + 1 ELSE @]
    /\ resets' = [resets EXCEPT ![s] = IF call[c].op = "retry" THEN @ + 1 ELSE @]
    /\ opened' = [opened EXCEPT ![s] =
                     CASE call[c].op = "approve" -> "approved"
                       [] call[c].op = "retry"   -> IF row[s].approved THEN "kept" ELSE "no"
                       [] OTHER                  -> @]
    /\ UNCHANGED <<run, queued, jobs, up, drive, automatic, calls, boots>>

Onward == {"start", "approve", "retry"}

\* The run is set running and has to be queued, or it is set cancelled.
WriteRun(c) ==
    /\ Is(c, "rows") /\ call[c].left = {}
    /\ \/ /\ call[c].op \in Onward
          /\ run' = "running"
          /\ Move(c, "send")
       \/ /\ call[c].op \notin Onward
          /\ run' = "cancelled"
          /\ call' = [call EXCEPT ![c] = NoCall]
    /\ UNCHANGED <<row, queued, jobs, up, drive, counted>>

\* enqueueRun: a second message of the same run is dropped.
Send(c) ==
    /\ Is(c, "send")
    /\ queued' = TRUE
    /\ call' = [call EXCEPT ![c] = NoCall]
    /\ UNCHANGED <<run, row, jobs, up, drive, counted>>

-----------------------------------------------------------------------------
(* The jobs, and the life of the process.                                   *)

JobSettles(s) ==
    /\ up
    /\ \E k \in DOMAIN jobs[s], st \in {"completed", "failed", "moderated"} :
        jobs[s][k] = "live" /\ jobs' = [jobs EXCEPT ![s][k] = st]
    /\ UNCHANGED <<run, row, queued, up, drive, call, counted>>

Crash ==
    /\ up /\ boots < MaxBoots
    /\ up' = FALSE
    /\ drive' = Rest
    /\ call' = [c \in Callers |-> NoCall]
    /\ UNCHANGED <<run, row, queued, jobs, counted>>

\* Deviation: only the runs that await an answer are resumed.
BootAwaiting ==
    /\ ~up
    /\ up' = TRUE
    /\ boots' = boots + 1
    /\ queued' = (queued \/ run = "awaiting")
    /\ UNCHANGED <<run, row, jobs, drive, call, automatic, approvals, resets, opened, calls>>

\* #recover queues every run left running or awaiting an answer.
Boot ==
    /\ ~up
    /\ up' = TRUE
    /\ boots' = boots + 1
    /\ queued' = (queued \/ run \in {"running", "awaiting"})
    /\ UNCHANGED <<run, row, jobs, drive, call, automatic, approvals, resets, opened, calls>>

-----------------------------------------------------------------------------
Scan(s) == SkipStep(s) \/ AskGate(s) \/ PassBarrier(s) \/ Enter(s)

DriveStep ==
    \/ Fetch \/ Load \/ Exhausted \/ Decide \/ Persist
    \/ CreateThrows \/ Create \/ Mark
    \/ StepCompletes \/ RetryAttempt \/ SwapModel \/ AskSwap \/ AskModerated \/ StepFails
    \/ Finish \/ Throw \/ ThrowRow \/ ThrowRun
    \/ \E s \in Steps : Scan(s)

CallStep(c) ==
    \/ WriteRun(c) \/ Send(c)
    \/ \E s \in Steps : CancelJob(c, s) \/ WriteRow(c, s)

Next ==
    \/ DriveStep
    \/ \E c \in Callers : CallStep(c) \/ \E op \in Operations, t \in Steps : Begin(c, op, t)
    \/ \E s \in Steps : JobSettles(s)
    \/ Crash \/ Boot

Spec == Init /\ [][Next]_vars

\* The worker goes on, a request that was taken is carried out, and a process that
\* is down is started again.  Jobs need not settle: the wait is bounded.
Fairness == WF_vars(DriveStep) /\ (\A c \in Callers : WF_vars(CallStep(c))) /\ WF_vars(Boot)

FairSpec == Spec /\ Fairness
-----------------------------------------------------------------------------
(* Properties.                                                              *)

\* A run that says it is running has somebody to drive it: a message, a drive that
\* has not written its result, or a request that is about to queue it, so that
\* nothing but a crash can leave it running for ever.
NoForgottenRun ==
    up /\ run = "running" => queued \/ ~At("idle") \/ \E c \in Callers : Is(c, "send")

\* No step is paid for again unless a request put it back to pending: each such
\* request, and the start, allow the attempts the workflow names and no more,
\* whatever crashes, resumed drives and second messages come between.
PaidOnlyWhenAsked ==
    \A s \in Steps :
        Len(jobs[s]) <= (1 + Retries[s] + Alternates[s]) * (1 + approvals[s] + resets[s])

Asks(s) == Gate[s] = "hard" \/ (Gate[s] = "soft" /\ ~automatic)

\* A step that must be approved does not start before the owner has approved it since it
\* was last reset, nor does a step behind a barrier, unless the barrier was skipped: not
\* through races of the owner's requests with a drive's old copy, crashes and resumed
\* drives.  The one exception are the gates whose approval a retry leaves in the row.
GateBeforeWork ==
    At("create") =>
        /\ Asks(drive.step) => opened[drive.step] # "no"
        /\ \A b \in Deps[drive.step] \cap Barriers :
               Asks(b) => opened[b] # "no" \/ Node(b).status = "skipped"

\* "A re-run asks again: a gate that was cleared for the previous attempt does not stand
\* in for this one": a step starts behind an approval given since it was last reset.
RerunAsksAgain == At("create") /\ Asks(drive.step) => opened[drive.step] = "approved"

\* Every run that is started comes to rest.
RunRests == run = "running" ~> run # "running"
=============================================================================
