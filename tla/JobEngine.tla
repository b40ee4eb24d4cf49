------------------------------ MODULE JobEngine ------------------------------
(***************************************************************************)
(* The generation job engine: packages/core/src/jobs/engine.ts with the    *)
(* finalizer it calls (jobs/finalize.ts) and the network flag it reads     *)
(* (net/network-state.ts).                                                 *)
(*                                                                         *)
(* A job is one row of the jobs table.  Callers (route handlers, chat, the *)
(* MCP server, workflow steps) create, retry, cancel and check jobs.       *)
(* Workers are the concurrent handlers pg-boss runs on a provider queue;   *)
(* each takes one message and drives one job.  Boot is the engine's own    *)
(* start-up pass.  All of them are async functions of one Node process, so *)
(* a step of the model is the code between two awaits.  What an actor read *)
(* before an await stays in its local record and may be stale after it.    *)
(*                                                                         *)
(* The database, the queue and the Library survive the process; the        *)
(* actors, the abort controllers and the network flag do not.              *)
(***************************************************************************)
EXTENDS Integers, Sequences

CONSTANTS
    Jobs,            \* job ids, numbered in the order of their created_at
    Workers,         \* pg-boss handlers of one provider queue
    Callers,         \* concurrent callers of the engine's public methods
    Boot,            \* the start-up pass
    None,            \* no job, no actor
    Operations,      \* the public methods the callers use
    Duplicates,      \* may a keyed send add a second queued message: the answers
    Faults,          \* what can fail on the disk: writing an output, making the
                     \* staging directory of a check, or doing so only where
                     \* somebody else has the job too
    MaxCalls,        \* bound: calls of the public methods
    MaxBoots,        \* bound: process starts
    MaxUnreachable   \* bound: submissions that find no network

Actors == Workers \cup Callers \cup {Boot}

ASSUME JobsAssumption == Jobs \subseteq Nat /\ None \notin Jobs
ASSUME ActorsAssumption ==
    /\ Workers \cap Callers = {}
    /\ Boot \notin Workers \cup Callers
    /\ None \notin Actors
ASSUME ChoicesAssumption ==
    /\ Operations \subseteq {"create", "retry", "cancel", "check"}
    /\ Duplicates \subseteq BOOLEAN /\ Duplicates # {}
    /\ Faults \subseteq {"output", "staging", "sharedStaging"}
    /\ MaxCalls \in Nat /\ MaxBoots \in Nat /\ MaxUnreachable \in Nat

VARIABLES
    \* The database.
    status,          \* jobs.status, "none" before the insert
    handle,          \* jobs.provider_request_id: 0, or which submission it names
    waiting,         \* jobs.step_label is WAITING_FOR_NETWORK
    ledger,          \* the job's spend_ledger rows
    assets,          \* the job's rows of the assets table
    files,           \* the job's Library files that have a sidecar
    queue,           \* queued messages of the job, by kind
    \* The process.
    phase,           \* life of the process
    todo,            \* rows #recover has selected and not yet visited
    online,          \* the observed network flag
    controller,      \* whose AbortController is registered for the job
    aborted,         \* actors whose signal has been aborted
    act,             \* where each actor is, and what it has read
    \* The provider, and what the bounds and the properties count.
    requests,        \* states of the job's submissions, in order
    confirmations,   \* confirmed creates and retries of the job
    calls, boots, unreachable

database == <<status, handle, waiting, ledger, assets, files>>
memory   == <<phase, todo, online, controller, aborted>>
counted  == <<confirmations, calls, boots, unreachable>>
vars == <<database, queue, memory, act, requests, counted>>

-----------------------------------------------------------------------------
Terminal == {"completed", "failed", "cancelled", "moderated"}
Active   == {"queued", "running"}
Statuses == Terminal \cup Active \cup {"none"}

\* The three messages: the two keyed sends of #enqueue and the unkeyed one of
\* #holdForNetwork.
Kinds == {"fresh", "resume", "hold"}

Charges == {"charged", "free"}
RequestStates == {"working", "done", "failed", "moderated", "cancelled"}

\* How a drive of a job ends: a completion, a failure the provider did not bill
\* (refused, lost, timed out), a failure before the network was reached, a
\* rejected prompt, a paid result that could not be downloaded, a paid blank
\* image, a moderated request (free or paid), the CANCELLED error, a cancel.
Verdicts == {"completed", "failed", "unreachable", "rejected", "undelivered",
             "blank", "moderated", "moderatedPaid", "stopped", "withdrawn"}

StatusOf(v) ==
    CASE v = "completed" -> "completed"
      [] v \in {"rejected", "blank", "moderated", "moderatedPaid"} -> "moderated"
      [] v \in {"stopped", "withdrawn"} -> "cancelled"
      [] OTHER -> "failed"

ChargeOf(v) ==
    IF v \in {"completed", "undelivered", "blank", "moderatedPaid"} THEN "charged" ELSE "free"

WorkerPcs == {"load", "turn", "hold", "holdSend", "setup", "claim", "submit", "persist",
              "persistInline", "poll", "caught", "requeue"}
SharedPcs == {"download", "look", "write", "index", "judge", "select", "record", "commit"}
CallerPcs == {"reserve", "enqueue", "retryWrite", "cancelWrite", "cancelAsk",
              "checkClaim", "checkWatch", "check", "handoff"}
Pcs == {"idle"} \cup WorkerPcs \cup SharedPcs \cup CallerPcs

\* An actor's stack: where it is, its job, whether the row it read is one it
\* must claim, the provider handle it holds, the outcome it is about to record,
\* and the ledger row it found (0 when it found none).
Local == [pc : Pcs, job : Jobs \cup {None}, fresh : BOOLEAN, mine : Nat,
          verdict : Verdicts, entry : Nat]
Idle == [pc |-> "idle", job |-> None, fresh |-> FALSE, mine |-> 0,
         verdict |-> "failed", entry |-> 0]

At(a, p) == act[a].pc = p
JobOf(a) == act[a].job

\* Somebody will still act on the job: a message is queued for it, or an actor is
\* bound to settle it or to send for it: a worker that has it, a caller that is
\* about to queue it or is checking it, the start-up pass that fails it.
MessageFor(j) == \E k \in Kinds : queue[j][k] > 0
Pursues(a, j) ==
    /\ JobOf(a) = j
    /\ \/ a \in Workers /\ ~At(a, "idle")
       \/ act[a].pc \in {"enqueue", "checkWatch", "check", "handoff",
                         "download", "look", "write", "index"}
       \/ act[a].pc \in {"judge", "select", "record", "commit"} /\ act[a].verdict # "withdrawn"
Pursued(j) == MessageFor(j) \/ \E a \in Actors : Pursues(a, j)

StoreTypeOK ==
    /\ status \in [Jobs -> Statuses]
    /\ handle \in [Jobs -> Nat]
    /\ waiting \in [Jobs -> BOOLEAN]
    /\ ledger \in [Jobs -> Seq(Charges)]
    /\ assets \in [Jobs -> Nat]
    /\ files \in [Jobs -> Nat]
    /\ queue \in [Jobs -> [Kinds -> Nat]]
    /\ phase \in {"down", "recovering", "up", "stopping"}
    /\ todo \subseteq Jobs
    /\ online \in BOOLEAN
    /\ controller \in [Jobs -> Actors \cup {None}]
    /\ aborted \subseteq Actors
    /\ requests \in [Jobs -> Seq(RequestStates)]
    /\ confirmations \in [Jobs -> Nat]
    /\ calls \in Nat /\ boots \in Nat /\ unreachable \in Nat

ActTypeOK ==
    /\ act \in [Actors -> Local]
    /\ \A a \in Actors : ~At(a, "idle") => JobOf(a) \in Jobs

\* Every variable has its type, and an actor that is busy is busy with a job.
TypeOK == StoreTypeOK /\ ActTypeOK

Init ==
    /\ status = [j \in Jobs |-> "none"]
    /\ handle = [j \in Jobs |-> 0]
    /\ waiting = [j \in Jobs |-> FALSE]
    /\ ledger = [j \in Jobs |-> <<>>]
    /\ assets = [j \in Jobs |-> 0]
    /\ files = [j \in Jobs |-> 0]
    /\ queue = [j \in Jobs |-> [k \in Kinds |-> 0]]
    /\ phase = "down"
    /\ todo = {}
    /\ online = TRUE
    /\ controller = [j \in Jobs |-> None]
    /\ aborted = {}
    /\ act = [a \in Actors |-> Idle]
    /\ requests = [j \in Jobs |-> <<>>]
    /\ confirmations = [j \in Jobs |-> 0]
    /\ calls = 0 /\ boots = 0 /\ unreachable = 0

-----------------------------------------------------------------------------
(* How an actor moves, and how it sends.                                   *)

Move(a, l) == act' = [act EXCEPT ![a] = l]
Goto(a, p) == Move(a, [act[a] EXCEPT !.pc = p])

\* The outcome the actor carries from here.
GotoWith(a, p, v) == Move(a, [act[a] EXCEPT !.pc = p, !.verdict = v])

\* A public method returns to its caller.
Return(a) == Move(a, Idle) /\ UNCHANGED <<controller, aborted>>

\* A drive ends: the finally blocks of #process and checkJob delete whatever
\* controller the job has now, whoever registered it.
Unwind(a) ==
    /\ Move(a, Idle)
    /\ controller' = [controller EXCEPT ![JobOf(a)] = None]
    /\ aborted' = aborted \ {a}

\* boss.send with a singletonKey.  When a message of that key is already queued,
\* Duplicates says whether pg-boss may keep a second one.
SendKeyed(j, k) ==
    \/ /\ queue[j][k] = 0 \/ TRUE \in Duplicates
       /\ queue' = [queue EXCEPT ![j][k] = @ + 1]
    \/ /\ queue[j][k] > 0 /\ FALSE \in Duplicates
       /\ UNCHANGED queue

\* The jobs #oldestHeld selects from, and whether this job may go first.
Held == {j \in Jobs : status[j] = "queued" /\ waiting[j]}
NobodyFirst(j) == Held = {}            \* deviation: every held job waits
OldestHeld(j) == Held = {} \/ (j \in Held /\ \A i \in Held : j <= i)

\* An error thrown while a drive runs: #process re-reads the row before it
\* decides, checkJob turns every error into its own timeout.
Throw(a, v) == IF a \in Workers THEN GotoWith(a, "caught", v) ELSE GotoWith(a, "judge", "failed")

\* After #finishError: a worker whose request was moderated while it polled
\* still throws CANCELLED to #process; everyone else is done.
Finished(a) ==
    IF a \in Workers /\ act[a].verdict \in {"moderated", "moderatedPaid"}
    THEN GotoWith(a, "caught", "stopped") /\ UNCHANGED <<controller, aborted>>
    ELSE Unwind(a)

-----------------------------------------------------------------------------
(* The worker: #process and #run.                                          *)

(* A definition commented as a deviation is a plausible mistake in the     *)
(* code of the definition that follows it.  No specification uses it:      *)
(* PROJECT.json names the property that rules it out.                      *)

\* pg-boss hands a queued message of the job to an idle handler.
Fetch(w, j) ==
    /\ phase = "up" /\ At(w, "idle")
    /\ \E k \in Kinds :
        /\ queue[j][k] > 0
        /\ queue' = [queue EXCEPT ![j][k] = @ - 1]
        /\ Move(w, [act[w] EXCEPT !.pc = "load", !.job = j, !.fresh = (k # "resume")])
    /\ UNCHANGED <<database, memory, requests, counted>>

\* #run reads the row.  A settled job has nothing to run.
LoadSettled(w) ==
    /\ At(w, "load") /\ status[JobOf(w)] \in Terminal
    /\ Unwind(w)
    /\ UNCHANGED <<database, queue, phase, todo, online, requests, counted>>

\* Offline, a queued job must take its turn; otherwise it goes ahead with the
\* status and the handle of the row as it is now.
Load(w) ==
    LET j == JobOf(w)
        fresh == act[w].fresh /\ status[j] = "queued"
    IN  /\ At(w, "load") /\ status[j] \notin Terminal
        /\ \E p \in {"turn", "setup"} :
            /\ p = "turn" <=> fresh /\ ~online
            /\ Move(w, [act[w] EXCEPT !.pc = p, !.fresh = fresh, !.mine = handle[j]])
        /\ UNCHANGED <<database, queue, memory, requests, counted>>

TakeTurn(w) ==
    /\ At(w, "turn")
    /\ IF OldestHeld(JobOf(w)) THEN Goto(w, "setup") ELSE Goto(w, "hold")
    /\ UNCHANGED <<database, queue, memory, requests, counted>>

\* #holdForNetwork: the label, if the job is still queued, then a new message.
Hold(w) ==
    LET j == JobOf(w)
    IN  /\ At(w, "hold")
        /\ waiting' = [waiting EXCEPT ![j] = (status[j] = "queued") \/ @]
        /\ Goto(w, "holdSend")
        /\ UNCHANGED <<status, handle, ledger, assets, files, queue, memory, requests, counted>>

\* Deviation: the label is the only trace of a held job.
HoldSilently(w) ==
    /\ At(w, "holdSend")
    /\ Unwind(w)
    /\ UNCHANGED <<database, queue, phase, todo, online, requests, counted>>

HoldSend(w) ==
    /\ At(w, "holdSend")
    /\ queue' = [queue EXCEPT ![JobOf(w)]["hold"] = @ + 1]
    /\ Unwind(w)
    /\ UNCHANGED <<database, phase, todo, online, requests, counted>>

\* A missing key, or a confirmed cost the row does not carry, fails the job.
SetupFails(w) ==
    /\ At(w, "setup")
    /\ GotoWith(w, "caught", "failed")
    /\ UNCHANGED <<database, queue, memory, requests, counted>>

\* Deviation: a resumed row is submitted without a look at its handle.
SetupResubmits(w) ==
    /\ At(w, "setup")
    /\ controller' = [controller EXCEPT ![JobOf(w)] = w]
    /\ Goto(w, IF act[w].fresh THEN "claim" ELSE "submit")
    /\ UNCHANGED <<database, queue, phase, todo, online, aborted, requests, counted>>

\* The controller is registered; a row read as queued is claimed next, any other
\* is polled or submitted as its handle says.
Setup(w) ==
    /\ At(w, "setup")
    /\ controller' = [controller EXCEPT ![JobOf(w)] = w]
    /\ \/ act[w].fresh /\ Goto(w, "claim")
       \/ ~act[w].fresh /\ act[w].mine # 0 /\ Goto(w, "poll")
       \/ ~act[w].fresh /\ act[w].mine = 0 /\ Goto(w, "submit")
    /\ UNCHANGED <<database, queue, phase, todo, online, aborted, requests, counted>>

\* The guarded update to running, and the row read again.  Nothing looks at the
\* status of that second read: a row the update did not match goes on as well.
Claim(w) ==
    LET j == JobOf(w)
        mine == status[j] = "queued"
    IN  /\ At(w, "claim")
        /\ status' = [status EXCEPT ![j] = IF mine THEN "running" ELSE @]
        /\ waiting' = [waiting EXCEPT ![j] = @ /\ ~mine]
        /\ \E p \in {"poll", "submit"} :
            /\ p = "poll" <=> handle[j] # 0
            /\ Move(w, [act[w] EXCEPT !.pc = p, !.mine = handle[j]])
        /\ UNCHANGED <<handle, ledger, assets, files, queue, memory, requests, counted>>

\* The label every submission starts with.
Submitting(w) ==
    /\ At(w, "submit")
    /\ waiting' = [waiting EXCEPT ![JobOf(w)] = FALSE]
    /\ UNCHANGED <<status, handle, ledger, assets, files, queue, phase, todo, controller,
                   aborted, confirmations, calls, boots>>

\* The provider accepts the request, and may answer with the result at once.
SubmitAccepted(w) ==
    LET j == JobOf(w)
    IN  /\ Submitting(w) /\ w \notin aborted
        /\ \/ /\ requests' = [requests EXCEPT ![j] = Append(@, "working")]
              /\ Move(w, [act[w] EXCEPT !.pc = "persist", !.mine = Len(requests[j]) + 1])
           \/ /\ requests' = [requests EXCEPT ![j] = Append(@, "done")]
              /\ Move(w, [act[w] EXCEPT !.pc = "persistInline", !.mine = Len(requests[j]) + 1])
        /\ online' = TRUE
        /\ UNCHANGED unreachable

\* A definite refusal after the safe retries, as an error or as a moderation.
SubmitRefused(w) ==
    /\ Submitting(w)
    /\ \E v \in {"failed", "rejected"} : GotoWith(w, "caught", v)
    /\ online' \in {online, TRUE}
    /\ UNCHANGED <<requests, unreachable>>

\* Deviation: a submission without an answer is taken for a paid one.
SubmitLostPaid(w) ==
    /\ Submitting(w)
    /\ GotoWith(w, "caught", "undelivered")
    /\ online' \in BOOLEAN
    /\ UNCHANGED <<requests, unreachable>>

\* No answer, or an abort: the provider may have taken the request or not.
SubmitLost(w) ==
    LET j == JobOf(w)
    IN  /\ Submitting(w)
        /\ \/ requests' = [requests EXCEPT ![j] = Append(@, "working")]
           \/ UNCHANGED requests
        /\ GotoWith(w, "caught", "failed")
        /\ online' \in BOOLEAN
        /\ UNCHANGED unreachable

\* The request never left the machine.
SubmitUnreachable(w) ==
    /\ Submitting(w) /\ unreachable < MaxUnreachable
    /\ GotoWith(w, "caught", "unreachable")
    /\ online' = FALSE
    /\ unreachable' = unreachable + 1
    /\ UNCHANGED requests

\* The handle is stored before anything is polled, with a new label.
Persist(w) ==
    /\ \/ At(w, "persist") /\ Goto(w, "poll")
       \/ At(w, "persistInline") /\ Goto(w, "download")
    /\ handle' = [handle EXCEPT ![JobOf(w)] = act[w].mine]
    /\ waiting' = [waiting EXCEPT ![JobOf(w)] = FALSE]
    /\ UNCHANGED <<status, ledger, assets, files, queue, memory, requests, counted>>

\* What the provider says of a request: a finished one keeps its answer.
Answer(a, s) ==
    LET j == JobOf(a)
    IN  /\ requests[j][act[a].mine] \in {"working", s}
        /\ requests' = [requests EXCEPT ![j][act[a].mine] = s]

\* One turn of #pollUntilTerminal that ends it with an answer.
Poll(w) ==
    /\ At(w, "poll") /\ w \notin aborted /\ status[JobOf(w)] # "cancelled"
    /\ \/ Answer(w, "done") /\ Goto(w, "download")
       \/ Answer(w, "failed") /\ \E v \in {"failed", "rejected"} : GotoWith(w, "caught", v)
       \/ Answer(w, "cancelled") /\ GotoWith(w, "caught", "stopped")
       \/ Answer(w, "moderated") /\ \E v \in {"moderated", "moderatedPaid"} : GotoWith(w, "judge", v)
    /\ online' = TRUE
    /\ UNCHANGED <<database, queue, phase, todo, controller, aborted, counted>>

\* A turn that ends it without one: the row is cancelled, the signal is aborted,
\* the provider reports an error that is not retried, or the window has passed.
PollThrows(w) ==
    /\ At(w, "poll")
    /\ \/ status[JobOf(w)] = "cancelled" /\ GotoWith(w, "caught", "stopped")
       \/ /\ status[JobOf(w)] # "cancelled"
          /\ \E v \in {"failed", "rejected"} : GotoWith(w, "caught", v)
    /\ UNCHANGED <<database, queue, memory, requests, counted>>

\* A turn that does not end it.  The request is still working, which the label
\* says, or the connection failed and the loop goes on.
PollAgain(w) ==
    /\ At(w, "poll") /\ status[JobOf(w)] # "cancelled"
    /\ \/ online' = TRUE /\ waiting' = [waiting EXCEPT ![JobOf(w)] = FALSE]
       \/ online' \in BOOLEAN /\ UNCHANGED waiting
    /\ UNCHANGED <<status, handle, ledger, assets, files, queue, phase, todo, controller,
                   aborted, act, requests, counted>>

\* The catch of #process: the row is read again.
Caught(w) ==
    LET j == JobOf(w)
        leave == status[j] = "cancelled" \/ phase = "stopping"
        held  == handle[j] = 0 /\ act[w].verdict = "unreachable"
    IN  /\ At(w, "caught")
        /\ \/ leave /\ Unwind(w)
           \/ ~leave /\ held /\ Goto(w, "requeue") /\ UNCHANGED <<controller, aborted>>
           \/ ~leave /\ ~held /\ status[j] \in Terminal /\ Unwind(w)
           \/ /\ ~leave /\ ~held /\ status[j] \notin Terminal
              /\ Goto(w, "select") /\ UNCHANGED <<controller, aborted>>
        /\ UNCHANGED <<database, queue, phase, todo, online, requests, counted>>

\* Deviation: a held job gets a status of its own.
RequeueAsHeld(w) ==
    /\ At(w, "requeue")
    /\ status' = [status EXCEPT ![JobOf(w)] = "held"]
    /\ Goto(w, "hold")
    /\ UNCHANGED <<handle, waiting, ledger, assets, files, queue, memory, requests, counted>>

\* The job goes back to queued, whatever its status is by now, and is held.
Requeue(w) ==
    /\ At(w, "requeue")
    /\ status' = [status EXCEPT ![JobOf(w)] = "queued"]
    /\ Goto(w, "hold")
    /\ UNCHANGED <<handle, waiting, ledger, assets, files, queue, memory, requests, counted>>

-----------------------------------------------------------------------------
(* #complete and #finishError, run by a worker, by checkJob and by          *)
(* #recover.                                                                *)

\* #complete starts: the network is online, the label changes, the result is
\* fetched.  It can be undeliverable or blank.
Download(a) ==
    /\ At(a, "download")
    /\ waiting' = [waiting EXCEPT ![JobOf(a)] = FALSE]
    /\ online' = TRUE
    /\ \/ Goto(a, "look")
       \/ Throw(a, "undelivered")
       \/ Throw(a, "blank")
    /\ UNCHANGED <<status, handle, ledger, assets, files, queue, phase, todo, controller,
                   aborted, requests, counted>>

\* Deviation: the Library is not asked for an earlier output.
LookAway(a) ==
    /\ At(a, "look")
    /\ Goto(a, "write")
    /\ UNCHANGED <<database, queue, memory, requests, counted>>

\* finalizeOutput looks for an asset an earlier drive of the job indexed.
Look(a) ==
    /\ At(a, "look")
    /\ IF assets[JobOf(a)] > 0 THEN GotoWith(a, "select", "completed") ELSE Goto(a, "write")
    /\ UNCHANGED <<database, queue, memory, requests, counted>>

\* The file and its sidecar reach the Library folder.
Write(a) ==
    /\ At(a, "write")
    /\ files' = [files EXCEPT ![JobOf(a)] = @ + 1]
    /\ Goto(a, "index")
    /\ UNCHANGED <<status, handle, waiting, ledger, assets, queue, memory, requests, counted>>

\* The asset row is inserted.
Index(a) ==
    /\ At(a, "index")
    /\ assets' = [assets EXCEPT ![JobOf(a)] = @ + 1]
    /\ GotoWith(a, "select", "completed")
    /\ UNCHANGED <<status, handle, waiting, ledger, files, queue, memory, requests, counted>>

\* Deviation: a write that fails is not noticed.
FinalizeUnnoticed(a) ==
    /\ "output" \in Faults
    /\ At(a, "write") \/ At(a, "index")
    /\ GotoWith(a, "select", "completed")
    /\ UNCHANGED <<database, queue, memory, requests, counted>>

\* The disk is full, or a step after the write fails, before the asset row is
\* inserted or, when the thumbnails are made, after it.
FinalizeFails(a) ==
    /\ "output" \in Faults
    /\ \/ At(a, "write") /\ UNCHANGED assets
       \/ At(a, "index") /\ assets' \in {assets, [assets EXCEPT ![JobOf(a)] = @ + 1]}
    /\ Throw(a, "failed")
    /\ UNCHANGED <<status, handle, waiting, ledger, files, queue, memory, requests, counted>>

\* #finishError with a row read just before: a settled job is left alone.
Judge(a) ==
    /\ At(a, "judge")
    /\ \/ status[JobOf(a)] \in Terminal /\ Finished(a)
       \/ status[JobOf(a)] \notin Terminal /\ Goto(a, "select") /\ UNCHANGED <<controller, aborted>>
    /\ UNCHANGED <<database, queue, phase, todo, online, requests, counted>>

\* #recordLedger selects the job's row, any of them if there are several.
Select(a) ==
    LET j == JobOf(a)
    IN  /\ At(a, "select")
        /\ \E e \in 0 .. Len(ledger[j]) :
            /\ e = 0 <=> Len(ledger[j]) = 0
            /\ Move(a, [act[a] EXCEPT !.pc = "record", !.entry = e])
        /\ UNCHANGED <<database, queue, memory, requests, counted>>

\* Deviations: a row for every drive; the first row stands; only spend has a row.
AppendLedger(a) ==
    ledger' = [ledger EXCEPT ![JobOf(a)] = Append(@, ChargeOf(act[a].verdict))]
FirstLedger(a) ==
    ledger' = [ledger EXCEPT ![JobOf(a)] =
                  IF act[a].entry = 0 THEN Append(@, ChargeOf(act[a].verdict)) ELSE @]
SpendLedger(a) ==
    ledger' = [ledger EXCEPT ![JobOf(a)] =
                  IF ChargeOf(act[a].verdict) = "charged" THEN <<"charged">> ELSE @]

\* The row found is updated; if none was found, one is inserted.
WriteLedger(a) ==
    LET j == JobOf(a)
        e == act[a].entry
        c == ChargeOf(act[a].verdict)
    IN  ledger' = [ledger EXCEPT ![j] = IF e = 0 THEN Append(@, c) ELSE [@ EXCEPT ![e] = c]]

Record(a) ==
    /\ At(a, "record") /\ act[a].verdict # "withdrawn"
    /\ WriteLedger(a)
    /\ Goto(a, "commit")
    /\ UNCHANGED <<status, handle, waiting, assets, files, queue, memory, requests, counted>>

\* The terminal status and its label, by job id alone.
Commit(a) ==
    /\ At(a, "commit")
    /\ status' = [status EXCEPT ![JobOf(a)] = StatusOf(act[a].verdict)]
    /\ waiting' = [waiting EXCEPT ![JobOf(a)] = FALSE]
    /\ Finished(a)
    /\ UNCHANGED <<handle, ledger, assets, files, queue, phase, todo, online,
                   requests, counted>>

-----------------------------------------------------------------------------
(* The callers: createJob, retryJob, cancelJob, checkJob.                   *)

\* A call starts with the method's first read of the row.
Begin(c, j, op, p) ==
    /\ phase = "up" /\ At(c, "idle")
    /\ op \in Operations /\ calls < MaxCalls
    /\ calls' = calls + 1
    /\ Move(c, [act[c] EXCEPT !.pc = p, !.job = j, !.mine = handle[j]])
    /\ UNCHANGED <<database, queue, memory, requests, confirmations, boots, unreachable>>

Create(c, j) == status[j] = "none" /\ Begin(c, j, "create", "reserve")
Retry(c, j)  == status[j] = "failed" /\ Begin(c, j, "retry", "retryWrite")
Cancel(c, j) == status[j] \in Active /\ Begin(c, j, "cancel", "cancelWrite")
Check(c, j)  == status[j] = "failed" /\ handle[j] # 0 /\ Begin(c, j, "check", "checkClaim")

\* The transaction of createJob, under the budget lock: a job of the same
\* client_request_id is replayed, otherwise the row is inserted.
Reserve(c) ==
    LET j == JobOf(c)
    IN  /\ At(c, "reserve")
        /\ \/ /\ status[j] = "none"
              /\ status' = [status EXCEPT ![j] = "queued"]
              /\ confirmations' = [confirmations EXCEPT ![j] = @ + 1]
              /\ Goto(c, "enqueue")
           \/ /\ status[j] # "none"
              /\ Move(c, Idle)
              /\ UNCHANGED <<status, confirmations>>
        /\ UNCHANGED <<handle, waiting, ledger, assets, files, queue, memory, requests,
                       calls, boots, unreachable>>

\* The transaction of retryJob updates the row by its id alone.
RetryWrite(c) ==
    LET j == JobOf(c)
    IN  /\ At(c, "retryWrite")
        /\ status' = [status EXCEPT ![j] = "queued"]
        /\ waiting' = [waiting EXCEPT ![j] = FALSE]
        /\ confirmations' = [confirmations EXCEPT ![j] = @ + 1]
        /\ Goto(c, "enqueue")
        /\ UNCHANGED <<handle, ledger, assets, files, queue, memory, requests,
                       calls, boots, unreachable>>

Enqueue(c) ==
    /\ At(c, "enqueue")
    /\ SendKeyed(JobOf(c), "fresh")
    /\ Return(c)
    /\ UNCHANGED <<database, phase, todo, online, requests, counted>>

\* cancelJob sets the status by job id alone and aborts the drive it can see.
CancelWrite(c) ==
    LET j == JobOf(c)
    IN  /\ At(c, "cancelWrite")
        /\ status' = [status EXCEPT ![j] = "cancelled"]
        /\ aborted' = aborted \cup ({controller[j]} \ {None})
        /\ \E p \in {"cancelAsk", "select"} :
            /\ p = "cancelAsk" <=> act[c].mine # 0
            /\ GotoWith(c, p, "withdrawn")
        /\ UNCHANGED <<handle, waiting, ledger, assets, files, queue, phase, todo, online,
                       controller, requests, counted>>

\* The provider is asked to cancel the request the row named; an adapter that
\* throws ends the call.
CancelAsk(c) ==
    /\ At(c, "cancelAsk")
    /\ \/ Goto(c, "select") /\ UNCHANGED <<controller, aborted>>
       \/ Return(c)
    /\ UNCHANGED <<database, queue, phase, todo, online, requests, counted>>

\* A cancelled job costs nothing, whatever the row says by now.
CancelRecord(c) ==
    /\ At(c, "record") /\ act[c].verdict = "withdrawn"
    /\ WriteLedger(c)
    /\ Return(c)
    /\ UNCHANGED <<status, handle, waiting, assets, files, queue, phase, todo, online,
                   requests, counted>>

\* checkJob moves the row to running by its id alone, then registers its
\* controller.
CheckClaim(c) ==
    LET j == JobOf(c)
    IN  /\ At(c, "checkClaim")
        /\ status' = [status EXCEPT ![j] = "running"]
        /\ waiting' = [waiting EXCEPT ![j] = FALSE]
        /\ Goto(c, "checkWatch")
        /\ UNCHANGED <<handle, ledger, assets, files, queue, memory, requests, counted>>

CheckWatch(c) ==
    /\ At(c, "checkWatch")
    /\ controller' = [controller EXCEPT ![JobOf(c)] = c]
    /\ Goto(c, "check")
    /\ UNCHANGED <<database, queue, phase, todo, online, aborted, requests, counted>>

\* The staging directory cannot be made: this is before the try block, so the
\* call ends with the row left as CheckClaim wrote it.  Nobody listens to the
\* controller any more.
CheckFails(c) ==
    /\ At(c, "check")
    /\ \/ "staging" \in Faults
       \/ "sharedStaging" \in Faults /\ \E a \in Actors \ {c} : Pursues(a, JobOf(c))
    /\ Unwind(c)
    /\ UNCHANGED <<database, queue, phase, todo, online, requests, counted>>

\* The one bounded poll of checkJob, answered.  A request the provider cancelled
\* is taken for one still in flight.
CheckPoll(c) ==
    /\ At(c, "check") /\ c \notin aborted
    /\ \/ Answer(c, "done") /\ Goto(c, "download")
       \/ Answer(c, "failed") /\ \E v \in {"failed", "rejected"} : GotoWith(c, "judge", v)
       \/ Answer(c, "moderated") /\ \E v \in {"moderated", "moderatedPaid"} : GotoWith(c, "judge", v)
       \/ (Answer(c, "working") \/ Answer(c, "cancelled")) /\ Goto(c, "handoff")
    /\ online' = TRUE
    /\ UNCHANGED <<database, queue, phase, todo, controller, aborted, counted>>

\* The deadline, an abort or an error: the catch turns it into a timeout.
CheckThrows(c) ==
    /\ At(c, "check")
    /\ Throw(c, "failed")
    /\ online' \in BOOLEAN
    /\ UNCHANGED <<database, queue, phase, todo, controller, aborted, requests, counted>>

\* A request still in flight is labelled so and handed to a worker.
Handoff(c) ==
    /\ At(c, "handoff")
    /\ waiting' = [waiting EXCEPT ![JobOf(c)] = FALSE]
    /\ SendKeyed(JobOf(c), "resume")
    /\ Unwind(c)
    /\ UNCHANGED <<status, handle, ledger, assets, files, phase, todo, online, requests, counted>>

-----------------------------------------------------------------------------
(* The life of the process.                                                 *)

\* Deviation: only running rows are recovered.
StartWithRunning ==
    /\ phase = "down" /\ boots < MaxBoots
    /\ boots' = boots + 1
    /\ phase' = "recovering"
    /\ todo' = {j \in Jobs : status[j] = "running"}
    /\ assets' = files
    /\ online' = TRUE
    /\ UNCHANGED <<status, handle, waiting, ledger, files, queue, controller, aborted, act,
                   requests, confirmations, calls, unreachable>>

\* The process starts: the Library is reindexed, so a file whose sidecar names
\* the job is an asset again, and #recover selects the unsettled rows.
Start ==
    /\ phase = "down" /\ boots < MaxBoots
    /\ boots' = boots + 1
    /\ phase' = "recovering"
    /\ todo' = {j \in Jobs : status[j] \in Active}
    /\ assets' = files
    /\ online' = TRUE
    /\ UNCHANGED <<status, handle, waiting, ledger, files, queue, controller, aborted, act,
                   requests, confirmations, calls, unreachable>>

\* Deviation: a row that was being submitted is driven again.
RecoverResubmits(j) ==
    /\ phase = "recovering" /\ At(Boot, "idle") /\ j \in todo
    /\ todo' = todo \ {j}
    /\ SendKeyed(j, IF status[j] = "running" THEN "resume" ELSE "fresh")
    /\ UNCHANGED <<database, phase, act, online, controller, aborted, requests, counted>>

\* #recover visits a row: one that was being submitted fails, any other is queued
\* again, to be polled if it was running.
Recover(j) ==
    LET lost == status[j] = "running" /\ handle[j] = 0
    IN  /\ phase = "recovering" /\ At(Boot, "idle") /\ j \in todo
        /\ todo' = todo \ {j}
        /\ \/ /\ lost
              /\ Move(Boot, [act[Boot] EXCEPT !.pc = "select", !.job = j, !.verdict = "failed"])
              /\ UNCHANGED queue
           \/ /\ ~lost
              /\ SendKeyed(j, IF status[j] = "running" THEN "resume" ELSE "fresh")
              /\ UNCHANGED act
        /\ UNCHANGED <<database, phase, online, controller, aborted, requests, counted>>

\* The workers are registered and the routes get the engine.
Open ==
    /\ phase = "recovering" /\ todo = {} /\ At(Boot, "idle")
    /\ phase' = "up"
    /\ UNCHANGED <<database, todo, online, controller, aborted, queue, act, requests, counted>>

\* stop aborts every registered controller and takes no more messages.
Stop ==
    /\ phase = "up" /\ boots < MaxBoots
    /\ phase' = "stopping"
    /\ aborted' = aborted \cup ({controller[j] : j \in Jobs} \ {None})
    /\ controller' = [j \in Jobs |-> None]
    /\ UNCHANGED <<database, todo, online, queue, act, requests, counted>>

\* The process ends: by a crash at any point, or because it was stopped.  Messages
\* a worker had taken go with it; queued ones stay.
Halt ==
    /\ phase # "down" /\ boots < MaxBoots
    /\ phase' = "down"
    /\ todo' = {}
    /\ controller' = [j \in Jobs |-> None]
    /\ aborted' = {}
    /\ act' = [a \in Actors |-> Idle]
    /\ UNCHANGED <<database, online, queue, requests, counted>>

-----------------------------------------------------------------------------
\* The steps that #complete, #finishError and #recordLedger share.
SharedStep(a) ==
    \/ Download(a) \/ Look(a) \/ Write(a) \/ Index(a) \/ FinalizeFails(a)
    \/ Judge(a) \/ Select(a) \/ Record(a) \/ Commit(a)

\* What a worker does with the message it has; PollAgain is its only idle turn.
WorkerStep(w) ==
    \/ LoadSettled(w) \/ Load(w) \/ TakeTurn(w) \/ Hold(w) \/ HoldSend(w)
    \/ SetupFails(w) \/ Setup(w) \/ Claim(w)
    \/ SubmitAccepted(w) \/ SubmitRefused(w) \/ SubmitLost(w) \/ SubmitUnreachable(w)
    \/ Persist(w) \/ Poll(w) \/ PollThrows(w) \/ Caught(w) \/ Requeue(w)
    \/ SharedStep(w)

CallerBegins(c) == \E j \in Jobs : Create(c, j) \/ Retry(c, j) \/ Cancel(c, j) \/ Check(c, j)

\* What a call in progress does next.
CallerStep(c) ==
    \/ Reserve(c) \/ RetryWrite(c) \/ Enqueue(c)
    \/ CancelWrite(c) \/ CancelAsk(c) \/ CancelRecord(c)
    \/ CheckClaim(c) \/ CheckWatch(c) \/ CheckFails(c) \/ CheckPoll(c) \/ CheckThrows(c) \/ Handoff(c)
    \/ SharedStep(c)

BootStep == (\E j \in Jobs : Recover(j)) \/ SharedStep(Boot) \/ Open

Next ==
    \/ \E w \in Workers : WorkerStep(w) \/ PollAgain(w) \/ \E j \in Jobs : Fetch(w, j)
    \/ \E c \in Callers : CallerBegins(c) \/ CallerStep(c)
    \/ BootStep \/ Start \/ Stop \/ Halt

Spec == Init /\ [][Next]_vars

\* Code that runs keeps running, a process that is down is started again, and
\* pg-boss serves a queue in order, so no job's message waits behind others for
\* ever.  Nobody has to call, crash or stop anything.
Fairness ==
    /\ \A w \in Workers : WF_vars(WorkerStep(w))
    /\ \A c \in Callers : WF_vars(CallerStep(c))
    /\ \A j \in Jobs : SF_vars(\E w \in Workers : Fetch(w, j))
    /\ WF_vars(BootStep) /\ WF_vars(Start) /\ WF_vars(phase = "stopping" /\ Halt)

FairSpec == Spec /\ Fairness
-----------------------------------------------------------------------------
(* Properties.                                                              *)

\* No accepted job is forgotten.  While the engine runs, a queued or running job
\* always has somebody who will act on it, and while it recovers, so does every
\* row it will not visit any more: whatever the races of cancels, retries, checks
\* and network holds, and wherever the last process died.  A check that cannot
\* make its staging directory breaks it.
NoOrphan ==
    phase \in {"recovering", "up"} =>
        \A j \in Jobs : status[j] \in Active => Pursued(j) \/ j \in todo

\* A job that completed, failed or was moderated has a ledger row: the row is
\* written before the status, so no crash between the two loses the spend.
SettledHasLedger ==
    \A j \in Jobs : status[j] \in {"completed", "failed", "moderated"} => ledger[j] # <<>>

\* A completed job has its output in the Library index, also when the process
\* died between the file and the index row.
CompletedHasAsset == \A j \in Jobs : status[j] = "completed" => assets[j] > 0

\* The ledger records what a completed job cost.
CompletedIsCharged ==
    \A j \in Jobs : status[j] = "completed" =>
        \E e \in DOMAIN ledger[j] : ledger[j][e] = "charged"

\* Nothing is charged for work the provider did not do: a charged row stands for
\* a submission that came back finished or moderated, whoever else was driving,
\* cancelling or checking the job at the time.
ChargedForWork ==
    \A j \in Jobs :
        (\E e \in DOMAIN ledger[j] : ledger[j][e] = "charged") =>
            \E n \in DOMAIN requests[j] : requests[j][n] \in {"done", "moderated"}

\* Every accepted job settles, through crashes, restarts and lost networks.
AcceptedJobSettles ==
    \A j \in Jobs : status[j] \in Active ~> status[j] \in Terminal
=============================================================================
