# Formal models of Kilnry

Kilnry is a local-first studio for AI media. One Node process holds a Next web
application, a pg-boss worker, an MCP server and a PGlite database; it sends
paid generation requests to providers and files the results in a Library
folder. This directory holds TLA+ models of its core, the TLC configurations
that check them, and proofs that TLAPS checks.

| Files | What they are |
| --- | --- |
| `JobEngine`, `MCJobEngine` (three configurations), `JobEngineProofs` | the generation job engine, its finalizer and its network flag |
| `JobHistory`, `MCJobHistory`, `JobChargeProofs` | the same engine with a memory of which of its actors met, so that what its races can break is said for every behaviour |
| `WorkflowRun`, `MCWorkflowRun` (two configurations), `WorkflowRunProofs` | workflow runs: the executor, the driver, the runs queue and the owner's requests |
| `Spend`, `MCSpend`, `SpendProofs` | the budget caps and everything that spends under them |
| `Library`, `MCLibrary`, `LibraryProofs`, `LibraryIdProofs` | the Library folder, its index, imports, the Trash and the watcher |
| `Characters`, `MCCharacters` (two configurations), `CharactersProofs` | a Character: versions, edits, the jobs that freeze it, consent and trainings |
| `DataDirLock`, `MCDataDirLock` (two configurations), `DataDirLockProofs` | the lock that keeps a data directory to one process |
| `DirectoryOwner` | what that lock promises, which `DataDirLock` is shown to implement |
| `PROJECT.json` | components, runs, deviations, source map, findings, hazards, theorems |

Run `tlc -workers 2 -config MCSpend.cfg MCSpend` to check an instance, and
`tlapm SpendProofs.tla` to check proofs. Each module is a component with the others
reduced to what it sees of them:

- `createDatabase` takes the lock before the engine's `Start`, so `JobEngine` and all
  others assume what `DataDirLock` is for: one process works on the database.
- `WorkflowRun` sees a job of `JobEngine` as created once for a key, live, and settled
  at some time or never.
- `Spend` sees a job as open while it counts as a reservation, charged by its drive,
  and reopened by a retry or a check. That the ledger is written before the status is
  what `JobEngine` shows (`SettledHasLedger`).
- `Characters` sees a job as the transaction that accepts it, and a training without its
  money, which is `Spend`'s `lora` call.
- `Library` sees the watcher's imports through the maintenance queue; the files a job
  makes come with their sidecar and row in `JobEngine`'s `Write` and `Index`.

A definition commented as a deviation is a mistake the code could plausibly have made.
No specification uses one; `PROJECT.json` says which property rules it out.

## Inventory

The repository is a monorepo of about 71,000 lines of TypeScript, half of it
interface. What carries the program's own logic:

| Component | State | Operations | What makes it correct |
| --- | --- | --- | --- |
| job engine (`packages/core/src/jobs/engine.ts`) | rows of `jobs`, `spend_ledger`; queued messages; abort controllers | create, retry, cancel, check, process, recover, stop | no job forgotten, none paid twice, every settled job recorded |
| finalizer (`jobs/finalize.ts`) | files and sidecars in the Library, rows of `assets` | file one output | one output, filed before its job completes |
| network state (`core/src/net`, `providers/src/errors.ts`, `http.ts`) | the observed flag | mark online, mark offline | held jobs wait and resume |
| budget (`core/src/budget`) | ledger rows, open reservations, holds | reserve, hold, settle, release | accepted spend stays below the caps, no hold is forgotten, what is billed is counted |
| data-directory lock (`db/src/lock.ts`) | the lock file | acquire, release, take over a stale lock | one process per data directory |
| workflow runs (`apps/web/src/server/workflows.ts`, `packages/workflows/src/executor.ts`) | rows of `runs` and `run_steps` | start, drive, approve, deny, cancel, resume | decisions are not lost, finished steps are not run again |
| planner, validator, templates (`packages/workflows/src`) | none | pure functions over a workflow | the plan covers what the executor does |
| library (`core/src/library`) | files, sidecars, the Trash, rows of `assets`, path locks, watcher timers | index, import, reindex, edit, repair, trash, restore, purge, watch | a file keeps one id and its own sidecar; the index and the folder agree; the Trash can be restored |
| characters (`core/src/characters`) | versions, references, consent, identities and their files, voice clones | edit, fork, freeze, choose a version, resolve, train, clone | the look of an accepted job is kept; edits are not lost; only the willing are trained; a hold is settled or released once |
| registry, router, estimator (`core/src/registry`, `core/src/providers`) | price tables | estimate, route | pure selection |
| provider adapters (`packages/providers`) | none | submit, poll, download, cancel | classify an error by what was billed |
| key store (`core/src/security/key-store.ts`) | encrypted keys | get, set, rotate | no key lost by a rotation |
| chat and approvals (`packages/agent`) | pending approvals | ask, approve, expire | nothing is spent without an approval |
| MCP server, web routes | sessions | call the engine | confirmations reach the engine |
| media, presets, skills, consistency, events, launcher, interface | | | no protocol of their own |

Interaction: routes, chat, MCP calls and workflow steps call the engine's
methods. The engine writes the database and sends pg-boss messages; pg-boss
calls the engine's handlers with them. Handlers call the adapters, the
finalizer and the ledger. All of them run interleaved in one process, at
`await` granularity, on a database that outlives it. What is hard is therefore
the interleaving of handlers and callers on one row, the crash between any two
writes, the messages that survive a restart, and the requests whose outcome is
unknown. `PROJECT.json` lists these hazards by line.

## Plan and status

| Step | Module | State |
| --- | --- | --- |
| the engine with its finalizer and network flag | `JobEngine` | checked, with liveness; types and four safety properties proved |
| the engine with a memory of its races | `JobHistory` | checked; all five properties proved |
| the data-directory lock | `DataDirLock` | checked; types and all three properties proved |
| the abstract owner of the directory, and its refinement | `DirectoryOwner` | checked and proved |
| workflow runs: driver, executor, owner's requests | `WorkflowRun` | checked, with liveness; types and all three safety properties proved |
| the budget, jobs and paid calls | `Spend` | checked; types and all three safety properties proved |
| the Library, its index and the Trash | `Library` | checked; types and all five safety properties proved |
| Characters and trainings | `Characters` | checked; types and all seven properties proved |
| approvals of the agent chat, key rotation | | not begun |
| the reference graph and expansion of workflow files | | not begun |
| an abstract job and its refinement by `JobEngine` | | not begun |

The abstract job would promise that an accepted job settles once for each
confirmation. `JobEngine` does not implement it as the code stands: `cancel_ledger` is a
counterexample, and the second submission of a held job another.

## JobEngine

### State and actors

The variables follow the code's stores. `status`, `handle` and `waiting` are the
columns `status`, `provider_request_id` and `step_label` (only whether it is the
waiting label) of a job's row; `ledger`, `assets` and `files` are its ledger
rows, its rows of `assets` and its Library files that have a sidecar; `queue`
counts its queued pg-boss messages by kind. `phase`, `todo`, `online`,
`controller`, `aborted` and `act` are memory of the process. `requests` is the
provider's side: the state of every submission made for the job. `handle` names
one of them by its number.

An actor is one async function in progress: a worker (`#process`), a caller
(`createJob`, `retryJob`, `cancelJob`, `checkJob`) or `Boot` (`#recover`). Its
record in `act` holds what it read before an await and may be stale after: the
job, whether the row still had to be claimed, the handle, the outcome it is about
to record and the ledger row it found. A step of the model is the code between
two awaits that touch shared state. Merged steps are these: `Claim` is the guarded
update and the read after it; `Poll` is the status read and the provider's answer
(a cancel can still land before `Download`); `Write` is the file and its sidecar;
`Requeue`, `Hold` and `HoldSend` are one await each; `Handoff` is the label and
the send; a transaction is one step.

| Code | Actions |
| --- | --- |
| `start`, `ensureRuntimeEngine` | `Start`, `Recover`, `Open` |
| `stop`, the end of the process | `Stop`, `Halt` |
| `createJob` | `Create`, `Reserve`, `Enqueue` |
| `retryJob` | `Retry`, `RetryWrite`, `Enqueue` |
| `cancelJob` | `Cancel`, `CancelWrite`, `CancelAsk`, `Select`, `CancelRecord` |
| `checkJob` | `Check`, `CheckClaim`, `CheckWatch`, `CheckFails`, `CheckPoll`, `CheckThrows`, `Handoff` |
| `#process`, `#run` | `Fetch`, `LoadSettled`, `Load`, `TakeTurn`, `SetupFails`, `Setup`, `Claim`, `Submit...`, `Persist`, `Caught`, `Requeue` |
| `#holdForNetwork`, `#oldestHeld` | `Hold`, `HoldSend`, `OldestHeld` |
| `#pollUntilTerminal` | `Poll`, `PollThrows`, `PollAgain` |
| `#complete`, `finalizeOutput` | `Download`, `Look`, `Write`, `Index`, `FinalizeFails`, `Select`, `Record`, `Commit` |
| `#finishError`, `#recordLedger` | `Judge`, `Select`, `Record`, `Commit` |

Choices the environment makes: what the provider answers, whether a submission
without an answer was taken, when the process dies, whether the disk fails
(`Faults`), and whether a keyed send may queue a second message of its key
(`Duplicates`). The last is a constant because the code does not settle it: the
provider queues are created without a policy, whereas the `runs` queue asks for
`short`, and what a singleton key does on a queue without one is pg-boss's.

The bounds are `MaxCalls` (calls of public methods), `MaxBoots` (process starts)
and `MaxUnreachable` (submissions that find no network). They only cut
behaviours short. A worker polls without bound.

Not modelled: prompts, media, prices, estimates and the budget check (a refused
create changes nothing), lineage rows and frozen character versions, events,
audit rows, provider degradation, temporary directories, the maintenance queue,
`enqueueRun`, several outputs of one job, and database errors: a statement
succeeds, and only the disk and the provider fail. A row always names a provider.

### Runs and properties

| Run | Instance | Checks |
| --- | --- | --- |
| `jobs` | `MCJobHistory`, see `JobHistory` below | `TypeOK`, `NoOrphan`, `SettledHasLedger`, `CompletedHasAsset`, `ChargedForWork`, and the five properties of `JobHistory` |
| `settles` | two jobs, one worker, one caller, 2 calls, 2 starts, one lost network, with fairness | `NoOrphan`, `AcceptedJobSettles` |
| `cancel_ledger` | create and cancel, one worker | `CompletedIsCharged` is violated |
| `check_stuck` | create and check, one worker, staging directory can fail | `NoOrphan` is violated |

- `NoOrphan`: a queued or running job has a message, an actor bound to act on it, or a
  visit of `#recover` to come.
- `SettledHasLedger`, `CompletedHasAsset`: the row and the output are there before the
  status says so, wherever the process died.
- `ChargedForWork`: a charge stands for a submission that came back.
- `AcceptedJobSettles`: every accepted job settles.

`settles` needs two jobs: the offline hold lets only the oldest held job try, so a
job can wait for another.

Deadlock checking is off: the system really stops when nobody calls and every job
has settled. Workers are interchangeable, and so are callers, which `jobs` uses as
symmetry. Jobs are not, since the order of their creation decides whose turn it
is. `settles` uses no symmetry.

### Fairness

`FairSpec` assumes weak fairness of every step of a worker or caller in progress
and of the start-up pass, for the event loop runs every continuation; weak
fairness of `Start`, and of `Halt` once the process is stopping: a user starts the
program again, and a shutdown ends. It assumes strong fairness of fetching a
message of each job, because pg-boss serves a queue in the order of its messages,
so that a job's message is not passed over for ever. The poll loop has a window
after which it throws (`PollThrows`), so `PollAgain` cannot go on for ever. Nobody
has to call, crash or stop.

### What disagrees with the repository's own words

- `cancel_ledger`: a cancel that lands while the result is being filed leaves a
  completed job whose ledger row says it cost nothing.
- `check_stuck`: a check that cannot make its staging directory leaves the job
  running, with nobody to drive it until the next start.

### Proofs

`JobEngineProofs.tla` proves for every value of the constants that meets the
module's assumptions (jobs are numbers; the sets of actors are disjoint; the
bounds are natural numbers, however large):

- `TypeCorrect`: `Spec => []TypeOK`.
- `NoJobOrphaned`: `Spec => []NoOrphan`, assuming the staging directory of a check
  does not fail. `check_stuck` shows why the assumption is there. With the type
  invariant, `NoOrphan` is inductive. The argument is about one actor at a time:
  a step of an actor loses no message of any job, and afterwards the actor still
  pursues its job, or it has sent a message for it, or the job is settled. The lemmas
  `Settles`, `GoesOn`, `Sends` and `Abandons` are these cases. A start puts every
  unsettled row into `todo`, and a visit of `Recover` takes it out only with a
  message or a pursuit.
- `SettledIsRecorded` and `CompletedIsIndexed`: `Spec => []SettledHasLedger` and
  `Spec => []CompletedHasAsset`. Neither is inductive: the step that writes a
  status knows nothing of the ledger. The invariant `Recorded` adds what each
  actor has already done on its way there: the file before the asset (which is why
  a reindex keeps the asset), the asset before a completion is recorded, and the
  ledger row before the status.
- `ChargesAreEarned`: `Spec => []ChargedForWork`, in `JobChargeProofs.tla`. The step
  that writes a ledger row sees only the verdict its actor carries, and the verdict
  was reached several steps and perhaps several actors earlier. The invariant
  `Funding` carries the reason along: the handle of a row, and of every actor that
  holds one, names a submission there was (`Named`, `Backs`); an actor with a result
  in its hands or a charging verdict has a delivered submission of its job behind it;
  and submissions are only added, and a delivered one stays delivered (`Grown`).

How often a job is submitted, filed, recorded and charged is the subject of `JobHistory`,
below.

Only model-checked: `AcceptedJobSettles`, since liveness under fairness is out of
the prover's reach.

## JobHistory

The engine lets drives of one job overlap: retries and checks may race, a hold's
message may survive a restart, and the queues keep duplicates unless pg-boss does not.
So "one submission", "one ledger row" or "one output" is not what the code promises
without more. `JobHistory` takes the steps of `JobEngine` as they are, with every
operation and every fault, and adds a memory that only watches:

- `met`: the stretches of code that two actors of a job have been in at once. A stretch
  runs from a read to the write that relies on it: `submitting` (no handle was found,
  until the new one is stored), `filing` (the look for an earlier output, until the
  index row), `recording` (the ledger was read, until it is written), and `settling`
  (from the result or the cancel's status until all has been recorded).
- `stray`: the jobs whose file was written and whose index row was then given up.
- `resent`: how many messages `#recover` put beside one that was queued already.

`jobs` is one job, two workers and two callers. Its instances share out the bounds:

| Instance | What may happen |
| --- | --- |
| `meeting` | three calls of any method, or two and a lost network, which overlap; one start; a failing disk; duplicates or not |
| `restarting` | one call; a lost network; two starts; a failing disk; duplicates or not |
| `crashing` | four calls (create, retry, check), one after the other; three starts; a failing disk; one message of a key |

- `SubmissionsAreConfirmed`: the submissions of a job are at most its confirmations plus
  `resent`: calls that overlap, drives of one job, holds, cancels and crashes never submit
  twice for one confirmation, but for those messages. That exception is real: a job held
  for the network has a message without a key (`engine.ts:1043`), which survives a
  restart; `#recover` puts another one beside it (`1617`); two workers take them, the first
  claims the row, the second reads it as running before its handle is stored, skips the
  guarded claim, and both submit. `S-m4-scenarios.spec.ts:345` says such a job "submits
  once when the network is back".
- `HandleUnlessMet`: a handle is replaced only where two drives were submitting at once.
- `RowUnlessMet`: a second ledger row comes only of two actors recording at once.
- `ChargeUnlessMet`: a completion loses its charge only to a settlement or a cancel that
  overlapped it, which is the race of `cancel_ledger`.
- `OutputUnlessMet`: an output is indexed twice only where two drives were filing it at
  once, or one gave up between the file and the index row.

Three calls are a retry that races a cancel of the job that was accepted; a lost network
and two starts are what the offline hold and a crash at any of its steps take; three
starts are a crash in the first drive and another in its recovery, and four calls a
create, a failure and its check or retry, twice. All bounds
free is out of reach, and the proofs have none.

`Staged` leaves one step to `check_stuck`: a staging directory that fails under a check
that is alone with its job breaks `NoOrphan`, and the theorem `NoJobOrphaned` says so in
its assumption.

### Proofs

`JobChargeProofs` proves all five for every behaviour of `HSpec`: for any jobs, calls,
starts and lost networks, with duplicates or without, and with every fault. The one
assumption is that workers and callers are finitely many (`FiniteAssumption`), which the
counting needs.

- Every step is one actor's turn or the process's (`Turn`, `Life`): each says what it may
  do to the handle, the ledger, the status and the shelf, and at which point of the code.
  `Noticed` says that what two actors are in now is in `met`, so where a job's stretch is
  not in `met`, a step of one actor finds no other there (`TwoMeet`).
- `HandleIsKept` follows from `Submitted`: who is submitting found no handle, and there
  is none yet unless two met.
- `LedgerRowIsOne` follows from `Rows`: the entry an actor looked up is the one row there
  is (`Looked`). `CompletionIsCharged` adds `Charged`: what each actor settling a job has
  yet to do to its row (`Settlement`).
- `OutputIsOne` follows from `Shelved`: the index has all of a job's files, except while
  an actor is about to index the one there is.
- `SubmissionsArePaid` is a budget. The submissions made, the actors about to make one
  (`Committed`), those that wait with a fresh row (`Waiters`) and the queued messages
  that can start a drive are together at most the confirmations and the resent messages,
  and a queued row leaves room for one more submission (`Budget`). It rests on every
  resume message and everybody who resumes having a handle in the row (`Handled`), and on
  the rows `#recover` has yet to visit being unsettled and nobody's (`Unvisited`). The
  sum is over the set of actors, hence its finiteness.

## WorkflowRun

### State and actors

A drive (`driveRunToRest` under the runs queue, with one worker) copies the step rows,
walks the graph in its copy (`execute` of the executor), and writes the copy back one
row at a time after every change. The owner's requests write the same rows by id.
Nothing but the queue, which holds one drive of a run and serves one at a time, keeps
the two apart. `run`, `row` and `queued` are the database; `jobs` are the jobs made for
each step, the n-th under the key of attempt n; `drive` and `call` are memory and go
with the process. `approvals` and `resets` count what the owner did, for the
properties.

| Code | Actions |
| --- | --- |
| `driveRunToRest`, `rebuildRunState`, `persistRun` | `Fetch`, `Load`, `Persist`, `Finish` |
| `execute`: order, `when`, gates, barriers | `SkipStep`, `AskGate`, `PassBarrier`, `Enter`, `Exhausted`, `Decide` |
| the host's `runStep`: key, `createJob`, the row, the wait | `CreateThrows`, `Create`, `Mark`, `StepCompletes` |
| retry, alternates, swap and moderation questions, `applyFailPolicy` | `RetryAttempt`, `SwapModel`, `AskSwap`, `AskModerated`, `StepFails` |
| `markRunFailed` | `Throw`, `ThrowRow`, `ThrowRun` |
| `startRun`, `approveRun`, `denyRun`, `cancelRun`, `retryStep` | `Begin`, `CancelJob`, `WriteRow`, `WriteRun`, `Send` |
| jobs, a crash, `#recover` of runs | `JobSettles`, `Crash`, `Boot` |

The steps of the graph, its edges, gates, conditions, fail policies, retries and
alternates are constants; a `when` is false or not as `SkipStep` is taken or not.

### Run and properties

`runs_rest` checks everything on a barrier that an automatic run passes by itself and,
behind it, a conditional step that always asks, with a second attempt and an alternate.
Two callers ask at once, three times in all, or twice with a crash: three requests are
what it takes to start a run and let two requests race on it, and a crash can fall
between any two writes. `MCSpec` counts requests and crashes under one bound; two free
ones cost ten times as much and show nothing else.

- `NoForgottenRun`: a run that says running has a message, a drive, or a request about
  to queue it.
- `PaidOnlyWhenAsked`: the jobs of a step are at most the attempts the workflow names,
  times one more than the requests that put the step back.
- `GateBeforeWork`: no step starts before the approval it asks for, or before that of a
  barrier in front of it, was given since the last reset. `opened` notes what stands open
  since then: nothing, an approval, or an approval of before that the reset left in the
  row, which is the one exception.
- `RunRests`: every run that says running stops saying so.

Fairness: weak fairness of the drive, of each request in progress and of `Boot`, since
the event loop runs every continuation and a user starts the program again. Jobs need
not settle, because `waitForJob` has a window. Nobody has to ask for anything.

`rerun_asks` is about that exception: one gated step, one owner, one request after the
other. The step is approved and its job fails; the owner retries it, and it starts again
without asking. `resetFrom` clears the approval in memory, but `retryStep` writes back
other columns only (`workflows.ts:1337`), and the next drive rebuilds the run from the
row's `approvedAt`. `executor.ts:1108` says "A re-run asks again".

What the properties allow because the code does it: a cancel or deny that lands while a
drive is queued or active is undone when the drive writes its copy (`workflows.ts:1042`,
`2191`); a step whose row was `running` at a crash is never run again and the run
ends as completed around it; a restart of a run that awaits an answer walks past the
waiting step; an approved barrier that is reset is handed to the host, which throws.

### Proofs

`WorkflowRunProofs` proves, for every graph, every gate, and any number of callers,
requests and crashes:

- `RunTypes`: `Spec => []TypeOK`.
- `NoRunForgotten`: `Spec => []NoForgottenRun`. The invariant adds `Resolved`: a drive
  about to write its result has one, and it is not "running".
- `WorkIsGated`: `Spec => []GateBeforeWork`. The invariant `Gated` adds that a recorded
  approval was given or kept since the last reset, in the rows and in the copy
  (`Recorded`), that a barrier that asks
  is completed by an approval only (`BarriersAnswered`), and that the step at work has
  what it needed when it was entered, through its retries (`WorkCleared`).

Its last part builds on the two and proves `PaidAsAsked`:
`Spec => []PaidOnlyWhenAsked`. Counting jobs is not inductive by itself, so the invariant
`Paid` counts like a budget: the jobs a step has made, the attempts it is still owed
(`Owed`: its row is pending, or the drive's copy is, which goes over the row) and the
attempts the drive may still make at it (`Remaining`) together stay within what the start,
the approvals and the resets granted. Entering a step turns what is owed into what
remains, row by row, as the copy is written; each job, retry and alternate is paid out of
what remains; a crash forfeits it, and the row that says running is owed nothing.

`RunRests` is only model-checked.

## Spend

`ledger` is the row of each job and each paid call in `spend_ledger`, `status` the part
of a job's status the caps see, `drive` what its worker has done, `ask` the request
about it, `call` a call outside the queue, `provider` the provider's side of it.
`waived` marks what was spent outside the caps and serves `CapsHold` only.

| Code | Actions |
| --- | --- |
| `reserveBudget` with `ledgerTotal` and `openReservations` | `Admitted`, `Total`, `Spent`, `Reserved` |
| `createJob`, `retryJob`, `checkJob`, `cancelJob` | `Create`, `Ask`, `Retry`, `Check`, `CancelWrite`, `CancelRecord` |
| `#run`, `#recordLedger`, the status | `Work`, `Record`, `Finish` |
| `holdSpend`, `settleHold`, `releaseHold` | `Hold`, `Settle`, `SettleAmbiguous`, `Release` |
| voice clone, design, preview; Soul and LoRA training; analyze | `Prepare`, `TimesOut`, `Breaks`, `Answers`, `Store`, `Audit`, `Fails` by kind |
| the provider | `Accept`, `Bill`, `Refuse` |
| a crash, the date | `Crash`, `Midnight` |

The kinds differ in `Prepares`, `Waits`, `Stores`, `Redates` and `Afterwards`: what may
throw between hold and request, whether a time limit is told from an error, what is
stored before the settlement, whether that moves the row to its own day, and who catches
an error behind the answer.

`spend` checks one job and two calls over two days under a daily cap, which has room for
the job or for the calls, and a folder's monthly cap, which counts the job alone and is
asked about the first call too, as the code's prefix test does. Two spenders of one cap
are what a race takes, two days what a window takes, and three kinds for one call cover
every value of the five sets above.

- `CapsHold`: what the caps admitted fits them. The exceptions are in `waived`: an
  override, a charge above the estimate, a job a check reopened, a charge after a
  cancel, a settlement moved to a later day.
- `BilledIsCounted`: a call the provider billed is held or charged, unless a request
  broke without an answer (`voice-clone.ts:283`) or a statement of the analyze tool
  failed behind one (`generation.ts:601`).
- `NoForgottenHold`: a call that is over leaves its hold only after a crash, a failed
  statement, or a throw before the request. Nothing resolves such a hold.

`SpendProofs` proves `SpendTypes`, `BilledStaysCounted`, `HoldsAreResolved` and
`CapsAreKept`, so all of them, for any jobs, calls, kinds, prices, caps and days. The
second and third follow from one invariant, `Holds`, which says for each point of a call
whether its row is absent, held or charged, and why it may be absent. `CapsAreKept` is
about a sum, which is a fold over a set. Its invariant has three parts: `Fits`, under
every cap the sum of what each spender takes of it (`Counted`: what it spent, or what it
was admitted for as long as that is more and its job open) is within the limit; `Priced`,
a hold is of the price it was admitted for; `Dated`, no row is of a later day, so that the
sums of a new day begin at zero. That a change of one spender changes a sum by its amount,
and that sums are monotone, are lemmas about the fold; their induction is written out with
the smallest set that fails, which the provers can do, where an induction rule over sets
is out of reach.
One drive works on a job at a time, which is what `JobEngine` has where nothing meets.

## Library

### State and actors

The folder is `file` and `side` (the media file and the asset id of the sidecar at each
place), and `row` the index: a path, and the original path of what is in the Trash.
`lock` is `withPathLock`, `due` the paths the watcher will import, `act` where each
actor is: a request of the interface, the `worker` of the maintenance queue, the
`starter` that reindexes before the process is up. `owner` notes which file an id was
made for. `displaced`, `forgotten` and `missed` name the files and paths of which the
properties say less; they change nothing.

| Code | Actions |
| --- | --- |
| `indexAsset` under `withPathLock`, `recoverExternalMove` | `Read`, `Match`, `Write`, `Sweep`, `Upsert` |
| `reindexLibrary`, `importFolder`, `importSources` | `AskScan`, `AskCopy`, `List`, `Wipe`, `NextFile`, `Ready` |
| `updateAssetMetadata`, `recoverAssetMetadata` | `AskEdit`, `Note`, `AskRecover`, `Forget` |
| `deleteAssetToTrash` | `AskTrash`, `Bin`, `Stamp`, `Unlink`, `Carry`, `Trash` |
| `restoreAsset` | `AskRestore`, `Out`, `Follow`, `Restore` |
| the watcher and the maintenance queue, `purgeTrash` | `Notice`, `Dismiss`, `Import`, `Purge`, `PurgeFile`, `PurgeRow` |
| start and crash | `Boot`, `Crash` |
| other programs | `Add`, `Move`, `Remove`, `Strip` |

A step is one rename, one sidecar written or one statement. Taking the lock and reading
is one step, since nothing is awaited that others could change behind the lock; so are
the purge's two removals. Other programs leave a path alone while an operation is under
way on it (`Untouched`).

### Run and properties

`library` has two paths, two places in the Trash, four files, of which two are equal and
two are copies of one generated file, with one id in their metadata, and two requests at a
time. Its initial states share out the bounds and the files: one request, one change by
another program and two starts for two files that are equal, copies, or neither; two
requests, one change and one start for a file with an id of its own; two requests and one
start for equal files; three requests and one start for one file. Together they let every
pair of operations overlap, and each operation meet a crash, a start and a change; three
requests are a deletion, a restore and a repair of one file. All bounds free is out of
reach.

- `OneId` and `IdFollowsFile`: a file has one id, and the sidecar beside it is its own,
  through indexing, moves by other programs, the Trash and restarts.
- `RestIsIndexed`: with nothing under way, every file of the Library is in the index.
- `TrashIsKept`: what is in the Trash has a row that can restore and purge it.
- `PurgeGoesOn`: no row stops the purge of all others.

The exceptions, each of them something the code does:

- `displaced`: files that overwrote another or its lingering sidecar (a copy of the same
  name, a "-restored" path that is taken, `assets.ts:309`); an id that a file of the same
  bytes took over; a file whose sidecar was stripped; a restored file that was indexed
  before its sidecar followed, or parted from it by a crash between the two renames
  (`assets.ts:318`), and the file that sidecar is of; copies of one generated file, which
  both bring its id, so that the index keeps the last one it saw (`index.ts:61`); a file
  moved without its sidecar whose row was removed, or given another path by a deletion or
  a restore; and all files of an operation under whose hands a copy or a restore, which
  take no lock, puts another file (`import.ts:281`, `assets.ts:318`).
- `missed`: a change before the watcher is ready; one whose timer the removal of a
  sidecar cleared (`watcher.ts:123`); an import that was refused, because the Trash holds
  a file of the same bytes or the path is another row's, and is not tried again.
- `forgotten`: files of the Trash whose row a reindex removed. Every start reindexes
  and skips the Trash, so after a restart what is in it can be neither restored nor
  purged, contrary to the comment at `assets.ts:254`.

### Proofs

`LibraryProofs` proves, for any places, files, ids, requests, changes and restarts:

- `TypeCorrect`: `Spec => []TypeOK`. The types alone are not inductive: a step writes a
  sidecar or a row from what an operation read long before. `Typed` adds what each
  operation holds at each step (`Fields`), that a sidecar and a row are of an id that was
  made (`Owned`), and that the place a deletion chose in the Trash stays its own until it
  has written the row (`Reserved`).
- `PurgeIsNotStopped`: `Spec => []PurgeGoesOn`. Given `Typed`, the property is inductive;
  it rests on the code writing the original path with the path, always.
- `TrashHasRows`: `Spec => []TrashIsKept`. `TrashInv` says of every file in the Trash, also
  while an operation is under way on it, that a row has it there, that its row went, or
  that a deletion is about to write one (`Rested`), once the start has removed the rows of
  before (`Settled`); that a row in the Trash has an original path; and that a purge
  removes a file before its row.

The attempts corrected the model. The place a new deletion takes may not be one a purge
has listed already. A restore that loses its row to another must say so. A crash between
the two renames of a restore, and copies that share an id, are steps the code can take
that the bounds of the run, or an assumption about ids, used to hide; the run has them now.

- `SidecarIsItsFiles`: `Spec => []IdFollowsFile`. The property says what is beside a file
  now; its invariant `SideInv` also says what will be there. A sidecar is on its way when
  an indexer, an edit or a deletion has read an id it has still to write (`Writes`), or
  when one rename of two is done: between the renames of a deletion what is beside the
  old path belongs to the file in the Trash (`CarryFits`), and between those of a restore
  what is beside the old place belongs to the file at the new one (`FollowFits`). The
  third case is a restore whose row an indexer had moved to a path of the Library, where
  nothing is said of the files it meets (`FollowAstray`). Most actions are of one of
  five kinds, each a lemma: it leaves the claims alone (`Plain`), writes what it claimed
  (`Puts`), begins on what it reads (`Begins`), brings a file (`Arrives`) or a sidecar
  (`SideComes`).

This one was false at first. A copy or a restore takes no path lock, so it can put a file
at a path from which a deletion has just taken one: the deletion then carries the
newcomer's sidecar into the Trash, beside the other file. It takes a deletion, a restore
of what an earlier one deleted and a change by another program, which the bounds of the
run keep apart; a search with larger bounds shows it. The model now names the files of
such a crossing (`Crossed`), and an id of another file that an operation still holds
counts as in use (`Pending`).

`LibraryIdProofs` builds on these and proves `FileHasOneId`: `Spec => []OneId`. That a file
has one id at most is not inductive, since an indexer that finds none makes a new one: the
invariant must say that the old one would have been found. For a file that brings no id in
its metadata and is not excepted, `IdInv` says:

- `Uniq`: of the ids that a row, a sidecar or an operation has (`Live`), one at most is
  the file's. It counts what an operation has still to write.
- `Found`: such an id is found with its file. Either it is `Sure`: the sidecar is beside
  the file or on its way there, by an indexer's write or a restore's second rename; or,
  for a file in the Trash, the sidecar is still at the path it came from (`Orphan`), which
  nobody else may claim until the deletion brings it. Or the two are `Parted`: another
  program moved the file without its sidecar, and the row still knows the old path, so
  that `recoverExternalMove` will find it.
- `Heeds` and `NamesFit`: what each operation read is still so where it acts on it. An
  indexer that looks for an id is at a path without one (`MatchBare`); the id it made is
  nobody else's, the one it recovered still parted (`WriteFits`); an edit writes the id
  that is there (`NoteFits`).
- `Apart`: two indexers do not have one id, nor two restores one file.
- `Marked` and `Single`: an id in the metadata of a file is that file's, and a file is at
  one place. For files with such an id these are enough.

One lemma (`IdsFrom`) reduces each step to what it does to `Live`, `Orphan`, `Sure`,
`Parted` and the files that arrive; one lemma for each handler or family of them shows
that.

This attempt found the model wrong in three places, all of them a file moved without its
sidecar that then lost the only row that knew it. A deletion or a restore that ends writes
its row by the id it read (`assets.ts:274`, `assets.ts:318`); when an indexer gave that
row to the moved file meanwhile, the next indexer makes a second id. And a crash in the
middle of a restore parts also a file that another operation took from where the restore
put it. TLC confirmed the deletion and the crash from states the bounds of the run do
not reach. `Trash`, `Restore` and `Halfway` now name these files.

It also proves `LibraryIsIndexed`: `Spec => []RestIsIndexed`. The property speaks of the
moments when nothing is under way; its invariant `RestInv` follows each file through all
the others:

- `Cared`: once the reindex of the start has begun, every file of the Library has its own
  row, is due or known to be missed, or is one some actor will index (`Cares`).
- `NamesOwn`, `NamesHere`: an indexer with an id has that of the file before it, and the
  file the id was made for is nowhere else, unless it is in the Trash and will come back
  there. A row an indexer takes away from a path is therefore never that of a file at
  another path, which nobody would index again.
- `Vacant`: a deletion or a restore that is about to write its row has emptied the path
  that row is leaving, so no file there loses the row it relied on.
- `Listing`: only a reindex keeps a list, so an actor that is idle has left nothing.

One lemma covers the steps that bring no file (`RestKept`), one those that do
(`ComesRest`), the latter because the watcher hears of the place or the file is an
exception.

`NamesHere` was false for a file that comes a second time: an indexer may still hold the
id in its metadata for the old path when a new copy comes, is indexed and loses its row to
the old one. `New` keeps to files whose id no operation has in its hands: it stands for
files not seen before, and already left out those whose id a row or a sidecar has.

## Characters

### State and actors

One Character. `look` and `refs` are the words and references of each version, `current`
and `frozen` the columns of those names, `consent` what `consentSatisfied` says of the
row, `identities` and `disk` the rows of `trained_identities` and whose
`lora.safetensors` lies in each version's directory. An edit is told by the number of
its call: what it writes carries that number, so a lost edit can be seen. `young` are the
edits whose words read as a minor's. A request adds a batch of references, of any roles;
a reference carries the number of its request, its role and its number among those.
`call` is what each request has read, `todo` what it has yet to insert.

| Code | Actions |
| --- | --- |
| `createCharacter` | `Init` |
| `ensureUnfrozenVersion`, `forkVersion` | `AskEdit`, `Check`, `Fork` |
| `setAppearance` | `ReadLook`, `WriteLook` |
| `addReferences`, `removeReference` | `ClearAnchor`, `Insert`, `Remove` |
| `setCurrentVersion`, `setConsent` | `Switch`, `SetConsent` |
| `resolveForEngine`, the transaction of `createJob` | `Resolve`, `Accept` |
| `startTraining`, `assertConsentForTraining`, `assertNotMinor` | `AskTraining`, `AssertNotMinor`, `AssertConsent`, `LoadSources`, `Train`, `WriteFile` |
| `upsertIdentity` | `SelectIdentity`, `WriteIdentity` |
| the end of the process | `Crash` |

### Run and properties

`characters` has two requests at a time and four in all, any of the eight operations,
and a crash. Three requests are an edit, a job that freezes its version and an edit that
overlaps either; the fourth is kept for edits and jobs (`LastCall`), where a second fork
needs it. A batch has one or two references. Two of one role are in the first request
only, and of different roles in the first two: what a longer batch adds is one more
insertion of the same loop.

- `LookIsKept`: the version a job names keeps what the job was resolved with.
- `AnchorsReplaced`: the anchors of a version are of one request, since an anchor that is
  added replaces those there were.
- `OneIdentity`: a version has at most one identity.
- `EditsAccepted`: no edit fails, unless the owner chose a current version.
- `EditShows`: an edit that met no other shows in the current version when it ends.
- `IdentityHasFile`: the file on disk is the one a ready identity describes.
- `TrainsOnlyWilling`: what reaches the trainer consented and does not read as a minor.

Their exceptions are the races the code leaves open: an edit past the check of
`ensureUnfrozenVersion` while a job is accepted, or between its resolution and its
acceptance (`overtaken`); edits that overlap, where both may fork and the first is left
in a version that is not current, or one's merge overwrites the other's (`mixed`); two
requests that attach anchors at once (`crowded`); two trainings of a version at once, or a crash
between file and row (`torn`); a change of consent, version or words while a training
waits (`moved`). Taking a reference from a frozen version forks and
takes nothing, since the copies have ids of their own.

Two of these are against the comment at `store.ts:440`. It says that when the current
version is frozen "the edit forks a new unfrozen version and writes to that, so no running
or finished job's look can change": an overtaken job's look does change, and after
`setCurrentVersion` to an older frozen version every edit fails on the primary key.
`LookIsKept` and `EditsAccepted` show that nothing else breaks these promises.

`two_anchors` is the code against the comment at `store.ts:306`, that the anchor is one
slot: `addReferences` deletes the anchor once and inserts the whole array (`321`), so one
request with two anchors leaves two. Nothing else has to happen.

### Proofs

`CharactersProofs` proves, for any number of callers, requests and crashes:
`CharactersTypes`; `LooksAreKept`, with the invariant that a job's version is frozen
(`Named`) and that whoever may still change it was there when it was accepted
(`Bystanders`); `AddedAnchorsReplace`, for batches of any size, with `Own`: what a request
inserts is its own, and `Replacing`: between the deletion and the last insertion the
anchors of the version are those of that request and nobody else attaches one;
`EditsAreAccepted`, with `HeadIsNewest`;
`OnlyWillingAreTrained`, with `Willing`: a training nothing met is of the current
version, and what its checks found still holds; and `FilesAreTheirs` and `IdentityIsOne`,
both from `IdentityInv`: an identity has the number of the call that inserted it, which
no other has (`Numbered`); a training that is about to update a row found one that is
still there (`Found`); and on a version whose trainings did not meet, one at a time is
between file and row, and the disk is its own or that of the one row (`Orderly`). `EditsShow` is an
action property; its invariant `ShowInv` says that an edit that met nobody is the only
one, is about the version that is current, and has left the one it began at only by its
own fork (`Steady`), and that whoever is refused was not refused before, which is what
tells an edit that failed from one that ended. Every property of `characters` is a theorem.

## DataDirLock

`packages/db/src/lock.ts`, which `createDatabase` and `closeDatabaseState` of
`packages/db/src/client.ts` call. Its functions are synchronous, so within one
process they do not interleave; across processes every file-system call is a step.

`file` is the lock file as its path shows it: its creator, whether the record is
written, and whether it is older than `UNREADABLE_GRACE_MS`. A file without its
record reads as `Blank`. `live` is what `process.kill(pid, 0)` sees, `holds` the
count of opens on `globalThis`, `pc` and `seen` the place in the code and the
content read. `company` serves one property only: it notes whether another process
lived when the call began.

| Code | Actions |
| --- | --- |
| `acquireDataDirLock`: exclusive create, write, read, verdict, second reading, removal | `Open`, `Create`, `Write`, `WriteFails`, `Read`, `Judge`, `Reread`, `Remove` |
| a turn of its loop | `Again` |
| the release function | `Release`, then `Ours` and `Drop` for `removeIfOurs` |
| the exit hook | `Exit`, then `Ours` and `Drop` |
| a kill, or the end after the hook | `Die` |
| the clock | `Age` |

A process does not come back after its death: a restart is another pid. A pid that
the system gives to another process while its old lock file is still there is not
modelled; the code would take that process for the holder and refuse. What the
record says besides the pid, permissions and other file errors are left out. The
launcher only reads the file.

| Run | Instance | Checks |
| --- | --- | --- |
| `lock_takeover` | three processes, two opens each, three turns of the loop, `LoneSpec` | `TypeOK`, `MutualExclusion`, `HolderNamed`, `NobodyRefusedAlone`, `OwnedByOne` |
| `lock_race` | the same under `Spec` | `MutualExclusion` is violated |

Three processes are a dead holder and two that come after it, which is what a race
for its lock takes. The code's loop has five turns; three let a process lose the
file twice and still find it, and five give the same answer. Processes are
interchangeable, hence the symmetry. Deadlock checking is off, since all processes
may end.

`lock_race` is the code as it is. Two openers read the same leftover file, both
read it again, one removes it, creates its own and opens the directory, and the
other then removes that one. The check before the removal narrows the window and
does not close it. `LoneSpec` adds what the code does not enforce: no two processes
are between the second reading and the removal (`OneTakesOver`). Two servers would
have to be started within that window, over a lock that a crash left. Under it
everything else is exact: kills between create and write, files that age, releases
racing openers, opens that share the file.

Both instances have `Stalls = FALSE`: no process stands still for the five seconds
of the grace period between two of its own statements. A process that does between
create and write loses its file, as the comment in the code accepts.

`DataDirLockProofs.tla` proves, for every set of processes, every number of turns
and of opens:

- `LockTypes`: `Spec => []TypeOK`.
- `LockExcludes` and `LockNamesHolder`: `LoneSpec => []MutualExclusion` and
  `LoneSpec => []HolderNamed`, when `Stalls` is false. Mutual exclusion follows
  from `HolderNamed`, as one file names one process. `HolderNamed` is not
  inductive: whether a removal is harmless depends on what the remover saw. The
  invariant `LockInv` adds that the writer's file stays its own (`WriterOwns`), that
  a record of a live process is backed by a hold or by a release in progress
  (`RecordBacked`), and that at each point of a takeover the file is still the dead
  holder's (`TakerJustified`), which is where `OneTakesOver` is needed.
- `LockImplementsOwner`: `LoneSpec => OwnedByOne`, under the same conditions.
- `NotRefusedAlone`: `Spec => NobodyRefusedAlone`, with no condition but two turns of the
  loop (the code has five). The invariant `OnItsOwn` is that nobody lives but the caller,
  what it read is what the file says, and it is in its first turn until it has removed
  the file.

### The abstract owner

`DirectoryOwner` is the lock without files: an owner, who has the directory open how
often, and who lives. A process takes the directory when nobody is named, shares and
closes it, leaves when nothing is open, and a dead owner is evicted by whoever finds
it. `OwnedByOne` is its specification with `owner <- Owner`, what the file's record
says (`Blank` without a file or a record), and `opens <- holds`. `Write` maps to
`Take`, `Open` of a holder to `Share`, `Release` and `Exit` to `Close`, `Drop` to
`Leave`, `Remove` of a dead holder's file to `Evict`, and everything else stutters.
The hard case is `Remove`: that what it removes is a dead owner's name or no name at
all is what `TakerJustified` says.

## Only model-checked, and not modelled

Liveness (`AcceptedJobSettles`, `RunRests`) stays with TLC, because liveness under
fairness is out of the prover's reach. Every other property of a
passing run is a theorem.

Statements do not fail except where an action says so, and clocks matter only as `Age`,
`Midnight` and the windows after which a wait gives up.

Not modelled:

- The interface, which is half of the lines, and the registry, whose seed is data: they
  keep no state that outlives a render or a lookup. They are why the map covers a small
  part of all lines: it covers the files that hold the protocols.
- Provider adapters, media tools, embeddings and scores: translation and computation,
  whose answers the models choose.
- Workflow planning, pricing, templates and validation: pure functions over files. Their
  result, an expanded graph with its gates, is a constant of `WorkflowRun`.
- Re-running from a step, sheet runs, and the work of analyze, assemble and export steps.
- Chat approvals, the MCP server's sessions and the key store: each is small state
  machines of its own and the next candidates.
- Of the modelled components: what `PROJECT.json` says under each component's note.
