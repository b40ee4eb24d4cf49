----------------------------- MODULE DataDirLock -----------------------------
(***************************************************************************)
(* The data-directory lock: packages/db/src/lock.ts, as createDatabase and *)
(* closeDatabaseState of packages/db/src/client.ts use it.                 *)
(*                                                                         *)
(* Whoever opens the database first creates the lock file exclusively,     *)
(* with its pid inside.  The functions are synchronous, so nothing of a    *)
(* process runs between their statements, but other processes do: a step   *)
(* is one file-system call, or the look at another process.                *)
(***************************************************************************)
EXTENDS Integers

CONSTANTS
    Processes,       \* pids; a process that has died does not come back
    NoFile,          \* no lock file
    Blank,           \* what an empty or half-written file reads as
    Stalls,          \* may a process stand still for UNREADABLE_GRACE_MS between
                     \* two statements: BOOLEAN
    MaxAttempts,     \* the turns of acquireDataDirLock's loop
    MaxHolds         \* bound: opens of one process at a time

Files == [by : Processes, written : BOOLEAN, old : BOOLEAN]

ASSUME ProcessesAssumption == Blank \notin Processes /\ NoFile \notin Files
ASSUME LimitsAssumption ==
    Stalls \in BOOLEAN /\ MaxAttempts \in Nat \ {0} /\ MaxHolds \in Nat \ {0}

VARIABLES
    file,            \* the lock file: who created it, whether the record is
                     \* written, and whether it is older than the grace period
    live,            \* the processes that run
    holds,           \* __kilnryDataDirLocks: opens the process has
    pc,              \* where the process is in acquire or release
    seen,            \* what it read
    attempt,         \* its turn of the loop
    company          \* for a property only: did others live when the call began

vars == <<file, live, holds, pc, seen, attempt, company>>

-----------------------------------------------------------------------------
Acquiring == {"create", "write", "read", "judge", "reread", "remove"}
Releasing == {"ours", "drop", "exit", "leave", "gone"}
Resting   == {"idle", "refused"}

TypeOK ==
    /\ file \in Files \cup {NoFile}
    /\ live \subseteq Processes
    /\ holds \in [Processes -> Nat]
    /\ pc \in [Processes -> Acquiring \cup Releasing \cup Resting]
    /\ seen \in [Processes -> Processes \cup {Blank}]
    /\ attempt \in [Processes -> 1 .. MaxAttempts]
    /\ company \in [Processes -> BOOLEAN]

Init ==
    /\ file = NoFile
    /\ live = Processes
    /\ holds = [p \in Processes |-> 0]
    /\ pc = [p \in Processes |-> "idle"]
    /\ seen = [p \in Processes |-> Blank]
    /\ attempt = [p \in Processes |-> 1]
    /\ company = [p \in Processes |-> FALSE]

\* What readFileSync and parse make of the file that is there.
Content == IF file.written THEN file.by ELSE Blank

At(p, s) == p \in live /\ pc[p] = s
Goto(p, s) == pc' = [pc EXCEPT ![p] = s]

-----------------------------------------------------------------------------
(* acquireDataDirLock.                                                      *)

Open(p) ==
    /\ At(p, "idle") \/ At(p, "refused")
    /\ holds[p] < MaxHolds
    /\ attempt' = [attempt EXCEPT ![p] = 1]
    /\ company' = [company EXCEPT ![p] = live # {p}]
    /\ Goto(p, "create")
    /\ UNCHANGED <<file, live, holds, seen>>

\* Deviation: one turn too many.
AgainAndAgain(p) ==
    \/ /\ attempt[p] <= MaxAttempts
       /\ attempt' = [attempt EXCEPT ![p] = @ + 1]
       /\ Goto(p, "create")
    \/ /\ attempt[p] > MaxAttempts
       /\ Goto(p, "refused")
       /\ UNCHANGED attempt

\* The next turn of the loop, or the error after the last.
Again(p) ==
    \/ /\ attempt[p] < MaxAttempts
       /\ attempt' = [attempt EXCEPT ![p] = @ + 1]
       /\ Goto(p, "create")
    \/ /\ attempt[p] = MaxAttempts
       /\ Goto(p, "refused")
       /\ UNCHANGED attempt

\* openSync(path, 'wx').
Create(p) ==
    /\ At(p, "create")
    /\ \/ /\ file = NoFile
          /\ file' = [by |-> p, written |-> FALSE, old |-> FALSE]
          /\ Goto(p, "write")
       \/ /\ file # NoFile
          /\ Goto(p, "read")
          /\ UNCHANGED file
    /\ UNCHANGED <<live, holds, seen, attempt, company>>

\* The record goes into the file this process created, whether the path still
\* names that file or not.
Write(p) ==
    /\ At(p, "write")
    /\ file' = IF file # NoFile /\ file.by = p
               THEN [by |-> p, written |-> TRUE, old |-> FALSE] ELSE file
    /\ holds' = [holds EXCEPT ![p] = 1]
    /\ Goto(p, "idle")
    /\ UNCHANGED <<live, seen, attempt, company>>

\* The disk is full: the error is not EEXIST, and the file stays as it is.
WriteFails(p) ==
    /\ At(p, "write")
    /\ Goto(p, "refused")
    /\ UNCHANGED <<file, live, holds, seen, attempt, company>>

Read(p) ==
    /\ At(p, "read")
    /\ \/ /\ file = NoFile
          /\ Again(p)
          /\ UNCHANGED seen
       \/ /\ file # NoFile
          /\ seen' = [seen EXCEPT ![p] = Content]
          /\ Goto(p, "judge")
          /\ UNCHANGED attempt
    /\ UNCHANGED <<file, live, holds, company>>

\* Deviation: a readable record is always taken for a live holder's.
JudgeTrustingly(p) ==
    /\ At(p, "judge")
    /\ Goto(p, IF seen[p] # Blank \/ (file # NoFile /\ ~file.old) THEN "refused" ELSE "reread")
    /\ UNCHANGED <<file, live, holds, seen, attempt, company>>

\* Deviation: a lock file old enough is taken over, whoever holds it.
JudgeByAge(p) ==
    /\ At(p, "judge")
    /\ Goto(p, IF file # NoFile /\ file.old THEN "reread" ELSE "refused")
    /\ UNCHANGED <<file, live, holds, seen, attempt, company>>

\* The age of the file that is there now, or the state of the process the record
\* named: its own open counts, a live one refuses, a dead one is taken over.
Judge(p) ==
    /\ At(p, "judge")
    /\ \/ /\ seen[p] = Blank
          /\ \/ file = NoFile /\ Again(p)
             \/ /\ file # NoFile
                /\ Goto(p, IF file.old THEN "reread" ELSE "refused")
                /\ UNCHANGED attempt
          /\ UNCHANGED holds
       \/ /\ seen[p] = p
          /\ holds' = [holds EXCEPT ![p] = @ + 1]
          /\ Goto(p, "idle")
          /\ UNCHANGED attempt
       \/ /\ seen[p] \notin {Blank, p}
          /\ Goto(p, IF seen[p] \in live THEN "refused" ELSE "reread")
          /\ UNCHANGED <<holds, attempt>>
    /\ UNCHANGED <<file, live, seen, company>>

\* Deviation: the file is not read again before it is removed.
RereadNothing(p) ==
    /\ At(p, "reread")
    /\ Goto(p, "remove")
    /\ UNCHANGED <<file, live, holds, seen, attempt, company>>

\* Does the file still say what was read?
Reread(p) ==
    /\ At(p, "reread")
    /\ \/ /\ file # NoFile /\ Content = seen[p]
          /\ Goto(p, "remove")
          /\ UNCHANGED attempt
       \/ /\ ~(file # NoFile /\ Content = seen[p])
          /\ Again(p)
    /\ UNCHANGED <<file, live, holds, seen, company>>

\* rmSync removes whatever the path names by now.
Remove(p) ==
    /\ At(p, "remove")
    /\ file' = NoFile
    /\ Again(p)
    /\ UNCHANGED <<live, holds, seen, company>>

-----------------------------------------------------------------------------
(* The release function and the exit hook.                                  *)

\* Deviation: every release lets go of the file.
ReleaseAll(p) ==
    /\ At(p, "idle") \/ At(p, "refused")
    /\ holds[p] > 0
    /\ holds' = [holds EXCEPT ![p] = @ - 1]
    /\ Goto(p, "ours")
    /\ UNCHANGED <<file, live, seen, attempt, company>>

\* One open less; the last one goes on to removeIfOurs.
Release(p) ==
    /\ At(p, "idle") \/ At(p, "refused")
    /\ holds[p] > 0
    /\ holds' = [holds EXCEPT ![p] = @ - 1]
    /\ IF holds[p] = 1 THEN Goto(p, "ours") ELSE UNCHANGED pc
    /\ UNCHANGED <<file, live, seen, attempt, company>>

\* The process ends without closing: its hook goes on to removeIfOurs, and nothing
\* of it uses the directory any more.
Exit(p) ==
    /\ At(p, "idle") \/ At(p, "refused")
    /\ holds[p] > 0
    /\ holds' = [holds EXCEPT ![p] = 0]
    /\ Goto(p, "exit")
    /\ UNCHANGED <<file, live, seen, attempt, company>>

\* Does the file name this process?
Ours(p) ==
    /\ LET mine == file # NoFile /\ Content = p IN
         \/ At(p, "ours") /\ Goto(p, IF mine THEN "drop" ELSE "idle")
         \/ At(p, "exit") /\ Goto(p, IF mine THEN "leave" ELSE "gone")
    /\ UNCHANGED <<file, live, holds, seen, attempt, company>>

Drop(p) ==
    /\ \/ At(p, "drop") /\ Goto(p, "idle")
       \/ At(p, "leave") /\ Goto(p, "gone")
    /\ file' = NoFile
    /\ UNCHANGED <<live, holds, seen, attempt, company>>

-----------------------------------------------------------------------------
(* Processes die, and files grow old.                                       *)

\* The process is killed at any point, or ends after its exit hook.
Die(p) ==
    /\ p \in live
    /\ live' = live \ {p}
    /\ holds' = [holds EXCEPT ![p] = 0]
    /\ Goto(p, "idle")
    /\ seen' = [seen EXCEPT ![p] = Blank]
    /\ attempt' = [attempt EXCEPT ![p] = 1]
    /\ company' = [company EXCEPT ![p] = FALSE]
    /\ UNCHANGED file

\* UNREADABLE_GRACE_MS pass since the file was created or written.  If processes
\* do not stall, its creator has written it or given up by then, and nobody is
\* still looking at what the file said before it was written.
Age ==
    /\ file # NoFile /\ ~file.old
    /\ \/ Stalls
       \/ /\ ~(pc[file.by] = "write")
          /\ ~(file.written /\ \E p \in Processes : pc[p] = "judge" /\ seen[p] = Blank)
    /\ file' = [file EXCEPT !.old = TRUE]
    /\ UNCHANGED <<live, holds, pc, seen, attempt, company>>

-----------------------------------------------------------------------------
Step(p) ==
    \/ Open(p) \/ Create(p) \/ Write(p) \/ WriteFails(p) \/ Read(p) \/ Judge(p)
    \/ Reread(p) \/ Remove(p) \/ Release(p) \/ Exit(p) \/ Ours(p) \/ Drop(p)
    \/ Die(p)

Next == Age \/ \E p \in Processes : Step(p)

Spec == Init /\ [][Next]_vars

\* No two processes are between the second reading of the file and its removal.
\* Nothing in the code sees to that: a second opener would have to come while the
\* first takes a dead holder's lock over.
OneTakesOver ==
    \A p, q \in Processes :
        pc[p] \in {"reread", "remove"} /\ pc[q] \in {"reread", "remove"} => p = q

LoneSpec == Init /\ [][Next /\ OneTakesOver']_vars

-----------------------------------------------------------------------------
(* Properties.                                                              *)

\* One process at a time has the directory open: two would lose each other's
\* committed rows.
MutualExclusion ==
    \A p, q \in Processes : holds[p] > 0 /\ holds[q] > 0 => p = q

\* While a process has the directory open, the lock file is there and names it,
\* so that the launcher finds the server and nobody else can take the lock.
HolderNamed ==
    \A p \in Processes :
        holds[p] > 0 => file # NoFile /\ file.written /\ file.by = p

\* A process that is alone from its call on gets the lock, whoever died before and
\* where: it is refused only when it cannot write its own file, or in the grace
\* period of a file that cannot be read.
NobodyRefusedAlone ==
    [][\A p \in Processes :
          pc[p] \notin {"refused", "write"} /\ pc'[p] = "refused" =>
              company[p] \/ (file # NoFile /\ ~file.old)]_vars

-----------------------------------------------------------------------------
(* What the lock implements.                                                *)

\* The process a reader of the lock file takes for the owner.
Owner == IF file = NoFile THEN Blank ELSE Content

Directory == INSTANCE DirectoryOwner WITH Nobody <- Blank, owner <- Owner, opens <- holds

\* Creating, reading, judging and removing the lock file, with its half-written and
\* stale states, add up to a directory that belongs to one process at a time: a name
\* appears only where there was none, with the first open, and goes only when its
\* process has closed the directory or is dead (lock.ts, the comment at its head).
OwnedByOne == Directory!Spec
=============================================================================
