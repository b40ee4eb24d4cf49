----------------------------- MODULE JobHistory -----------------------------
(***************************************************************************)
(* JobEngine with a memory of what has happened to each job, so that what  *)
(* its races can break, and what they cannot, is said job by job and for   *)
(* every behaviour: which stretches of the code two actors of the job were *)
(* in at once, whether a file was left without an index row, and how many  *)
(* messages the start-up pass added to ones that were queued already.      *)
(*                                                                         *)
(* The steps are those of JobEngine: the memory only watches them.         *)
(***************************************************************************)
EXTENDS JobEngine, FiniteSets

VARIABLES
    met,             \* the stretches two actors of the job were in at once
    stray,           \* jobs whose file was written, and the index row given up
    resent           \* fresh messages #recover added beside a queued one

ASSUME FiniteAssumption == IsFiniteSet(Workers) /\ IsFiniteSet(Callers)

memories == <<met, stray, resent>>
hvars == <<vars, memories>>

-----------------------------------------------------------------------------
(* Stretches of code that read something and write it later.                *)

\* From the read that finds no handle until the new one is stored.
Sending(a) ==
    \/ act[a].pc \in {"submit", "persist", "persistInline"}
    \/ At(a, "setup") /\ ~act[a].fresh /\ act[a].mine = 0

\* From the look for an earlier output until the index row.
Filing(a) == act[a].pc \in {"write", "index"}

\* From the read of the ledger until the write.
Recording(a) == At(a, "record")

\* From the status that lets a job be settled, or the one a cancel writes, until its end.
Settling(a) == act[a].pc \in {"cancelAsk", "select", "record", "commit"}

Stretches == {"submitting", "filing", "recording", "settling"}
In(a, x) ==
    \/ x = "submitting" /\ Sending(a)
    \/ x = "filing" /\ Filing(a)
    \/ x = "recording" /\ Recording(a)
    \/ x = "settling" /\ Settling(a)

Meet(j, x) ==
    \E a \in Actors : JobOf(a) = j /\ In(a, x) /\ \E b \in Actors \ {a} : JobOf(b) = j /\ In(b, x)

\* finalizeOutput gives up between the file and the index row.
GivesUp(a) == At(a, "index") /\ act'[a].pc \in {"caught", "judge"} /\ UNCHANGED assets

\* #recover adds a message to a job that has one.
Doubles(j) ==
    /\ phase = "recovering"
    /\ queue[j]["fresh"] + queue[j]["hold"] > 0
    /\ queue'[j]["fresh"] > queue[j]["fresh"]

Watch ==
    /\ met' = [j \in Jobs |-> met[j] \cup {x \in Stretches : Meet(j, x)'}]
    /\ stray' = stray \cup {JobOf(a) : a \in {b \in Actors : GivesUp(b)}}
    /\ resent' = [j \in Jobs |-> resent[j] + IF Doubles(j) THEN 1 ELSE 0]

HInit == Init /\ met = [j \in Jobs |-> {}] /\ stray = {} /\ resent = [j \in Jobs |-> 0]
HNext == Next /\ Watch
HSpec == HInit /\ [][HNext]_hvars

MemoryTypeOK ==
    /\ met \in [Jobs -> SUBSET Stretches]
    /\ stray \subseteq Jobs
    /\ resent \in [Jobs -> Nat]
-----------------------------------------------------------------------------
(* Properties.                                                              *)

\* The provider gets one submission for a confirmed create or retry, whatever calls, holds,
\* crashes and drives of the same job race each other: the only others are those of the
\* messages the start-up pass put beside one that was queued already.
SubmissionsAreConfirmed == \A j \in Jobs : Len(requests[j]) <= confirmations[j] + resent[j]

\* The handle of a request is replaced only where two drives were submitting the job at
\* once: no retry, resumed drive, check or crash makes one forget it.
HandleUnlessMet ==
    [][\A j \in Jobs : handle[j] # 0 /\ handle'[j] # handle[j] => "submitting" \in met[j]]_hvars

\* The ledger has a second row of a job only where two actors stood between the read of the
\* ledger and the write at once: no retry, cancel or check after a settlement adds one.
RowUnlessMet == \A j \in Jobs : "recording" \notin met[j] => Len(ledger[j]) <= 1

\* A completed job without its charge is one whose settlements overlapped: a cancel or a
\* failing drive that ended before, or began after, never takes the charge away.
ChargeUnlessMet ==
    \A j \in Jobs :
        status[j] = "completed" /\ "settling" \notin met[j] =>
            \E e \in DOMAIN ledger[j] : ledger[j][e] = "charged"

\* A job is indexed twice only where two drives were filing its output at once, or where
\* one gave up between the file and the index row; a crash between the two is repaired.
OutputUnlessMet ==
    \A j \in Jobs : "filing" \notin met[j] /\ j \notin stray => assets[j] <= 1
=============================================================================
