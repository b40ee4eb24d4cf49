--------------------------- MODULE JobEngineProofs ---------------------------
(***************************************************************************)
(* Type correctness of JobEngine, and the invariants that hold for any     *)
(* number of jobs, workers, callers, calls, restarts and lost connections. *)
(***************************************************************************)
EXTENDS JobEngine, TLAPS

-----------------------------------------------------------------------------
(* Sequences, and the records of the actors.                                *)

LEMMA AppendInSeq ==
    ASSUME NEW S, NEW s \in Seq(S), NEW c \in S
    PROVE  Append(s, c) \in Seq(S)
  OBVIOUS

LEMMA ReplaceInSeq ==
    ASSUME NEW S, NEW s \in Seq(S), NEW c \in S, NEW e
    PROVE  [s EXCEPT ![e] = c] \in Seq(S)
<1>1. s \in [1 .. Len(s) -> S] /\ Len(s) \in Nat
  OBVIOUS
<1>2. [s EXCEPT ![e] = c] \in [1 .. Len(s) -> S]
  BY <1>1
<1> QED
  BY <1>1, <1>2

\* An actor that is somewhere has a job.
LEMMA Busy ==
    ASSUME ActTypeOK, NEW a \in Actors, NEW p, At(a, p), p # "idle"
    PROVE  JobOf(a) \in Jobs
  BY DEF ActTypeOK, At

\* A move to a well-formed place keeps the actors well-formed.
LEMMA MoveType ==
    ASSUME ActTypeOK, NEW a \in Actors, NEW l \in Local,
           l.pc = "idle" \/ l.job \in Jobs, Move(a, l)
    PROVE  ActTypeOK'
  BY DEF ActTypeOK, Move, At, JobOf

LEMMA IdleType == Idle \in Local /\ Idle.pc = "idle" /\ Idle.job = None
  BY DEF Idle, Local, Pcs, Verdicts

LEMMA GotoType ==
    ASSUME ActTypeOK, NEW a \in Actors, JobOf(a) \in Jobs, NEW p \in Pcs, Goto(a, p)
    PROVE  ActTypeOK'
<1> DEFINE l == [act[a] EXCEPT !.pc = p]
<1>1. l \in Local /\ l.job = JobOf(a)
  BY DEF ActTypeOK, Local, JobOf
<1> QED
  BY <1>1, MoveType DEF Goto

LEMMA GotoWithType ==
    ASSUME ActTypeOK, NEW a \in Actors, JobOf(a) \in Jobs, NEW p \in Pcs, NEW v \in Verdicts,
           GotoWith(a, p, v)
    PROVE  ActTypeOK'
<1> DEFINE l == [act[a] EXCEPT !.pc = p, !.verdict = v]
<1>1. l \in Local /\ l.job = JobOf(a)
  BY DEF ActTypeOK, Local, JobOf
<1> QED
  BY <1>1, MoveType DEF GotoWith

\* The reads an actor keeps: a message, a row, a handle, a ledger row.
LEMMA TakeType ==
    ASSUME ActTypeOK, NEW a \in Actors, NEW p \in Pcs, NEW j \in Jobs, NEW f \in BOOLEAN,
           Move(a, [act[a] EXCEPT !.pc = p, !.job = j, !.fresh = f])
    PROVE  ActTypeOK'
<1> DEFINE l == [act[a] EXCEPT !.pc = p, !.job = j, !.fresh = f]
<1>1. l \in Local /\ l.job = j
  BY DEF ActTypeOK, Local, JobOf
<1> QED
  BY <1>1, MoveType

LEMMA RowType ==
    ASSUME ActTypeOK, NEW a \in Actors, JobOf(a) \in Jobs, NEW p \in Pcs, NEW f \in BOOLEAN, NEW n \in Nat,
           Move(a, [act[a] EXCEPT !.pc = p, !.fresh = f, !.mine = n])
    PROVE  ActTypeOK'
<1> DEFINE l == [act[a] EXCEPT !.pc = p, !.fresh = f, !.mine = n]
<1>1. l \in Local /\ l.job = JobOf(a)
  BY DEF ActTypeOK, Local, JobOf
<1> QED
  BY <1>1, MoveType

LEMMA HandleType ==
    ASSUME ActTypeOK, NEW a \in Actors, JobOf(a) \in Jobs, NEW p \in Pcs, NEW n \in Nat,
           Move(a, [act[a] EXCEPT !.pc = p, !.mine = n])
    PROVE  ActTypeOK'
<1> DEFINE l == [act[a] EXCEPT !.pc = p, !.mine = n]
<1>1. l \in Local /\ l.job = JobOf(a)
  BY DEF ActTypeOK, Local, JobOf
<1> QED
  BY <1>1, MoveType

LEMMA EntryType ==
    ASSUME ActTypeOK, NEW a \in Actors, JobOf(a) \in Jobs, NEW p \in Pcs, NEW n \in Nat,
           Move(a, [act[a] EXCEPT !.pc = p, !.entry = n])
    PROVE  ActTypeOK'
<1> DEFINE l == [act[a] EXCEPT !.pc = p, !.entry = n]
<1>1. l \in Local /\ l.job = JobOf(a)
  BY DEF ActTypeOK, Local, JobOf
<1> QED
  BY <1>1, MoveType

LEMMA CallType ==
    ASSUME ActTypeOK, NEW a \in Actors, NEW p \in Pcs, NEW j \in Jobs, NEW n \in Nat,
           Move(a, [act[a] EXCEPT !.pc = p, !.job = j, !.mine = n])
    PROVE  ActTypeOK'
<1> DEFINE l == [act[a] EXCEPT !.pc = p, !.job = j, !.mine = n]
<1>1. l \in Local /\ l.job = j
  BY DEF ActTypeOK, Local, JobOf
<1> QED
  BY <1>1, MoveType

LEMMA LostType ==
    ASSUME ActTypeOK, NEW a \in Actors, NEW p \in Pcs, NEW j \in Jobs, NEW v \in Verdicts,
           Move(a, [act[a] EXCEPT !.pc = p, !.job = j, !.verdict = v])
    PROVE  ActTypeOK'
<1> DEFINE l == [act[a] EXCEPT !.pc = p, !.job = j, !.verdict = v]
<1>1. l \in Local /\ l.job = j
  BY DEF ActTypeOK, Local, JobOf
<1> QED
  BY <1>1, MoveType

\* What a verdict becomes is a terminal status, and a charge.
LEMMA StatusType == \A v \in Verdicts : StatusOf(v) \in Terminal
  BY DEF StatusOf, Terminal, Verdicts

LEMMA WriteLedgerType ==
    ASSUME StoreTypeOK, NEW a \in Actors, JobOf(a) \in Jobs, WriteLedger(a)
    PROVE  ledger' \in [Jobs -> Seq(Charges)]
<1> DEFINE c == ChargeOf(act[a].verdict)
           e == act[a].entry
<1>1. c \in Charges
  BY DEF ChargeOf, Charges
<1>2. ledger[JobOf(a)] \in Seq(Charges)
  BY DEF StoreTypeOK
<1>3. (IF e = 0 THEN Append(ledger[JobOf(a)], c) ELSE [ledger[JobOf(a)] EXCEPT ![e] = c]) \in Seq(Charges)
  BY <1>1, <1>2, AppendInSeq, ReplaceInSeq
<1> HIDE DEF c, e
<1>4. ledger' = [ledger EXCEPT ![JobOf(a)] =
                    IF e = 0 THEN Append(ledger[JobOf(a)], c) ELSE [ledger[JobOf(a)] EXCEPT ![e] = c]]
  BY DEF WriteLedger, c, e
<1> QED
  BY <1>3, <1>4 DEF StoreTypeOK

-----------------------------------------------------------------------------
(* Type correctness, one step of each kind of actor at a time.               *)

\* The steps of #complete, #finishError and #recordLedger.
LEMMA SharedType ==
    ASSUME TypeOK, NEW a \in Actors, SharedStep(a)
    PROVE  TypeOK'
<1> USE DEF TypeOK
<1> DEFINE j == JobOf(a)
<1>1. j \in Jobs
  BY Busy DEF SharedStep, Download, Look, Write, Index, FinalizeFails, Judge, Select, Record, Commit
<1>2. {"look", "write", "index", "select", "record", "commit", "caught", "judge"} \subseteq Pcs
  BY DEF Pcs, WorkerPcs, SharedPcs
<1>3. {"undelivered", "blank", "failed", "completed", "stopped"} \subseteq Verdicts
  BY DEF Verdicts
<1>4. ASSUME NEW v \in Verdicts, Throw(a, v) PROVE ActTypeOK'
  BY <1>1, <1>2, <1>3, <1>4, GotoWithType DEF Throw
<1>5. Unwind(a) =>
          ActTypeOK' /\ controller' \in [Jobs -> Actors \cup {None}] /\ aborted' \subseteq Actors
  BY <1>1, IdleType, MoveType DEF Unwind, StoreTypeOK
<1>6. Finished(a) =>
          ActTypeOK' /\ controller' \in [Jobs -> Actors \cup {None}] /\ aborted' \subseteq Actors
  BY <1>1, <1>2, <1>3, <1>5, GotoWithType DEF Finished, StoreTypeOK
<1>7. CASE Download(a)
  <2>1. ActTypeOK'
    BY <1>1, <1>2, <1>3, <1>4, <1>7, GotoType DEF Download
  <2>2. waiting' \in [Jobs -> BOOLEAN]
    BY <1>1, <1>7 DEF Download, StoreTypeOK
  <2> QED
    BY <1>7, <2>1, <2>2 DEF Download, StoreTypeOK, counted
<1>8. CASE Look(a)
  <2>1. ActTypeOK'
    BY <1>1, <1>2, <1>3, <1>8, GotoType, GotoWithType DEF Look
  <2> QED
    BY <1>8, <2>1 DEF Look, StoreTypeOK, database, memory, counted
<1>9. CASE Write(a)
  <2>1. ActTypeOK'
    BY <1>1, <1>2, <1>9, GotoType DEF Write
  <2>2. files' \in [Jobs -> Nat]
    BY <1>1, <1>9 DEF Write, StoreTypeOK
  <2> QED
    BY <1>9, <2>1, <2>2 DEF Write, StoreTypeOK, memory, counted
<1>10. CASE Index(a)
  <2>1. ActTypeOK'
    BY <1>1, <1>2, <1>3, <1>10, GotoWithType DEF Index
  <2>2. assets' \in [Jobs -> Nat]
    BY <1>1, <1>10 DEF Index, StoreTypeOK
  <2> QED
    BY <1>10, <2>1, <2>2 DEF Index, StoreTypeOK, memory, counted
<1>11. CASE FinalizeFails(a)
  <2>1. ActTypeOK'
    BY <1>3, <1>4, <1>11 DEF FinalizeFails
  <2>2. assets' \in [Jobs -> Nat]
    BY <1>1, <1>11 DEF FinalizeFails, StoreTypeOK
  <2> QED
    BY <1>11, <2>1, <2>2 DEF FinalizeFails, StoreTypeOK, memory, counted
<1>12. CASE Judge(a)
  <2>1. ActTypeOK' /\ controller' \in [Jobs -> Actors \cup {None}] /\ aborted' \subseteq Actors
    BY <1>1, <1>2, <1>6, <1>12, GotoType DEF Judge, StoreTypeOK
  <2> QED
    BY <1>12, <2>1 DEF Judge, StoreTypeOK, database, counted
<1>13. CASE Select(a)
  <2>1. Len(ledger[j]) \in Nat
    BY <1>1 DEF StoreTypeOK
  <2>2. PICK e \in 0 .. Len(ledger[j]) : Move(a, [act[a] EXCEPT !.pc = "record", !.entry = e])
    BY <1>13 DEF Select
  <2>3. e \in Nat
    BY <2>1
  <2>4. ActTypeOK'
    BY <1>1, <1>2, <2>2, <2>3, EntryType
  <2> QED
    BY <1>13, <2>4 DEF Select, StoreTypeOK, database, memory, counted
<1>14. CASE Record(a)
  <2>1. ActTypeOK'
    BY <1>1, <1>2, <1>14, GotoType DEF Record
  <2>2. ledger' \in [Jobs -> Seq(Charges)]
    BY <1>1, <1>14, WriteLedgerType DEF Record
  <2> QED
    BY <1>14, <2>1, <2>2 DEF Record, StoreTypeOK, memory, counted
<1>15. CASE Commit(a)
  <2>1. StatusOf(act[a].verdict) \in Statuses
    BY StatusType DEF ActTypeOK, Local, Statuses
  <2>2. status' \in [Jobs -> Statuses]
    BY <1>1, <1>15, <2>1 DEF Commit, StoreTypeOK
  <2> QED
    BY <1>6, <1>15, <2>2 DEF Commit, StoreTypeOK, counted
<1> QED
  BY <1>7, <1>8, <1>9, <1>10, <1>11, <1>12, <1>13, <1>14, <1>15 DEF SharedStep

LEMMA AddType ==
    ASSUME StoreTypeOK, NEW j \in Jobs, NEW k \in Kinds, queue' = [queue EXCEPT ![j][k] = @ + 1]
    PROVE  queue' \in [Jobs -> [Kinds -> Nat]]
<1>1. queue[j][k] + 1 \in Nat
  BY DEF StoreTypeOK
<1> QED
  BY <1>1 DEF StoreTypeOK

LEMMA SendType ==
    ASSUME StoreTypeOK, NEW j \in Jobs, NEW k \in Kinds, SendKeyed(j, k)
    PROVE  queue' \in [Jobs -> [Kinds -> Nat]]
  BY AddType DEF StoreTypeOK, SendKeyed

LEMMA AnswerType ==
    ASSUME StoreTypeOK, NEW a \in Actors, JobOf(a) \in Jobs, NEW s \in RequestStates, Answer(a, s)
    PROVE  requests' \in [Jobs -> Seq(RequestStates)]
<1>1. [requests[JobOf(a)] EXCEPT ![act[a].mine] = s] \in Seq(RequestStates)
  BY ReplaceInSeq DEF StoreTypeOK
<1> QED
  BY <1>1 DEF Answer, StoreTypeOK

LEMMA UnwindType ==
    ASSUME TypeOK, NEW a \in Actors, Unwind(a)
    PROVE  ActTypeOK' /\ controller' \in [Jobs -> Actors \cup {None}] /\ aborted' \subseteq Actors
  BY IdleType, MoveType DEF Unwind, TypeOK, StoreTypeOK

\* The worker's own steps, from the message to the poll.
LEMMA WorkerType ==
    ASSUME TypeOK, NEW w \in Workers,
           WorkerStep(w) \/ PollAgain(w) \/ \E j \in Jobs : Fetch(w, j)
    PROVE  TypeOK'
<1> USE DEF TypeOK
<1> DEFINE j == JobOf(w)
<1>1. w \in Actors
  BY DEF Actors
<1>2. WorkerPcs \cup {"select", "record", "commit", "judge", "download"} \subseteq Pcs
  BY DEF Pcs, SharedPcs
<1>3. {"failed", "rejected", "unreachable", "moderated", "moderatedPaid", "stopped"} \subseteq Verdicts
  BY DEF Verdicts
<1>4. CASE \E i \in Jobs : Fetch(w, i)
  <2>1. PICK i \in Jobs : Fetch(w, i)
    BY <1>4
  <2>2. PICK k \in Kinds :
            /\ queue[i][k] > 0
            /\ queue' = [queue EXCEPT ![i][k] = @ - 1]
            /\ Move(w, [act[w] EXCEPT !.pc = "load", !.job = i, !.fresh = (k # "resume")])
    BY <2>1 DEF Fetch
  <2>3. ActTypeOK'
    BY <1>1, <1>2, <2>2, TakeType DEF WorkerPcs
  <2>4. queue' \in [Jobs -> [Kinds -> Nat]]
    <3>1. queue[i][k] \in Nat /\ queue[i][k] - 1 \in Nat
      BY <2>2 DEF StoreTypeOK
    <3> QED
      BY <2>2, <3>1 DEF StoreTypeOK
  <2> QED
    BY <2>1, <2>3, <2>4 DEF Fetch, StoreTypeOK, database, memory, counted
<1> SUFFICES ASSUME WorkerStep(w) \/ PollAgain(w) PROVE TypeOK'
  BY <1>4
<1>5. j \in Jobs \/ SharedStep(w)
  BY <1>1, Busy DEF WorkerStep, PollAgain, LoadSettled, Load, TakeTurn, Hold, HoldSend, SetupFails,
     Setup, Claim, Submitting, SubmitAccepted, SubmitRefused, SubmitLost, SubmitUnreachable,
     Persist, Poll, PollThrows, Caught, Requeue
<1>6. CASE SharedStep(w)
  BY <1>1, <1>6, SharedType
<1> SUFFICES ASSUME j \in Jobs PROVE TypeOK'
  BY <1>5, <1>6
<1>7. Submitting(w) => waiting' \in [Jobs -> BOOLEAN]
  BY DEF Submitting, StoreTypeOK
<1>8. CASE LoadSettled(w)
  BY <1>1, <1>8, UnwindType DEF LoadSettled, StoreTypeOK, database, counted
<1>9. CASE Load(w)
  <2>1. handle[j] \in Nat
    BY DEF StoreTypeOK
  <2>2. ActTypeOK'
    BY <1>1, <1>2, <1>9, <2>1, RowType DEF Load, WorkerPcs
  <2> QED
    BY <1>9, <2>2 DEF Load, StoreTypeOK, database, memory, counted
<1>10. CASE TakeTurn(w)
  <2>1. ActTypeOK'
    BY <1>1, <1>2, <1>10, GotoType DEF TakeTurn, WorkerPcs
  <2> QED
    BY <1>10, <2>1 DEF TakeTurn, StoreTypeOK, database, memory, counted
<1>11. CASE Hold(w)
  <2>1. ActTypeOK'
    BY <1>1, <1>2, <1>11, GotoType DEF Hold, WorkerPcs
  <2>2. waiting' \in [Jobs -> BOOLEAN]
    BY <1>11 DEF Hold, StoreTypeOK
  <2> QED
    BY <1>11, <2>1, <2>2 DEF Hold, StoreTypeOK, memory, counted
<1>12. CASE HoldSend(w)
  <2>1. queue' \in [Jobs -> [Kinds -> Nat]]
    BY <1>12, AddType DEF HoldSend, Kinds
  <2> QED
    BY <1>1, <1>12, <2>1, UnwindType DEF HoldSend, StoreTypeOK, database, counted
<1>13. CASE SetupFails(w)
  <2>1. ActTypeOK'
    BY <1>1, <1>2, <1>3, <1>13, GotoWithType DEF SetupFails, WorkerPcs
  <2> QED
    BY <1>13, <2>1 DEF SetupFails, StoreTypeOK, database, memory, counted
<1>14. CASE Setup(w)
  <2>1. ActTypeOK'
    BY <1>1, <1>2, <1>14, GotoType DEF Setup, WorkerPcs
  <2>2. controller' \in [Jobs -> Actors \cup {None}]
    BY <1>1, <1>14 DEF Setup, StoreTypeOK
  <2> QED
    BY <1>14, <2>1, <2>2 DEF Setup, StoreTypeOK, database, counted
<1>15. CASE Claim(w)
  <2>1. handle[j] \in Nat
    BY DEF StoreTypeOK
  <2>2. ActTypeOK'
    BY <1>1, <1>2, <1>15, <2>1, HandleType DEF Claim, WorkerPcs
  <2>3. status' \in [Jobs -> Statuses]
    BY <1>15 DEF Claim, StoreTypeOK, Statuses, Active
  <2>4. waiting' \in [Jobs -> BOOLEAN]
    BY <1>15 DEF Claim, StoreTypeOK
  <2> QED
    BY <1>15, <2>2, <2>3, <2>4 DEF Claim, StoreTypeOK, memory, counted
<1>16. CASE SubmitAccepted(w)
  <2>1. requests[j] \in Seq(RequestStates) /\ Len(requests[j]) + 1 \in Nat
    BY DEF StoreTypeOK
  <2>2. ActTypeOK'
    BY <1>1, <1>2, <1>16, <2>1, HandleType DEF SubmitAccepted, WorkerPcs
  <2>3. \A r \in {"working", "done"} : Append(requests[j], r) \in Seq(RequestStates)
    BY <2>1, AppendInSeq DEF RequestStates
  <2>4. requests' \in [Jobs -> Seq(RequestStates)]
    BY <1>16, <2>3 DEF SubmitAccepted, StoreTypeOK
  <2> QED
    BY <1>7, <1>16, <2>2, <2>4 DEF SubmitAccepted, Submitting, StoreTypeOK
<1>17. CASE SubmitRefused(w)
  <2>1. ActTypeOK'
    BY <1>1, <1>2, <1>3, <1>17, GotoWithType DEF SubmitRefused, WorkerPcs
  <2> QED
    BY <1>7, <1>17, <2>1 DEF SubmitRefused, Submitting, StoreTypeOK
<1>18. CASE SubmitLost(w)
  <2>1. Append(requests[j], "working") \in Seq(RequestStates)
    BY AppendInSeq DEF StoreTypeOK, RequestStates
  <2>2. requests' \in [Jobs -> Seq(RequestStates)]
    BY <1>18, <2>1 DEF SubmitLost, StoreTypeOK
  <2>3. ActTypeOK'
    BY <1>1, <1>2, <1>3, <1>18, GotoWithType DEF SubmitLost, WorkerPcs
  <2> QED
    BY <1>7, <1>18, <2>2, <2>3 DEF SubmitLost, Submitting, StoreTypeOK
<1>19. CASE SubmitUnreachable(w)
  <2>1. ActTypeOK'
    BY <1>1, <1>2, <1>3, <1>19, GotoWithType DEF SubmitUnreachable, WorkerPcs
  <2>2. unreachable' \in Nat
    BY <1>19 DEF SubmitUnreachable, StoreTypeOK
  <2>3. UNCHANGED <<status, handle, ledger, assets, files, queue, phase, todo, controller,
                    aborted, confirmations, calls, boots, requests>> /\ online' = FALSE
    BY <1>19 DEF SubmitUnreachable, Submitting
  <2>4. waiting' \in [Jobs -> BOOLEAN]
    BY <1>7, <1>19 DEF SubmitUnreachable
  <2> QED
    BY <2>1, <2>2, <2>3, <2>4 DEF StoreTypeOK
<1>20. CASE Persist(w)
  <2>1. ActTypeOK'
    BY <1>1, <1>2, <1>20, GotoType DEF Persist, WorkerPcs
  <2>2. act[w].mine \in Nat
    BY <1>1 DEF ActTypeOK, Local
  <2>3. handle' \in [Jobs -> Nat]
    BY <1>20, <2>2 DEF Persist, StoreTypeOK
  <2> QED
    BY <1>20, <2>1, <2>3 DEF Persist, StoreTypeOK, memory, counted
<1>21. CASE Poll(w)
  <2>1. ActTypeOK'
    BY <1>1, <1>2, <1>3, <1>21, GotoType, GotoWithType DEF Poll, WorkerPcs
  <2>2. requests' \in [Jobs -> Seq(RequestStates)]
    BY <1>1, <1>21, AnswerType DEF Poll, RequestStates
  <2> QED
    BY <1>21, <2>1, <2>2 DEF Poll, StoreTypeOK, database, counted
<1>22. CASE PollThrows(w)
  <2>1. ActTypeOK'
    BY <1>1, <1>2, <1>3, <1>22, GotoWithType DEF PollThrows, WorkerPcs
  <2> QED
    BY <1>22, <2>1 DEF PollThrows, StoreTypeOK, database, memory, counted
<1>23. CASE PollAgain(w)
  BY <1>23 DEF PollAgain, StoreTypeOK, ActTypeOK, At, JobOf, database, counted
<1>24. CASE Caught(w)
  <2>1. ActTypeOK' /\ controller' \in [Jobs -> Actors \cup {None}] /\ aborted' \subseteq Actors
    BY <1>1, <1>2, <1>24, UnwindType, GotoType DEF Caught, StoreTypeOK, WorkerPcs
  <2> QED
    BY <1>24, <2>1 DEF Caught, StoreTypeOK, database, counted
<1>25. CASE Requeue(w)
  <2>1. ActTypeOK'
    BY <1>1, <1>2, <1>25, GotoType DEF Requeue, WorkerPcs
  <2>2. status' \in [Jobs -> Statuses]
    BY <1>25 DEF Requeue, StoreTypeOK, Statuses, Active
  <2> QED
    BY <1>25, <2>1, <2>2 DEF Requeue, StoreTypeOK, memory, counted
<1> QED
  BY <1>6, <1>8, <1>9, <1>10, <1>11, <1>12, <1>13, <1>14, <1>15, <1>16, <1>17, <1>18, <1>19,
     <1>20, <1>21, <1>22, <1>23, <1>24, <1>25 DEF WorkerStep

\* The callers' steps.
LEMMA CallerType ==
    ASSUME TypeOK, NEW c \in Callers, CallerBegins(c) \/ CallerStep(c)
    PROVE  TypeOK'
<1> USE DEF TypeOK
<1> DEFINE j == JobOf(c)
<1>1. c \in Actors
  BY DEF Actors
<1>2. CallerPcs \cup {"select", "record", "commit", "judge", "download", "caught"} \subseteq Pcs
  BY DEF Pcs, SharedPcs, WorkerPcs
<1>3. {"failed", "moderated", "moderatedPaid", "withdrawn"} \subseteq Verdicts
  BY DEF Verdicts
<1>4. CASE CallerBegins(c)
  <2>1. PICK i \in Jobs : Create(c, i) \/ Retry(c, i) \/ Cancel(c, i) \/ Check(c, i)
    BY <1>4 DEF CallerBegins
  <2>2. PICK p \in CallerPcs : \E op : Begin(c, i, op, p)
    BY <2>1, Zenon DEF Create, Retry, Cancel, Check, CallerPcs
  <2>3. handle[i] \in Nat
    BY DEF StoreTypeOK
  <2>4. ActTypeOK'
    BY <1>1, <1>2, <2>2, <2>3, CallType DEF Begin
  <2>5. calls' \in Nat
    BY <2>2 DEF Begin, StoreTypeOK
  <2> QED
    BY <2>2, <2>4, <2>5 DEF Begin, StoreTypeOK, database, memory
<1> SUFFICES ASSUME CallerStep(c) PROVE TypeOK'
  BY <1>4
<1>5. j \in Jobs \/ SharedStep(c)
  BY <1>1, Busy DEF CallerStep, Reserve, RetryWrite, Enqueue, CancelWrite, CancelAsk, CancelRecord,
     CheckClaim, CheckWatch, CheckFails, CheckPoll, CheckThrows, Handoff
<1>6. CASE SharedStep(c)
  BY <1>1, <1>6, SharedType
<1> SUFFICES ASSUME j \in Jobs PROVE TypeOK'
  BY <1>5, <1>6
<1>7. Return(c) => ActTypeOK'
  BY <1>1, IdleType, MoveType DEF Return
<1>8. {"queued", "running", "cancelled"} \subseteq Statuses
  BY DEF Statuses, Active, Terminal
<1>9. confirmations[j] + 1 \in Nat
  BY DEF StoreTypeOK
<1>10. CASE Reserve(c)
  <2>1. ActTypeOK'
    BY <1>1, <1>2, <1>10, GotoType, IdleType, MoveType DEF Reserve, CallerPcs
  <2>2. status' \in [Jobs -> Statuses] /\ confirmations' \in [Jobs -> Nat]
    BY <1>8, <1>9, <1>10 DEF Reserve, StoreTypeOK
  <2> QED
    BY <1>10, <2>1, <2>2 DEF Reserve, StoreTypeOK, memory
<1>11. CASE RetryWrite(c)
  <2>1. ActTypeOK'
    BY <1>1, <1>2, <1>11, GotoType DEF RetryWrite, CallerPcs
  <2>2. status' \in [Jobs -> Statuses] /\ confirmations' \in [Jobs -> Nat]
    BY <1>8, <1>9, <1>11 DEF RetryWrite, StoreTypeOK
  <2>3. waiting' \in [Jobs -> BOOLEAN]
    BY <1>11 DEF RetryWrite, StoreTypeOK
  <2> QED
    BY <1>11, <2>1, <2>2, <2>3 DEF RetryWrite, StoreTypeOK, memory
<1>12. CASE Enqueue(c)
  <2>1. queue' \in [Jobs -> [Kinds -> Nat]]
    BY <1>12, SendType DEF Enqueue, Kinds
  <2> QED
    BY <1>7, <1>12, <2>1 DEF Enqueue, Return, StoreTypeOK, database, counted
<1>13. CASE CancelWrite(c)
  <2>1. ActTypeOK'
    BY <1>1, <1>2, <1>3, <1>13, GotoWithType DEF CancelWrite, CallerPcs
  <2>2. status' \in [Jobs -> Statuses]
    BY <1>8, <1>13 DEF CancelWrite, StoreTypeOK
  <2>3. aborted' \subseteq Actors
    BY <1>13 DEF CancelWrite, StoreTypeOK
  <2> QED
    BY <1>13, <2>1, <2>2, <2>3 DEF CancelWrite, StoreTypeOK, counted
<1>14. CASE CancelAsk(c)
  <2>1. ActTypeOK' /\ UNCHANGED <<controller, aborted>>
    BY <1>1, <1>2, <1>7, <1>14, GotoType DEF CancelAsk, Return
  <2> QED
    BY <1>14, <2>1 DEF CancelAsk, StoreTypeOK, database, counted
<1>15. CASE CancelRecord(c)
  <2>1. ledger' \in [Jobs -> Seq(Charges)]
    BY <1>1, <1>15, WriteLedgerType DEF CancelRecord
  <2> QED
    BY <1>7, <1>15, <2>1 DEF CancelRecord, Return, StoreTypeOK, counted
<1>16. CASE CheckClaim(c)
  <2>1. ActTypeOK'
    BY <1>1, <1>2, <1>16, GotoType DEF CheckClaim, CallerPcs
  <2>2. status' \in [Jobs -> Statuses] /\ waiting' \in [Jobs -> BOOLEAN]
    BY <1>8, <1>16 DEF CheckClaim, StoreTypeOK
  <2> QED
    BY <1>16, <2>1, <2>2 DEF CheckClaim, StoreTypeOK, memory, counted
<1>17. CASE CheckWatch(c)
  <2>1. ActTypeOK'
    BY <1>1, <1>2, <1>17, GotoType DEF CheckWatch, CallerPcs
  <2>2. controller' \in [Jobs -> Actors \cup {None}]
    BY <1>1, <1>17 DEF CheckWatch, StoreTypeOK
  <2> QED
    BY <1>17, <2>1, <2>2 DEF CheckWatch, StoreTypeOK, database, counted
<1>18. CASE CheckPoll(c)
  <2>1. ActTypeOK'
    <3>1. \/ Goto(c, "download") \/ Goto(c, "handoff")
          \/ \E v \in Verdicts : GotoWith(c, "judge", v)
      BY <1>3, <1>18, Zenon DEF CheckPoll, Verdicts
    <3> QED
      BY <1>1, <1>2, <3>1, GotoType, GotoWithType DEF CallerPcs
  <2>2. requests' \in [Jobs -> Seq(RequestStates)]
    BY <1>1, <1>18, AnswerType DEF CheckPoll, RequestStates
  <2> QED
    BY <1>18, <2>1, <2>2 DEF CheckPoll, StoreTypeOK, database, counted
<1>19. CASE CheckThrows(c)
  <2>1. ActTypeOK'
    BY <1>1, <1>2, <1>3, <1>19, GotoWithType DEF CheckThrows, Throw
  <2> QED
    BY <1>19, <2>1 DEF CheckThrows, StoreTypeOK, database, counted
<1>20. CASE Handoff(c)
  <2>1. queue' \in [Jobs -> [Kinds -> Nat]]
    BY <1>20, SendType DEF Handoff, Kinds
  <2> QED
    BY <1>1, <1>20, <2>1, UnwindType DEF Handoff, StoreTypeOK, database, counted
<1>21. CASE CheckFails(c)
  BY <1>1, <1>21, UnwindType DEF CheckFails, StoreTypeOK, database, counted
<1> QED
  BY <1>6, <1>10, <1>11, <1>12, <1>13, <1>14, <1>15, <1>16, <1>17, <1>18, <1>19, <1>20, <1>21
     DEF CallerStep

\* The steps of the process.
LEMMA ProcessType ==
    ASSUME TypeOK, BootStep \/ Start \/ Stop \/ Halt
    PROVE  TypeOK'
<1> USE DEF TypeOK
<1>1. Boot \in Actors
  BY DEF Actors
<1>2. CASE \E j \in Jobs : Recover(j)
  <2>1. PICK j \in Jobs : Recover(j)
    BY <1>2
  <2>2. "select" \in Pcs /\ "failed" \in Verdicts
    BY DEF Pcs, SharedPcs, Verdicts
  <2>3. ActTypeOK'
    BY <1>1, <2>1, <2>2, LostType DEF Recover, ActTypeOK, At, JobOf
  <2>4. queue' \in [Jobs -> [Kinds -> Nat]]
    <3>1. "fresh" \in Kinds /\ "resume" \in Kinds
      BY DEF Kinds
    <3>2. UNCHANGED queue \/ SendKeyed(j, "resume") \/ SendKeyed(j, "fresh")
      BY <2>1 DEF Recover
    <3> QED
      BY <3>1, <3>2, SendType DEF StoreTypeOK
  <2> QED
    BY <2>1, <2>3, <2>4 DEF Recover, StoreTypeOK, database, counted
<1>3. CASE SharedStep(Boot)
  BY <1>1, <1>3, SharedType
<1>4. CASE Open
  BY <1>4 DEF Open, StoreTypeOK, ActTypeOK, At, JobOf, database, counted
<1>5. CASE Start
  <2>1. assets' \in [Jobs -> Nat] /\ todo' \subseteq Jobs /\ boots' \in Nat
    BY <1>5 DEF Start, StoreTypeOK
  <2> QED
    BY <1>5, <2>1 DEF Start, StoreTypeOK, ActTypeOK, At, JobOf
<1>6. CASE Stop
  <2>1. controller' \in [Jobs -> Actors \cup {None}] /\ aborted' \subseteq Actors
    BY <1>6 DEF Stop, StoreTypeOK
  <2> QED
    BY <1>6, <2>1 DEF Stop, StoreTypeOK, ActTypeOK, At, JobOf, database, counted
<1>7. CASE Halt
  <2>1. ActTypeOK'
    BY <1>7, IdleType DEF Halt, ActTypeOK, At, JobOf
  <2> QED
    BY <1>7, <2>1 DEF Halt, StoreTypeOK, database, counted
<1> QED
  BY <1>2, <1>3, <1>4, <1>5, <1>6, <1>7 DEF BootStep

LEMMA TypeInit == Init => TypeOK
<1> SUFFICES ASSUME Init PROVE TypeOK
  OBVIOUS
<1>1. ActTypeOK
  BY IdleType DEF Init, ActTypeOK, At, JobOf
<1>2. StoreTypeOK
  BY DEF Init, StoreTypeOK, Statuses, Kinds
<1> QED
  BY <1>1, <1>2 DEF TypeOK

LEMMA TypeStep == TypeOK /\ [Next]_vars => TypeOK'
<1> SUFFICES ASSUME TypeOK, [Next]_vars PROVE TypeOK'
  OBVIOUS
<1>1. CASE UNCHANGED vars
  BY <1>1 DEF TypeOK, StoreTypeOK, ActTypeOK, At, JobOf, vars, database, memory, counted
<1>2. CASE Next
  BY <1>2, WorkerType, CallerType, ProcessType DEF Next
<1> QED
  BY <1>1, <1>2

\* Every variable of the engine keeps its type, and an actor that is busy always
\* knows its job: the local record of #process, checkJob and the other methods.
THEOREM TypeCorrect == Spec => []TypeOK
  BY TypeInit, TypeStep, PTL DEF Spec

-----------------------------------------------------------------------------
(* What a move does to the actors.                                          *)

Alone(a) == \A b \in Actors \ {a} : act'[b] = act[b]
Lands(a, p, v) ==
    Alone(a) /\ act'[a].pc = p /\ act'[a].job = JobOf(a) /\ act'[a].verdict = v
Leaves(a) == Alone(a) /\ act'[a] = Idle

LEMMA GotoLands ==
    ASSUME ActTypeOK, NEW a \in Actors, NEW p, Goto(a, p)
    PROVE  Lands(a, p, act[a].verdict)
  BY DEF ActTypeOK, Goto, Move, Local, Lands, Alone, JobOf

LEMMA GotoWithLands ==
    ASSUME ActTypeOK, NEW a \in Actors, NEW p, NEW v, GotoWith(a, p, v)
    PROVE  Lands(a, p, v)
  BY DEF ActTypeOK, GotoWith, Move, Local, Lands, Alone, JobOf

LEMMA RowLands ==
    ASSUME ActTypeOK, NEW a \in Actors, NEW p, NEW f, NEW n,
           Move(a, [act[a] EXCEPT !.pc = p, !.fresh = f, !.mine = n])
    PROVE  Lands(a, p, act[a].verdict)
  BY DEF ActTypeOK, Move, Local, Lands, Alone, JobOf

LEMMA HandleLands ==
    ASSUME ActTypeOK, NEW a \in Actors, NEW p, NEW n,
           Move(a, [act[a] EXCEPT !.pc = p, !.mine = n])
    PROVE  Lands(a, p, act[a].verdict)
  BY DEF ActTypeOK, Move, Local, Lands, Alone, JobOf

LEMMA EntryLands ==
    ASSUME ActTypeOK, NEW a \in Actors, NEW p, NEW n,
           Move(a, [act[a] EXCEPT !.pc = p, !.entry = n])
    PROVE  Lands(a, p, act[a].verdict)
  BY DEF ActTypeOK, Move, Local, Lands, Alone, JobOf

LEMMA IdleLeaves ==
    ASSUME ActTypeOK, NEW a \in Actors, Move(a, Idle)
    PROVE  Leaves(a)
  BY DEF ActTypeOK, Move, Leaves, Alone

LEMMA ThrowLands ==
    ASSUME ActTypeOK, NEW a \in Actors, NEW v, Throw(a, v)
    PROVE  \/ a \in Workers /\ Lands(a, "caught", v)
           \/ a \notin Workers /\ Lands(a, "judge", "failed")
  BY GotoWithLands DEF Throw

LEMMA FinishedLands ==
    ASSUME ActTypeOK, NEW a \in Actors, Finished(a)
    PROVE  (a \in Workers /\ Lands(a, "caught", "stopped")) \/ Leaves(a)
  BY GotoWithLands, IdleLeaves DEF Finished, Unwind

-----------------------------------------------------------------------------
(* No accepted job is forgotten.  A step of one actor keeps the invariant if *)
(* it loses no message, and, when it leaves its job active, still pursues it *)
(* or has sent for it, or did not pursue it before.                          *)

Settles(a) ==
    /\ Alone(a)
    /\ \A j \in Jobs : MessageFor(j) => MessageFor(j)'
    /\ \A j \in Jobs : j # JobOf(a) => status'[j] = status[j]
    /\ \A j \in Jobs : j = JobOf(a) /\ status'[j] \in Active =>
           \/ Pursues(a, j)'
           \/ MessageFor(j)'
           \/ status[j] \in Active /\ ~Pursues(a, j)
           \/ \E b \in Actors \ {a} : Pursues(b, j)
           \/ phase = "stopping"
    /\ UNCHANGED <<phase, todo>>

LEMMA SettlesKeeps ==
    ASSUME NoOrphan, NEW a \in Actors, Settles(a)
    PROVE  NoOrphan'
<1> SUFFICES ASSUME phase' \in {"recovering", "up"}, NEW j \in Jobs, status'[j] \in Active
             PROVE  Pursued(j)' \/ j \in todo'
  BY DEF NoOrphan
<1>1. \A b \in Actors \ {a} : Pursues(b, j) => Pursues(b, j)'
  BY DEF Settles, Alone, Pursues, JobOf, At
<1>2. CASE j # JobOf(a)
  <2>1. ~Pursues(a, j)
    BY <1>2 DEF Pursues
  <2>2. Pursued(j) \/ j \in todo
    BY <1>2 DEF Settles, NoOrphan
  <2> QED
    BY <1>1, <2>1, <2>2 DEF Settles, Pursued
<1>3. CASE j = JobOf(a)
  <2>1. CASE Pursues(a, j)' \/ MessageFor(j)'
    BY <2>1 DEF Pursued
  <2>2. CASE status[j] \in Active /\ ~Pursues(a, j)
    <3>1. Pursued(j) \/ j \in todo
      BY <2>2 DEF Settles, NoOrphan
    <3> QED
      BY <1>1, <2>2, <3>1 DEF Settles, Pursued
  <2>3. CASE \E b \in Actors \ {a} : Pursues(b, j)
    BY <1>1, <2>3 DEF Pursued
  <2> QED
    BY <1>3, <2>1, <2>2, <2>3 DEF Settles
<1> QED
  BY <1>2, <1>3

LEMMA PursuesOn ==
    ASSUME NEW a \in Actors, NEW p, NEW v, Lands(a, p, v), p # "idle",
           \/ a \in Workers
           \/ p \in {"enqueue", "checkWatch", "check", "handoff", "download", "look", "write", "index"}
           \/ p \in {"judge", "select", "record", "commit"} /\ v # "withdrawn"
    PROVE  \A j \in Jobs : j = JobOf(a) => Pursues(a, j)'
  BY DEF Lands, Pursues, JobOf, At

LEMMA LandsAlone ==
    ASSUME NEW a \in Actors, NEW p, NEW v, Lands(a, p, v) \/ Leaves(a)
    PROVE  Alone(a)
  BY DEF Lands, Leaves

\* Most steps touch neither the messages nor anybody's status, and go on.
LEMMA GoesOn ==
    ASSUME NEW a \in Actors, NEW p, NEW v, Lands(a, p, v), p # "idle",
           UNCHANGED <<queue, status, phase, todo>>,
           \/ a \in Workers
           \/ p \in {"enqueue", "checkWatch", "check", "handoff", "download", "look", "write", "index"}
           \/ p \in {"judge", "select", "record", "commit"} /\ v # "withdrawn"
           \/ \A j \in Jobs : ~Pursues(a, j)
    PROVE  Settles(a)
<1>1. \A j \in Jobs : j = JobOf(a) => Pursues(a, j)' \/ ~Pursues(a, j)
  BY PursuesOn
<1> QED
  BY <1>1, LandsAlone DEF Settles, MessageFor

LEMMA SharedSettles ==
    ASSUME TypeOK, NEW a \in Actors, SharedStep(a)
    PROVE  Settles(a)
<1> USE DEF TypeOK
<1>1. ASSUME NEW v \in Verdicts, Throw(a, v), UNCHANGED <<queue, status, phase, todo>> PROVE Settles(a)
  BY <1>1, ThrowLands, GoesOn
<1>2. CASE Download(a)
  BY <1>1, <1>2, GotoLands, GoesOn DEF Download, Verdicts
<1>3. CASE Look(a)
  BY <1>3, GotoLands, GotoWithLands, GoesOn DEF Look, database, memory
<1>4. CASE Write(a)
  BY <1>4, GotoLands, GoesOn DEF Write, memory
<1>5. CASE Index(a)
  BY <1>5, GotoWithLands, GoesOn DEF Index, memory
<1>6. CASE FinalizeFails(a)
  BY <1>1, <1>6 DEF FinalizeFails, Verdicts, memory
<1>7. CASE Judge(a)
  <2>1. CASE status[JobOf(a)] \in Terminal /\ Finished(a)
    BY <1>7, <2>1, FinishedLands, LandsAlone
       DEF Judge, Settles, MessageFor, Terminal, Active, database
  <2>2. CASE Goto(a, "select")
    <3>1. Lands(a, "select", act[a].verdict)
      BY <2>2, GotoLands
    <3>2. a \in Workers \/ act[a].verdict # "withdrawn" \/ \A j \in Jobs : ~Pursues(a, j)
      BY <1>7 DEF Judge, At, Pursues
    <3> QED
      BY <1>7, <3>1, <3>2, GoesOn DEF Judge, database
  <2> QED
    BY <1>7, <2>1, <2>2 DEF Judge
<1>8. CASE Select(a)
  <2>1. Lands(a, "record", act[a].verdict)
    BY <1>8, EntryLands DEF Select
  <2>2. a \in Workers \/ act[a].verdict # "withdrawn" \/ \A j \in Jobs : ~Pursues(a, j)
    BY <1>8 DEF Select, At, Pursues
  <2> QED
    BY <1>8, <2>1, <2>2, GoesOn DEF Select, database, memory
<1>9. CASE Record(a)
  BY <1>9, GotoLands, GoesOn DEF Record, memory
<1>10. CASE Commit(a)
  <2>1. StatusOf(act[a].verdict) \in Terminal
    BY StatusType DEF ActTypeOK, Local
  <2>2. \A j \in Jobs : j # JobOf(a) => status'[j] = status[j]
    BY <1>10 DEF Commit, StoreTypeOK
  <2>3. \A j \in Jobs : j = JobOf(a) => status'[j] \in Terminal
    BY <1>10, <2>1 DEF Commit, StoreTypeOK
  <2>4. Alone(a)
    BY <1>10, FinishedLands, LandsAlone DEF Commit
  <2> QED
    BY <1>10, <2>2, <2>3, <2>4 DEF Commit, Settles, MessageFor, Terminal, Active
<1> QED
  BY <1>2, <1>3, <1>4, <1>5, <1>6, <1>7, <1>8, <1>9, <1>10 DEF SharedStep

\* A message more is not a message less.
LEMMA SendKeeps ==
    ASSUME StoreTypeOK, NEW j \in Jobs, NEW k \in Kinds,
           SendKeyed(j, k) \/ queue' = [queue EXCEPT ![j][k] = @ + 1]
    PROVE  MessageFor(j)' /\ \A i \in Jobs : MessageFor(i) => MessageFor(i)'
<1>1. \A i \in Jobs, m \in Kinds : queue[i][m] \in Nat
  BY DEF StoreTypeOK
<1>2. CASE queue' = [queue EXCEPT ![j][k] = @ + 1]
  <2>1. queue'[j][k] = queue[j][k] + 1
    BY <1>2 DEF StoreTypeOK
  <2>2. \A i \in Jobs, m \in Kinds : queue[i][m] > 0 => queue'[i][m] > 0
    BY <1>1, <1>2 DEF StoreTypeOK
  <2> QED
    BY <1>1, <2>1, <2>2 DEF MessageFor
<1>3. CASE queue[j][k] > 0 /\ UNCHANGED queue
  BY <1>3 DEF MessageFor
<1> QED
  BY <1>2, <1>3 DEF SendKeyed

LEMMA UnwindLeaves ==
    ASSUME ActTypeOK, NEW a \in Actors, Unwind(a)
    PROVE  Leaves(a)
  BY IdleLeaves DEF Unwind

\* A step whose job is no longer active, or that runs in a stopping process.
LEMMA Abandons ==
    ASSUME NEW a \in Actors, Alone(a), UNCHANGED <<queue, status, phase, todo>>,
           phase = "stopping" \/ JobOf(a) \notin Jobs \/ status[JobOf(a)] \notin Active
    PROVE  Settles(a)
  BY DEF Settles, MessageFor

\* A step that sends for the job and changes no status.
LEMMA Sends ==
    ASSUME StoreTypeOK, NEW a \in Actors, Alone(a), JobOf(a) \in Jobs,
           UNCHANGED <<status, phase, todo>>, NEW k \in Kinds,
           SendKeyed(JobOf(a), k) \/ queue' = [queue EXCEPT ![JobOf(a)][k] = @ + 1]
    PROVE  Settles(a)
  BY SendKeeps DEF Settles

\* A step that changes the status of the actor's own job, and goes on with it.
LEMMA Updates ==
    ASSUME NEW a \in Actors, NEW p, NEW v, NEW s, Lands(a, p, v), p # "idle",
           status' = [status EXCEPT ![JobOf(a)] = s], StoreTypeOK,
           UNCHANGED <<queue, phase, todo>>,
           \/ a \in Workers
           \/ p \in {"enqueue", "checkWatch", "check", "handoff", "download", "look", "write", "index"}
    PROVE  Settles(a)
<1>1. \A j \in Jobs : j = JobOf(a) => Pursues(a, j)'
  BY PursuesOn
<1>2. \A j \in Jobs : j # JobOf(a) => status'[j] = status[j]
  BY DEF StoreTypeOK
<1> QED
  BY <1>1, <1>2, LandsAlone DEF Settles, MessageFor

LEMMA WorkerSettles ==
    ASSUME TypeOK, NEW w \in Workers, WorkerStep(w) \/ PollAgain(w)
    PROVE  Settles(w) \/ UNCHANGED <<queue, status, phase, todo, act>>
<1> USE DEF TypeOK
<1> DEFINE j == JobOf(w)
<1>1. w \in Actors
  BY DEF Actors
<1>2. CASE LoadSettled(w)
  BY <1>1, <1>2, UnwindLeaves, LandsAlone, Abandons DEF LoadSettled, Terminal, Active, database
<1>3. CASE Load(w)
  BY <1>1, <1>3, RowLands, GoesOn DEF Load, database, memory
<1>4. CASE TakeTurn(w)
  BY <1>1, <1>4, GotoLands, GoesOn DEF TakeTurn, database, memory
<1>5. CASE Hold(w)
  BY <1>1, <1>5, GotoLands, GoesOn DEF Hold, memory
<1>6. CASE HoldSend(w)
  BY <1>1, <1>6, Busy, UnwindLeaves, LandsAlone, Sends DEF HoldSend, Kinds, database
<1>7. CASE SetupFails(w)
  BY <1>1, <1>7, GotoWithLands, GoesOn DEF SetupFails, database, memory
<1>8. CASE Setup(w)
  BY <1>1, <1>8, GotoLands, GoesOn DEF Setup, database
<1>9. CASE Claim(w)
  BY <1>1, <1>9, HandleLands, Updates DEF Claim, memory
<1>10. CASE SubmitAccepted(w)
  BY <1>1, <1>10, HandleLands, GoesOn DEF SubmitAccepted, Submitting
<1>11. CASE SubmitRefused(w)
  BY <1>1, <1>11, GotoWithLands, GoesOn DEF SubmitRefused, Submitting
<1>12. CASE SubmitLost(w)
  BY <1>1, <1>12, GotoWithLands, GoesOn DEF SubmitLost, Submitting
<1>13. CASE SubmitUnreachable(w)
  BY <1>1, <1>13, GotoWithLands, GoesOn DEF SubmitUnreachable, Submitting
<1>14. CASE Persist(w)
  BY <1>1, <1>14, GotoLands, GoesOn DEF Persist, memory
<1>15. CASE Poll(w)
  BY <1>1, <1>15, GotoLands, GotoWithLands, GoesOn DEF Poll, database
<1>16. CASE PollThrows(w)
  BY <1>1, <1>16, GotoWithLands, GoesOn DEF PollThrows, database, memory
<1>17. CASE PollAgain(w)
  BY <1>17 DEF PollAgain, database
<1>18. CASE Caught(w)
  <2>1. CASE Goto(w, "requeue") \/ Goto(w, "select")
    BY <1>1, <1>18, <2>1, GotoLands, GoesOn DEF Caught, database
  <2>2. CASE Unwind(w) /\ (phase = "stopping" \/ status[j] \in Terminal)
    BY <1>1, <1>18, <2>2, UnwindLeaves, LandsAlone, Abandons DEF Caught, Terminal, Active, database
  <2> QED
    BY <1>18, <2>1, <2>2 DEF Caught, Terminal
<1>19. CASE Requeue(w)
  BY <1>1, <1>19, GotoLands, Updates DEF Requeue, memory
<1>20. CASE SharedStep(w)
  BY <1>1, <1>20, SharedSettles
<1> QED
  BY <1>2, <1>3, <1>4, <1>5, <1>6, <1>7, <1>8, <1>9, <1>10, <1>11, <1>12, <1>13, <1>14, <1>15,
     <1>16, <1>17, <1>18, <1>19, <1>20 DEF WorkerStep

LEMMA CallerSettles ==
    ASSUME TypeOK, NEW c \in Callers, CallerStep(c), "staging" \notin Faults
    PROVE  Settles(c)
<1> USE DEF TypeOK
<1>1. c \in Actors /\ c \notin Workers
  BY ActorsAssumption DEF Actors
<1>2. CASE Reserve(c)
  <2>1. CASE Goto(c, "enqueue") /\ status' = [status EXCEPT ![JobOf(c)] = "queued"]
    BY <1>1, <1>2, <2>1, GotoLands, Updates DEF Reserve, memory
  <2>2. CASE Move(c, Idle) /\ UNCHANGED status
    <3>1. \A j \in Jobs : ~Pursues(c, j)
      BY <1>1, <1>2 DEF Reserve, Pursues, At
    <3> QED
      BY <1>1, <1>2, <2>2, <3>1, IdleLeaves, LandsAlone DEF Reserve, Settles, MessageFor, memory
  <2> QED
    BY <1>2, <2>1, <2>2 DEF Reserve
<1>3. CASE RetryWrite(c)
  BY <1>1, <1>3, GotoLands, Updates DEF RetryWrite, memory
<1>4. CASE Enqueue(c)
  BY <1>1, <1>4, Busy, IdleLeaves, LandsAlone, Sends DEF Enqueue, Return, Kinds, database
<1>5. CASE CancelWrite(c)
  <2>1. PICK p \in {"cancelAsk", "select"} : GotoWith(c, p, "withdrawn")
    BY <1>5 DEF CancelWrite
  <2>2. Alone(c)
    BY <1>1, <2>1, GotoWithLands, LandsAlone
  <2>3. \A j \in Jobs : status'[j] = IF j = JobOf(c) THEN "cancelled" ELSE status[j]
    BY <1>5 DEF CancelWrite, StoreTypeOK
  <2> QED
    BY <1>5, <2>2, <2>3 DEF CancelWrite, Settles, MessageFor, Active
<1>6. CASE CancelAsk(c)
  <2>1. \A j \in Jobs : ~Pursues(c, j)
    BY <1>1, <1>6 DEF CancelAsk, Pursues, At
  <2>2. Alone(c)
    BY <1>1, <1>6, GotoLands, IdleLeaves, LandsAlone DEF CancelAsk, Return
  <2> QED
    BY <1>6, <2>1, <2>2 DEF CancelAsk, Settles, MessageFor, database
<1>7. CASE CancelRecord(c)
  <2>1. \A j \in Jobs : ~Pursues(c, j)
    BY <1>1, <1>7 DEF CancelRecord, Pursues, At
  <2>2. Alone(c)
    BY <1>1, <1>7, IdleLeaves, LandsAlone DEF CancelRecord, Return
  <2> QED
    BY <1>7, <2>1, <2>2 DEF CancelRecord, Settles, MessageFor
<1>8. CASE CheckClaim(c)
  BY <1>1, <1>8, GotoLands, Updates DEF CheckClaim, memory
<1>9. CASE CheckWatch(c)
  BY <1>1, <1>9, GotoLands, GoesOn DEF CheckWatch, database
<1>10. CASE CheckPoll(c)
  BY <1>1, <1>10, GotoLands, GotoWithLands, GoesOn DEF CheckPoll, database
<1>11. CASE CheckThrows(c)
  BY <1>1, <1>11, ThrowLands, GoesOn DEF CheckThrows, database
<1>12. CASE Handoff(c)
  BY <1>1, <1>12, Busy, UnwindLeaves, LandsAlone, Sends DEF Handoff, Kinds, database
<1>13. CASE SharedStep(c)
  BY <1>1, <1>13, SharedSettles
<1>14. CASE CheckFails(c)
  <2>1. Alone(c)
    BY <1>1, <1>14, UnwindLeaves, LandsAlone DEF CheckFails
  <2>2. \E b \in Actors \ {c} : Pursues(b, JobOf(c))
    BY <1>14 DEF CheckFails
  <2> QED
    BY <1>14, <2>1, <2>2 DEF CheckFails, Settles, MessageFor, database
<1> QED
  BY <1>2, <1>3, <1>4, <1>5, <1>6, <1>7, <1>8, <1>9, <1>10, <1>11, <1>12, <1>13, <1>14 DEF CallerStep

\* An idle actor that takes a job up cannot lose anybody else's.
LEMMA BeginKeeps ==
    ASSUME TypeOK, NoOrphan, NEW c \in Callers, CallerBegins(c)
    PROVE  NoOrphan'
<1>1. c \in Actors /\ c \notin Workers
  BY ActorsAssumption DEF Actors
<1>2. PICK i \in Jobs : \E op, p : Begin(c, i, op, p)
  BY Zenon DEF CallerBegins, Create, Retry, Cancel, Check
<1>3. \A j \in Jobs : ~Pursues(c, j)
  BY <1>1, <1>2 DEF Begin, At, Pursues
<1>4. \A b \in Actors \ {c} : act'[b] = act[b]
  BY <1>1, <1>2 DEF Begin, Move, TypeOK, ActTypeOK
<1>5. \A j \in Jobs : Pursued(j) => Pursued(j)'
  BY <1>2, <1>3, <1>4 DEF Begin, Pursued, Pursues, MessageFor, JobOf, At
<1> QED
  BY <1>2, <1>5 DEF Begin, NoOrphan, database, memory

\* A worker takes the message and the job with it.
LEMMA FetchKeeps ==
    ASSUME TypeOK, NoOrphan, NEW w \in Workers, NEW i \in Jobs, Fetch(w, i)
    PROVE  NoOrphan'
<1>1. w \in Actors
  BY DEF Actors
<1>2. PICK k \in Kinds :
          /\ queue' = [queue EXCEPT ![i][k] = @ - 1]
          /\ Move(w, [act[w] EXCEPT !.pc = "load", !.job = i, !.fresh = (k # "resume")])
  BY DEF Fetch
<1>3. \A b \in Actors \ {w} : act'[b] = act[b]
  BY <1>1, <1>2 DEF Move, TypeOK, ActTypeOK
<1>4. Pursues(w, i)'
  BY <1>1, <1>2 DEF Move, TypeOK, ActTypeOK, Local, Pursues, JobOf, At
<1>5. \A j \in Jobs : ~Pursues(w, j)
  BY ActorsAssumption DEF Fetch, Pursues, At
<1>6. \A j \in Jobs \ {i} : queue'[j] = queue[j]
  BY <1>2 DEF TypeOK, StoreTypeOK
<1>7. \A j \in Jobs \ {i} : Pursued(j) => Pursued(j)'
  BY <1>3, <1>5, <1>6 DEF Pursued, Pursues, MessageFor, JobOf, At
<1>8. Pursued(i)'
  BY <1>1, <1>4 DEF Pursued
<1> QED
  BY <1>7, <1>8 DEF Fetch, NoOrphan, database, memory

\* #recover leaves a row only after it has failed it or queued it again.
LEMMA RecoverKeeps ==
    ASSUME TypeOK, NoOrphan, NEW i \in Jobs, Recover(i)
    PROVE  NoOrphan'
<1>1. Boot \in Actors /\ Boot \notin Workers
  BY ActorsAssumption DEF Actors
<1>2. \A b \in Actors \ {Boot} : act'[b] = act[b]
  BY <1>1 DEF Recover, Move, TypeOK, ActTypeOK
<1>3. \A j \in Jobs : ~Pursues(Boot, j)
  BY <1>1 DEF Recover, Pursues, At
<1>4. (\A j \in Jobs : MessageFor(j) => MessageFor(j)') /\ Pursued(i)'
  <2>1. CASE SendKeyed(i, "resume") \/ SendKeyed(i, "fresh")
    <3>1. "resume" \in Kinds /\ "fresh" \in Kinds
      BY DEF Kinds
    <3> QED
      BY <2>1, <3>1, SendKeeps DEF TypeOK, Pursued
  <2>2. CASE UNCHANGED queue /\ Move(Boot, [act[Boot] EXCEPT !.pc = "select", !.job = i, !.verdict = "failed"])
    <3>1. Pursues(Boot, i)'
      BY <1>1, <2>2 DEF Move, TypeOK, ActTypeOK, Local, Pursues, JobOf
    <3> QED
      BY <1>1, <2>2, <3>1 DEF Pursued, MessageFor
  <2> QED
    BY <2>1, <2>2 DEF Recover
<1>5. \A j \in Jobs : Pursued(j) => Pursued(j)'
  BY <1>2, <1>3, <1>4 DEF Pursued, Pursues, JobOf, At
<1> QED
  BY <1>4, <1>5 DEF Recover, NoOrphan, database

LEMMA NoOrphanInit == Init => NoOrphan
  BY DEF Init, NoOrphan

LEMMA NoOrphanStep ==
    "staging" \notin Faults /\ TypeOK /\ NoOrphan /\ [Next]_vars => NoOrphan'
<1> SUFFICES ASSUME "staging" \notin Faults, TypeOK, NoOrphan, [Next]_vars PROVE NoOrphan'
  OBVIOUS
<1>1. CASE UNCHANGED <<queue, status, phase, todo, act>>
  BY <1>1 DEF NoOrphan, Pursued, Pursues, MessageFor, JobOf, At
<1>2. Boot \in Actors /\ Workers \subseteq Actors /\ Callers \subseteq Actors
  BY DEF Actors
<1>3. ASSUME NEW w \in Workers, WorkerStep(w) \/ PollAgain(w) PROVE NoOrphan'
  BY <1>1, <1>2, <1>3, WorkerSettles, SettlesKeeps
<1>4. ASSUME NEW c \in Callers, CallerStep(c) PROVE NoOrphan'
  BY <1>2, <1>4, CallerSettles, SettlesKeeps
<1>5. CASE BootStep
  <2>1. CASE Open
    BY <2>1 DEF Open, NoOrphan, Pursued, Pursues, MessageFor, JobOf, At, database
  <2> QED
    BY <1>2, <1>5, <2>1, RecoverKeeps, SharedSettles, SettlesKeeps DEF BootStep
<1>6. CASE Start
  BY <1>6 DEF Start, NoOrphan
<1>7. CASE Stop \/ Halt
  BY <1>7 DEF Stop, Halt, NoOrphan
<1>8. CASE UNCHANGED vars
  BY <1>1, <1>8 DEF vars, database, memory
<1> QED
  BY <1>3, <1>4, <1>5, <1>6, <1>7, <1>8, BeginKeeps, FetchKeeps DEF Next

\* No accepted job is forgotten, for any number of jobs, workers, callers and
\* restarts: a queued or running job has a message, somebody who drives it, or its
\* turn in #recover still to come.  The one fault it excludes is the one that
\* breaks it: the staging directory of checkJob.
THEOREM NoJobOrphaned == ASSUME "staging" \notin Faults PROVE Spec => []NoOrphan
<1>1. Spec => []TypeOK
  BY TypeCorrect
<1>2. TypeOK /\ NoOrphan /\ [Next]_vars => NoOrphan'
  BY NoOrphanStep
<1> QED
  BY <1>1, <1>2, NoOrphanInit, PTL DEF Spec

-----------------------------------------------------------------------------
(* Nothing settles before it is recorded.  The invariant adds to the two     *)
(* properties what the steps on the way to a settled status have done: the   *)
(* file before the asset, the asset before a completion is recorded, the     *)
(* ledger row before the status.                                             *)

Paid == {"completed", "failed", "moderated"}

Backed(a) ==
    /\ At(a, "idle") => act[a] = Idle
    /\ At(a, "index") => files[JobOf(a)] > 0
    /\ act[a].verdict = "completed" =>
           act[a].pc \in {"select", "record", "commit"} /\ assets[JobOf(a)] > 0
    /\ At(a, "record") /\ act[a].entry # 0 => ledger[JobOf(a)] # <<>>
    /\ At(a, "commit") => ledger[JobOf(a)] # <<>>

Booked(j) ==
    /\ assets[j] > 0 => files[j] > 0
    /\ status[j] = "completed" => assets[j] > 0
    /\ status[j] \in Paid => ledger[j] # <<>>

Recorded == (\A a \in Actors : Backed(a)) /\ (\A j \in Jobs : Booked(j))

LEMMA RecordedImplies == Recorded => SettledHasLedger /\ CompletedHasAsset
  BY DEF Recorded, Booked, Paid, SettledHasLedger, CompletedHasAsset

\* A step that records nothing and settles nothing.
LEMMA QuietStep ==
    ASSUME TypeOK, Recorded, NEW a \in Actors, NEW p, NEW v, NEW s,
           \/ /\ Lands(a, p, v)
              /\ p \notin {"idle", "index", "record", "commit"} /\ v # "completed"
           \/ Leaves(a),
           UNCHANGED <<ledger, assets, files>>,
           status' = status \/ (status' = [status EXCEPT ![JobOf(a)] = s] /\ s \notin Paid)
    PROVE  Recorded'
<1>1. Backed(a)'
  BY IdleType DEF Lands, Leaves, Backed, At, Idle
<1>2. \A b \in Actors \ {a} : Backed(b)'
  BY LandsAlone DEF Alone, Recorded, Backed, At, JobOf
<1>3. \A j \in Jobs : Booked(j)'
  BY DEF Recorded, Booked, Paid, TypeOK, StoreTypeOK
<1> QED
  BY <1>1, <1>2, <1>3 DEF Recorded

\* A step that queues, claims or cancels its job, and goes on.
LEMMA Unsettles ==
    ASSUME TypeOK, Recorded, NEW a \in Actors, NEW p, NEW v, NEW s \in {"queued", "running", "cancelled"},
           Lands(a, p, v), p \notin {"idle", "index", "record", "commit"}, v # "completed",
           UNCHANGED <<ledger, assets, files>>,
           status' = [status EXCEPT ![JobOf(a)] = s]
    PROVE  Recorded'
<1>1. s \notin Paid
  BY DEF Paid
<1> QED
  BY <1>1, QuietStep

\* A step of an actor that leaves the Library, the ledger and every status alone
\* but its own place.
LEMMA Elsewhere ==
    ASSUME TypeOK, Recorded, NEW a \in Actors, NEW p, NEW v,
           Lands(a, p, v), p \notin {"idle", "index", "record", "commit"}, v # "completed",
           UNCHANGED <<status, ledger, assets, files>>
    PROVE  Recorded'
  BY QuietStep

LEMMA Away ==
    ASSUME TypeOK, Recorded, NEW a \in Actors, Leaves(a), UNCHANGED <<status, ledger, assets, files>>
    PROVE  Recorded'
  BY QuietStep

\* #recordLedger leaves its job with a row, and the other jobs alone.
LEMMA LedgerGrows ==
    ASSUME TypeOK, NEW a \in Actors, Backed(a), At(a, "record"), JobOf(a) \in Jobs, WriteLedger(a)
    PROVE  \A i \in Jobs : ledger'[i] # <<>> \/ (i # JobOf(a) /\ ledger'[i] = ledger[i])
<1> DEFINE j == JobOf(a)
           c == ChargeOf(act[a].verdict)
           e == act[a].entry
           row == IF e = 0 THEN Append(ledger[j], c) ELSE [ledger[j] EXCEPT ![e] = c]
<1>1. ledger[j] \in Seq(Charges)
  BY DEF TypeOK, StoreTypeOK
<1>2. c \in Charges
  BY DEF ChargeOf, Charges
<1>3. e # 0 => ledger[j] # <<>>
  BY DEF Backed
<1> HIDE DEF c, e
<1>4. row # <<>>
  <2>1. CASE e = 0
    BY <1>1, <1>2, <2>1
  <2>2. CASE e # 0
    <3>1. row = [ledger[j] EXCEPT ![e] = c] /\ DOMAIN row = DOMAIN ledger[j]
      BY <2>2
    <3>2. 1 \in DOMAIN ledger[j]
      BY <1>1, <1>3, <2>2
    <3>3. DOMAIN <<>> = {}
      OBVIOUS
    <3> QED
      BY <3>1, <3>2, <3>3
  <2> QED
    BY <2>1, <2>2
<1>5. ledger' = [ledger EXCEPT ![j] = row]
  BY DEF WriteLedger, c, e
<1> HIDE DEF row
<1> QED
  BY <1>4, <1>5 DEF TypeOK, StoreTypeOK

LEMMA SharedRecords ==
    ASSUME TypeOK, Recorded, NEW a \in Actors, SharedStep(a)
    PROVE  Recorded'
<1> USE DEF TypeOK
<1> DEFINE j == JobOf(a)
<1>1. j \in Jobs
  BY Busy DEF SharedStep, Download, Look, Write, Index, FinalizeFails, Judge, Select, Record, Commit
<1>2. Backed(a) /\ Booked(j)
  BY <1>1 DEF Recorded
<1>3. ASSUME NEW v \in Verdicts \ {"completed"}, Throw(a, v), UNCHANGED <<status, ledger, assets, files>>
      PROVE  Recorded'
  BY <1>3, ThrowLands, Elsewhere
<1>4. CASE Download(a)
  BY <1>2, <1>3, <1>4, GotoLands, Elsewhere DEF Download, Verdicts, Backed, At
<1>5. CASE Look(a)
  <2>1. CASE assets[j] > 0
    <3>1. Lands(a, "select", "completed")
      BY <1>5, <2>1, GotoWithLands DEF Look
    <3>2. Backed(a)'
      BY <1>5, <2>1, <3>1 DEF Look, Lands, Backed, At, JobOf, database
    <3>3. \A b \in Actors \ {a} : Backed(b)'
      BY <1>5, <3>1 DEF Look, Lands, Alone, Recorded, Backed, At, JobOf, database
    <3> QED
      BY <1>5, <3>2, <3>3 DEF Look, Recorded, Booked, database
  <2>2. CASE ~(assets[j] > 0)
    BY <1>2, <1>5, <2>2, GotoLands, Elsewhere DEF Look, Backed, At, database
  <2> QED
    BY <2>1, <2>2
<1>6. CASE Write(a)
  <2>1. Lands(a, "index", act[a].verdict)
    BY <1>6, GotoLands DEF Write
  <2>2. \A i \in Jobs : files'[i] = IF i = j THEN files[i] + 1 ELSE files[i]
    BY <1>6 DEF Write, StoreTypeOK
  <2>3. \A i \in Jobs : files[i] \in Nat
    BY DEF StoreTypeOK
  <2>4. files'[j] > 0 /\ \A i \in Jobs : files[i] > 0 => files'[i] > 0
    BY <1>1, <2>2, <2>3
  <2>5. Backed(a)'
    BY <1>2, <1>6, <2>1, <2>4 DEF Write, Lands, Backed, At, JobOf
  <2>6. \A b \in Actors \ {a} : Backed(b)'
    BY <1>6, <2>1, <2>4 DEF Write, Lands, Alone, Recorded, Backed, At, JobOf, ActTypeOK
  <2>7. \A i \in Jobs : Booked(i)'
    BY <1>6, <2>4 DEF Write, Recorded, Booked
  <2> QED
    BY <2>5, <2>6, <2>7 DEF Recorded
<1>7. CASE Index(a)
  <2>1. Lands(a, "select", "completed")
    BY <1>7, GotoWithLands DEF Index
  <2>2. \A i \in Jobs : assets'[i] = IF i = j THEN assets[i] + 1 ELSE assets[i]
    BY <1>7 DEF Index, StoreTypeOK
  <2>3. \A i \in Jobs : assets[i] \in Nat
    BY DEF StoreTypeOK
  <2>4. assets'[j] > 0 /\ (\A i \in Jobs : assets[i] > 0 => assets'[i] > 0)
    BY <1>1, <2>2, <2>3
  <2>5. \A i \in Jobs \ {j} : assets'[i] = assets[i]
    BY <2>2
  <2>6. Backed(a)'
    BY <2>1, <2>4 DEF Lands, Backed, At, JobOf
  <2>7. \A b \in Actors \ {a} : Backed(b)'
    <3> SUFFICES ASSUME NEW b \in Actors \ {a} PROVE Backed(b)'
      OBVIOUS
    <3>1. act'[b] = act[b] /\ Backed(b)
      BY <2>1 DEF Lands, Alone, Recorded
    <3>2. act[b].verdict = "completed" => JobOf(b) \in Jobs
      BY <3>1 DEF Backed, ActTypeOK, At
    <3> QED
      BY <1>7, <2>4, <3>1, <3>2 DEF Index, Backed, At, JobOf
  <2>8. files[j] > 0
    BY <1>2, <1>7 DEF Index, Backed
  <2>9. \A i \in Jobs : Booked(i)'
    BY <1>7, <2>4, <2>5, <2>8 DEF Index, Recorded, Booked
  <2> QED
    BY <2>6, <2>7, <2>9 DEF Recorded
<1>8. CASE FinalizeFails(a)
  <2>1. CASE assets' = assets
    BY <1>3, <1>8, <2>1 DEF FinalizeFails, Verdicts
  <2>2. CASE At(a, "index") /\ assets' = [assets EXCEPT ![j] = @ + 1]
    <3>1. \A i \in Jobs : (assets[i] > 0 => assets'[i] > 0) /\ (i # j => assets'[i] = assets[i])
      BY <2>2 DEF StoreTypeOK
    <3>2. \E p \in {"caught", "judge"} : Lands(a, p, "failed")
      BY <1>8, ThrowLands DEF FinalizeFails
    <3>3. Backed(a)'
      BY <3>2 DEF Lands, Backed, At
    <3>4. \A b \in Actors \ {a} : Backed(b)'
      <4> SUFFICES ASSUME NEW b \in Actors \ {a} PROVE Backed(b)'
        OBVIOUS
      <4>1. act'[b] = act[b] /\ Backed(b)
        BY <3>2 DEF Lands, Alone, Recorded
      <4>2. act[b].verdict = "completed" => JobOf(b) \in Jobs
        BY <4>1 DEF Backed, ActTypeOK, At
      <4> QED
        BY <1>8, <3>1, <4>1, <4>2 DEF FinalizeFails, Backed, At, JobOf
    <3>5. files[j] > 0
      BY <1>2, <2>2 DEF Backed
    <3>6. \A i \in Jobs : Booked(i)'
      BY <1>8, <3>1, <3>5 DEF FinalizeFails, Recorded, Booked
    <3> QED
      BY <3>3, <3>4, <3>6 DEF Recorded
  <2> QED
    BY <1>8, <2>1, <2>2 DEF FinalizeFails
<1>9. CASE Judge(a)
  <2>1. act[a].verdict # "completed"
    BY <1>2, <1>9 DEF Judge, Backed, At
  <2> QED
    BY <1>9, <2>1, FinishedLands, GotoLands, Elsewhere, Away DEF Judge, database
<1>10. CASE Select(a)
  <2>1. Lands(a, "record", act[a].verdict)
    BY <1>10, EntryLands DEF Select
  <2>2. Backed(a)'
    <3>1. PICK e \in 0 .. Len(ledger[j]) :
              (e = 0 <=> Len(ledger[j]) = 0) /\ act'[a].entry = e
      BY <1>10 DEF Select, Move, ActTypeOK, Local
    <3>2. e # 0 => ledger[j] # <<>>
      BY <3>1
    <3> QED
      BY <1>2, <1>10, <2>1, <3>1, <3>2 DEF Select, Lands, Backed, At, JobOf, database
  <2>3. \A b \in Actors \ {a} : Backed(b)'
    BY <1>10, <2>1 DEF Select, Lands, Alone, Recorded, Backed, At, JobOf, database
  <2> QED
    BY <1>10, <2>2, <2>3 DEF Select, Recorded, Booked, database
<1>12. CASE Record(a)
  <2>1. Lands(a, "commit", act[a].verdict)
    BY <1>12, GotoLands DEF Record
  <2>2. \A i \in Jobs : ledger'[i] # <<>> \/ (i # j /\ ledger'[i] = ledger[i])
    BY <1>1, <1>2, <1>12, LedgerGrows DEF Record
  <2>3. Backed(a)'
    BY <1>1, <1>2, <1>12, <2>1, <2>2 DEF Record, Lands, Backed, At, JobOf
  <2>4. \A b \in Actors \ {a} : Backed(b)'
    <3> SUFFICES ASSUME NEW b \in Actors \ {a} PROVE Backed(b)'
      OBVIOUS
    <3>1. act'[b] = act[b] /\ Backed(b)
      BY <2>1 DEF Lands, Alone, Recorded
    <3>2. At(b, "record") \/ At(b, "commit") => JobOf(b) \in Jobs
      BY DEF ActTypeOK, At
    <3> QED
      BY <1>12, <2>2, <3>1, <3>2 DEF Record, Backed, At, JobOf
  <2>5. \A i \in Jobs : Booked(i)'
    BY <1>12, <2>2 DEF Record, Recorded, Booked
  <2> QED
    BY <2>3, <2>4, <2>5 DEF Recorded
<1>13. CASE Commit(a)
  <2>1. Alone(a) /\ Backed(a)'
    <3>1. CASE Lands(a, "caught", "stopped")
      BY <3>1 DEF Lands, Backed, At
    <3>2. CASE Leaves(a)
      BY <3>2 DEF Leaves, Backed, At, Idle
    <3> QED
      BY <1>13, <3>1, <3>2, FinishedLands DEF Commit
  <2>2. \A b \in Actors \ {a} : Backed(b)'
    BY <1>13, <2>1 DEF Commit, Alone, Recorded, Backed, At, JobOf
  <2>3. \A i \in Jobs : status'[i] = IF i = j THEN StatusOf(act[a].verdict) ELSE status[i]
    BY <1>13 DEF Commit, StoreTypeOK
  <2>4. StatusOf(act[a].verdict) = "completed" => act[a].verdict = "completed"
    BY DEF StatusOf
  <2>5. ASSUME NEW i \in Jobs, i = j PROVE Booked(i)'
    BY <1>2, <1>13, <2>3, <2>4, <2>5 DEF Commit, Booked, Backed, At
  <2>6. \A i \in Jobs \ {j} : Booked(i)'
    BY <1>13, <2>3 DEF Commit, Recorded, Booked
  <2> QED
    BY <2>1, <2>2, <2>5, <2>6 DEF Recorded
<1> QED
  BY <1>4, <1>5, <1>6, <1>7, <1>8, <1>9, <1>10, <1>12, <1>13 DEF SharedStep

LEMMA WorkerRecords ==
    ASSUME TypeOK, Recorded, NEW w \in Workers, WorkerStep(w) \/ PollAgain(w)
    PROVE  Recorded'
<1> USE DEF TypeOK
<1> DEFINE j == JobOf(w)
<1>1. w \in Actors /\ Backed(w)
  BY DEF Actors, Recorded
<1>2. act[w].pc \notin {"select", "record", "commit"} => act[w].verdict # "completed"
  BY <1>1 DEF Backed
<1>3. CASE LoadSettled(w)
  BY <1>1, <1>3, UnwindLeaves, Away DEF LoadSettled, database
<1>4. CASE Load(w)
  BY <1>1, <1>2, <1>4, RowLands, Elsewhere DEF Load, At, database
<1>5. CASE TakeTurn(w)
  BY <1>1, <1>2, <1>5, GotoLands, Elsewhere DEF TakeTurn, At, database
<1>6. CASE Hold(w)
  BY <1>1, <1>2, <1>6, GotoLands, Elsewhere DEF Hold, At
<1>7. CASE HoldSend(w)
  BY <1>1, <1>7, UnwindLeaves, Away DEF HoldSend, database
<1>8. CASE SetupFails(w)
  BY <1>1, <1>8, GotoWithLands, Elsewhere DEF SetupFails, database
<1>9. CASE Setup(w)
  BY <1>1, <1>2, <1>9, GotoLands, Elsewhere DEF Setup, At, database
<1>10. CASE Claim(w)
  <2>1. PICK p \in {"poll", "submit"} : Lands(w, p, act[w].verdict)
    BY <1>1, <1>10, HandleLands DEF Claim
  <2>2. act[w].verdict # "completed"
    BY <1>2, <1>10 DEF Claim, At
  <2>3. CASE status[j] = "queued"
    BY <1>1, <1>10, <2>1, <2>2, <2>3, Unsettles DEF Claim
  <2>4. CASE status[j] # "queued"
    <3>1. status' = status
      BY <1>10, <2>4 DEF Claim, StoreTypeOK
    <3> QED
      BY <1>1, <1>10, <2>1, <2>2, <3>1, Elsewhere DEF Claim
  <2> QED
    BY <2>3, <2>4
<1>11. CASE SubmitAccepted(w)
  BY <1>1, <1>2, <1>11, HandleLands, Elsewhere DEF SubmitAccepted, Submitting, At
<1>12. CASE SubmitRefused(w)
  BY <1>1, <1>12, GotoWithLands, Elsewhere DEF SubmitRefused, Submitting
<1>13. CASE SubmitLost(w)
  BY <1>1, <1>13, GotoWithLands, Elsewhere DEF SubmitLost, Submitting
<1>14. CASE SubmitUnreachable(w)
  BY <1>1, <1>14, GotoWithLands, Elsewhere DEF SubmitUnreachable, Submitting
<1>15. CASE Persist(w)
  BY <1>1, <1>2, <1>15, GotoLands, Elsewhere DEF Persist, At
<1>16. CASE Poll(w)
  BY <1>1, <1>2, <1>16, GotoLands, GotoWithLands, Elsewhere DEF Poll, At, database
<1>17. CASE PollThrows(w)
  BY <1>1, <1>17, GotoWithLands, Elsewhere DEF PollThrows, database
<1>18. CASE PollAgain(w)
  BY <1>18 DEF PollAgain, Recorded, Backed, Booked, At, JobOf, database
<1>19. CASE Caught(w)
  BY <1>1, <1>2, <1>19, GotoLands, UnwindLeaves, Elsewhere, Away DEF Caught, At, database
<1>20. CASE Requeue(w)
  BY <1>1, <1>2, <1>20, GotoLands, Unsettles DEF Requeue, At
<1>21. CASE SharedStep(w)
  BY <1>1, <1>21, SharedRecords
<1> QED
  BY <1>3, <1>4, <1>5, <1>6, <1>7, <1>8, <1>9, <1>10, <1>11, <1>12, <1>13, <1>14, <1>15, <1>16,
     <1>17, <1>18, <1>19, <1>20, <1>21 DEF WorkerStep

\* An idle actor takes up a job: the place it lands at records nothing.
LEMMA TakesUp ==
    ASSUME TypeOK, Recorded, NEW a \in Actors, NEW l,
           Move(a, l), l.pc \notin {"idle", "index", "record", "commit"}, l.verdict # "completed",
           UNCHANGED <<status, ledger, assets, files>>
    PROVE  Recorded'
<1>1. act'[a] = l /\ Alone(a)
  BY DEF Move, Alone, TypeOK, ActTypeOK
<1>2. Backed(a)'
  BY <1>1 DEF Backed, At
<1>3. \A b \in Actors \ {a} : Backed(b)'
  BY <1>1 DEF Alone, Recorded, Backed, At, JobOf
<1> QED
  BY <1>2, <1>3 DEF Recorded, Booked

LEMMA FetchRecords ==
    ASSUME TypeOK, Recorded, NEW w \in Workers, NEW i \in Jobs, Fetch(w, i)
    PROVE  Recorded'
<1>1. w \in Actors /\ act[w] \in Local /\ act[w].verdict # "completed"
  BY DEF Fetch, Actors, Recorded, Backed, At, Idle, TypeOK, ActTypeOK
<1>2. PICK k \in Kinds : Move(w, [act[w] EXCEPT !.pc = "load", !.job = i, !.fresh = (k # "resume")])
  BY DEF Fetch
<1> DEFINE l == [act[w] EXCEPT !.pc = "load", !.job = i, !.fresh = (k # "resume")]
<1>3. l.pc = "load" /\ l.verdict # "completed"
  BY <1>1 DEF Local
<1> HIDE DEF l
<1>4. Move(w, l)
  BY <1>2 DEF l
<1> QED
  BY <1>1, <1>3, <1>4, TakesUp DEF Fetch, database

LEMMA BeginRecords ==
    ASSUME TypeOK, Recorded, NEW c \in Callers, CallerBegins(c)
    PROVE  Recorded'
<1>1. PICK i \in Jobs : \E op : \E p \in {"reserve", "retryWrite", "cancelWrite", "checkClaim"} : Begin(c, i, op, p)
  BY Zenon DEF CallerBegins, Create, Retry, Cancel, Check
<1>2. PICK p \in {"reserve", "retryWrite", "cancelWrite", "checkClaim"} : \E op : Begin(c, i, op, p)
  BY <1>1
<1>3. c \in Actors /\ act[c] \in Local /\ act[c].verdict # "completed"
  BY <1>2 DEF Begin, Actors, Recorded, Backed, At, Idle, TypeOK, ActTypeOK
<1> DEFINE l == [act[c] EXCEPT !.pc = p, !.job = i, !.mine = handle[i]]
<1>4. l.pc = p /\ l.verdict # "completed"
  BY <1>3 DEF Local
<1> HIDE DEF l
<1>5. Move(c, l)
  BY <1>2 DEF Begin, l
<1> QED
  BY <1>2, <1>3, <1>4, <1>5, TakesUp DEF Begin, database

LEMMA CallerRecords ==
    ASSUME TypeOK, Recorded, NEW c \in Callers, CallerStep(c)
    PROVE  Recorded'
<1> USE DEF TypeOK
<1> DEFINE j == JobOf(c)
<1>1. c \in Actors /\ Backed(c)
  BY DEF Actors, Recorded
<1>2. act[c].pc \notin {"select", "record", "commit"} => act[c].verdict # "completed"
  BY <1>1 DEF Backed
<1>3. Return(c) => Leaves(c)
  BY <1>1, IdleLeaves DEF Return
<1>4. CASE Reserve(c)
  BY <1>1, <1>2, <1>4, GotoLands, IdleLeaves, Unsettles, Elsewhere, Away DEF Reserve, At
<1>5. CASE RetryWrite(c)
  BY <1>1, <1>2, <1>5, GotoLands, Unsettles DEF RetryWrite, At
<1>6. CASE Enqueue(c)
  BY <1>1, <1>3, <1>6, Away DEF Enqueue, database
<1>7. CASE CancelWrite(c)
  <2>1. PICK p \in {"cancelAsk", "select"} : Lands(c, p, "withdrawn")
    BY <1>1, <1>7, GotoWithLands DEF CancelWrite
  <2> QED
    BY <1>1, <1>7, <2>1, Unsettles DEF CancelWrite
<1>8. CASE CancelAsk(c)
  BY <1>1, <1>2, <1>3, <1>8, GotoLands, Elsewhere, Away DEF CancelAsk, At, database
<1>9. CASE CancelRecord(c)
  <2>1. Leaves(c) /\ At(c, "record") /\ j \in Jobs
    BY <1>1, <1>3, <1>9, Busy DEF CancelRecord
  <2>2. \A i \in Jobs : ledger'[i] # <<>> \/ ledger'[i] = ledger[i]
    BY <1>1, <1>9, <2>1, LedgerGrows DEF CancelRecord
  <2>3. Backed(c)'
    BY <2>1 DEF Leaves, Backed, At, Idle
  <2>4. \A b \in Actors \ {c} : Backed(b)'
    <3> SUFFICES ASSUME NEW b \in Actors \ {c} PROVE Backed(b)'
      OBVIOUS
    <3>1. act'[b] = act[b] /\ Backed(b)
      BY <2>1 DEF Leaves, Alone, Recorded
    <3>2. At(b, "record") \/ At(b, "commit") => JobOf(b) \in Jobs
      BY DEF ActTypeOK, At
    <3> QED
      BY <1>9, <2>2, <3>1, <3>2 DEF CancelRecord, Backed, At, JobOf
  <2>5. \A i \in Jobs : Booked(i)'
    BY <1>9, <2>2 DEF CancelRecord, Recorded, Booked
  <2> QED
    BY <2>3, <2>4, <2>5 DEF Recorded
<1>10. CASE CheckClaim(c)
  BY <1>1, <1>2, <1>10, GotoLands, Unsettles DEF CheckClaim, At
<1>11. CASE CheckWatch(c)
  BY <1>1, <1>2, <1>11, GotoLands, Elsewhere DEF CheckWatch, At, database
<1>12. CASE CheckPoll(c)
  BY <1>1, <1>2, <1>12, GotoLands, GotoWithLands, Elsewhere DEF CheckPoll, At, database
<1>13. CASE CheckThrows(c)
  BY <1>1, <1>13, ThrowLands, Elsewhere DEF CheckThrows, database
<1>14. CASE Handoff(c)
  BY <1>1, <1>14, UnwindLeaves, Away DEF Handoff, database
<1>15. CASE SharedStep(c)
  BY <1>1, <1>15, SharedRecords
<1>16. CASE CheckFails(c)
  BY <1>1, <1>16, UnwindLeaves, Away DEF CheckFails, database
<1> QED
  BY <1>4, <1>5, <1>6, <1>7, <1>8, <1>9, <1>10, <1>11, <1>12, <1>13, <1>14, <1>15, <1>16
     DEF CallerStep

LEMMA ProcessRecords ==
    ASSUME TypeOK, Recorded, BootStep \/ Start \/ Stop \/ Halt
    PROVE  Recorded'
<1>1. Boot \in Actors
  BY DEF Actors
<1>2. ASSUME NEW i \in Jobs, Recover(i) PROVE Recorded'
  <2>1. CASE UNCHANGED act
    BY <1>2, <2>1 DEF Recover, Recorded, Backed, Booked, At, JobOf, database
  <2>2. CASE Move(Boot, [act[Boot] EXCEPT !.pc = "select", !.job = i, !.verdict = "failed"])
    <3> DEFINE l == [act[Boot] EXCEPT !.pc = "select", !.job = i, !.verdict = "failed"]
    <3>1. l.pc = "select" /\ l.verdict = "failed"
      BY <1>1 DEF TypeOK, ActTypeOK, Local
    <3> HIDE DEF l
    <3>2. Move(Boot, l)
      BY <2>2 DEF l
    <3> QED
      BY <1>1, <1>2, <3>1, <3>2, TakesUp DEF Recover, database
  <2> QED
    BY <1>2, <2>1, <2>2 DEF Recover
<1>3. CASE SharedStep(Boot)
  BY <1>1, <1>3, SharedRecords
<1>4. CASE Open \/ Stop
  BY <1>4 DEF Open, Stop, Recorded, Backed, Booked, At, JobOf, database
<1>5. CASE Start
  <2>1. \A a \in Actors : act[a].verdict = "completed" => JobOf(a) \in Jobs
    BY DEF Recorded, Backed, TypeOK, ActTypeOK, At
  <2>2. \A a \in Actors : Backed(a)'
    BY <1>5, <2>1 DEF Start, Recorded, Backed, Booked, At, JobOf
  <2>3. \A i \in Jobs : Booked(i)'
    BY <1>5 DEF Start, Recorded, Booked
  <2> QED
    BY <2>2, <2>3 DEF Recorded
<1>6. CASE Halt
  <2>1. \A a \in Actors : Backed(a)'
    BY <1>6 DEF Halt, Backed, At, Idle
  <2>2. \A i \in Jobs : Booked(i)'
    BY <1>6 DEF Halt, Recorded, Booked, database
  <2> QED
    BY <2>1, <2>2 DEF Recorded
<1> QED
  BY <1>2, <1>3, <1>4, <1>5, <1>6 DEF BootStep

LEMMA RecordedInit == Init => Recorded
  BY DEF Init, Recorded, Backed, Booked, Paid, At, JobOf, Idle

LEMMA RecordedStep == TypeOK /\ Recorded /\ [Next]_vars => Recorded'
<1> SUFFICES ASSUME TypeOK, Recorded, [Next]_vars PROVE Recorded'
  OBVIOUS
<1>1. CASE UNCHANGED vars
  BY <1>1 DEF Recorded, Backed, Booked, At, JobOf, vars, database
<1>2. CASE Next
  BY <1>2, WorkerRecords, FetchRecords, BeginRecords, CallerRecords, ProcessRecords DEF Next
<1> QED
  BY <1>1, <1>2

LEMMA AlwaysRecorded == Spec => []Recorded
<1>1. Spec => []TypeOK
  BY TypeCorrect
<1> QED
  BY <1>1, RecordedInit, RecordedStep, PTL DEF Spec

\* Whatever the crashes and the races of workers, checks and the start-up pass, no
\* job is completed, failed or moderated before #recordLedger has a row for it.
THEOREM SettledIsRecorded == Spec => []SettledHasLedger
  BY AlwaysRecorded, RecordedImplies, PTL

\* A completed job has its output in the Library index, for any number of drives
\* and restarts between finalizeOutput and the status.
THEOREM CompletedIsIndexed == Spec => []CompletedHasAsset
  BY AlwaysRecorded, RecordedImplies, PTL
=============================================================================
