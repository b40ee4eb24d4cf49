--------------------------- MODULE JobChargeProofs ---------------------------
(***************************************************************************)
(* What a job is charged for, and how often: a charged ledger row stands   *)
(* for a submission the provider finished or moderated; a handle, a ledger *)
(* row, a charge or an output is replaced, doubled or lost only where two  *)
(* actors of the job were in the same stretch of the code; and the         *)
(* provider gets one submission per confirmation, but for the messages of  *)
(* the start-up pass.  For any jobs, workers, callers, calls and restarts, *)
(* with cancels, checks, retries and holds in any order.                   *)
(***************************************************************************)
EXTENDS JobEngineProofs, JobHistory, FiniteSetTheorems

\* The provider finished a submission of the job, or moderated it.
Delivered(j) == \E n \in DOMAIN requests[j] : requests[j][n] \in {"done", "moderated"}

Charging   == {"completed", "undelivered", "blank", "moderatedPaid"}
Holding    == {"persist", "persistInline", "poll", "checkClaim", "checkWatch", "check"}
Delivering == {"persistInline", "download", "look", "write", "index"}

\* An actor holds the handle of a submission there was, and a result or a charge of one
\* that was delivered; one that is done holds nothing.
Backs(l) ==
    /\ l.mine <= Len(requests[l.job])
    /\ l.pc \in Holding => l.mine > 0
    /\ l.verdict \in Charging \/ l.pc \in Delivering => Delivered(l.job)
Funded(a) == IF At(a, "idle") THEN act[a] = Idle ELSE Backs(act[a])

\* So does the row of the job, and so do its ledger rows.
Named(j)  == handle[j] <= Len(requests[j])
Earned(j) == (\E e \in DOMAIN ledger[j] : ledger[j][e] = "charged") => Delivered(j)

Funding == (\A a \in Actors : Funded(a)) /\ (\A j \in Jobs : Named(j) /\ Earned(j))

-----------------------------------------------------------------------------
(* The submissions: they are added, and one that was answered stays so.      *)

\* The same, after the step, of a job named before it.
After(j) == \E n \in DOMAIN requests'[j] : requests'[j][n] \in {"done", "moderated"}

Grown == \A j \in Jobs : /\ Len(requests[j]) <= Len(requests'[j])
                         /\ Delivered(j) => After(j)

LEMMA RequestsType ==
    ASSUME TypeOK, NEW j \in Jobs
    PROVE  requests[j] \in Seq(RequestStates) /\ Len(requests[j]) \in Nat /\ handle[j] \in Nat
  BY DEF TypeOK, StoreTypeOK

LEMMA SameGrown == ASSUME TypeOK, UNCHANGED requests PROVE Grown
  BY RequestsType DEF Grown, Delivered, After

LEMMA AppendGrown ==
    ASSUME TypeOK, NEW i \in Jobs, NEW st \in RequestStates,
           requests' = [requests EXCEPT ![i] = Append(@, st)]
    PROVE  /\ Grown
           /\ Len(requests'[i]) = Len(requests[i]) + 1
           /\ st = "done" => After(i)
<1> DEFINE q == requests[i]
           r == Append(q, st)
<1>1. /\ q \in Seq(RequestStates) /\ Len(q) \in Nat
      /\ requests'[i] = r /\ \A j \in Jobs : j # i => requests'[j] = requests[j]
  BY RequestsType DEF TypeOK, StoreTypeOK
<1>2. Len(r) = Len(q) + 1 /\ r[Len(q) + 1] = st /\ Len(q) + 1 \in DOMAIN r
      /\ \A n \in DOMAIN q : n \in DOMAIN r /\ r[n] = q[n]
  BY <1>1
<1> HIDE DEF r
<1>3. Delivered(i) => After(i)
  BY <1>1, <1>2 DEF Delivered, After
<1>4. st = "done" => After(i)
  BY <1>1, <1>2 DEF Delivered, After
<1>5. \A j \in Jobs : j # i => (Delivered(j) => After(j)) /\ Len(requests[j]) <= Len(requests'[j])
  BY <1>1, RequestsType DEF Delivered, After
<1> QED
  BY <1>1, <1>2, <1>3, <1>4, <1>5 DEF Grown

LEMMA AnswerGrown ==
    ASSUME TypeOK, NEW a \in Actors, JobOf(a) \in Jobs, NEW st \in RequestStates, Answer(a, st),
           act[a].mine > 0, act[a].mine <= Len(requests[JobOf(a)])
    PROVE  /\ Grown
           /\ \A j \in Jobs : Len(requests'[j]) = Len(requests[j])
           /\ st \in {"done", "moderated"} => After(JobOf(a))
<1> DEFINE i == JobOf(a)
           q == requests[i]
           m == act[a].mine
           r == [q EXCEPT ![m] = st]
<1>1. /\ q \in Seq(RequestStates) /\ Len(q) \in Nat /\ m \in Nat
      /\ requests' = [requests EXCEPT ![i] = r] /\ q[m] \in {"working", st}
  BY RequestsType DEF Answer, TypeOK, ActTypeOK, Local
<1>2. requests'[i] = r /\ \A j \in Jobs : j # i => requests'[j] = requests[j]
  BY <1>1 DEF TypeOK, StoreTypeOK
<1>3. m \in DOMAIN q
  BY <1>1
<1>4. r \in Seq(RequestStates) /\ DOMAIN r = DOMAIN q /\ Len(r) = Len(q)
  BY <1>1, ReplaceInSeq
<1>5. r[m] = st /\ \A n \in DOMAIN q : r[n] = q[n] \/ (n = m /\ q[n] \in {"working", st})
  BY <1>1, <1>3
<1> HIDE DEF r
<1>6. Delivered(i) => After(i)
  BY <1>2, <1>4, <1>5 DEF Delivered, After
<1>7. st \in {"done", "moderated"} => After(i)
  BY <1>2, <1>3, <1>4, <1>5 DEF Delivered, After
<1>8. \A j \in Jobs : j # i => (Delivered(j) => After(j)) /\ Len(requests'[j]) = Len(requests[j])
  BY <1>2 DEF Delivered, After
<1> QED
  BY <1>1, <1>2, <1>4, <1>6, <1>7, <1>8, RequestsType DEF Grown

-----------------------------------------------------------------------------
(* One actor moves.                                                          *)

LEMMA FundingMoves ==
    ASSUME TypeOK, Funding, NEW a \in Actors, Alone(a), Funded(a)', Grown,
           \A j \in Jobs : handle'[j] = handle[j] \/ Named(j)',
           \A j \in Jobs : ledger'[j] = ledger[j] \/ Earned(j)',
           \A j \in Jobs : Len(requests'[j]) \in Nat
    PROVE  Funding'
<1>1. ASSUME NEW b \in Actors, b # a PROVE Funded(b)'
  <2>1. act'[b] = act[b] /\ Funded(b) /\ act[b] \in Local
    BY <1>1 DEF Alone, Funding, TypeOK, ActTypeOK
  <2>2. CASE At(b, "idle")
    BY <2>1, <2>2 DEF Funded, At
  <2>3. CASE ~At(b, "idle")
    <3>1. act[b].job \in Jobs /\ act[b].mine \in Nat /\ Backs(act[b])
      BY <2>1, <2>3 DEF TypeOK, ActTypeOK, JobOf, Local, Funded
    <3>2. act[b].mine <= Len(requests'[act[b].job])
      BY <3>1, RequestsType DEF Grown, Backs
    <3>3. Delivered(act[b].job) => After(act[b].job)
      BY <3>1 DEF Grown
    <3> QED
      BY <2>1, <2>3, <3>1, <3>2, <3>3 DEF Funded, Backs, At, Delivered, After
  <2> QED
    BY <2>2, <2>3
<1>2. ASSUME NEW j \in Jobs PROVE Named(j)'
  BY RequestsType DEF Funding, Named, Grown
<1>3. ASSUME NEW j \in Jobs PROVE Earned(j)'
  BY DEF Funding, Earned, Grown, Delivered, After
<1> QED
  BY <1>1, <1>2, <1>3 DEF Funding

\* What an actor on its way has.
LEMMA OnItsWay ==
    ASSUME TypeOK, Funding, NEW a \in Actors, ~At(a, "idle")
    PROVE  /\ JobOf(a) \in Jobs /\ act[a].mine \in Nat /\ act[a].mine <= Len(requests[JobOf(a)])
           /\ act[a].pc \in Holding => act[a].mine > 0
           /\ act[a].verdict \in Charging => Delivered(JobOf(a))
           /\ act[a].pc \in Delivering => Delivered(JobOf(a))
  BY DEF TypeOK, ActTypeOK, Local, Funding, Funded, Backs, JobOf

\* The place an actor goes to, with what it holds there.
Takes(a, p, v, n) == Lands(a, p, v) /\ act'[a].mine = n

LEMMA GotoTakes ==
    ASSUME ActTypeOK, NEW a \in Actors, NEW p, Goto(a, p)
    PROVE  Takes(a, p, act[a].verdict, act[a].mine)
  BY GotoLands DEF ActTypeOK, Goto, Move, Local, Takes

LEMMA GotoWithTakes ==
    ASSUME ActTypeOK, NEW a \in Actors, NEW p, NEW v, GotoWith(a, p, v)
    PROVE  Takes(a, p, v, act[a].mine)
  BY GotoWithLands DEF ActTypeOK, GotoWith, Move, Local, Takes

LEMMA HandleTakes ==
    ASSUME ActTypeOK, NEW a \in Actors, NEW p, NEW n,
           Move(a, [act[a] EXCEPT !.pc = p, !.mine = n])
    PROVE  Takes(a, p, act[a].verdict, n)
  BY HandleLands DEF ActTypeOK, Move, Local, Takes

LEMMA RowTakes ==
    ASSUME ActTypeOK, NEW a \in Actors, NEW p, NEW f, NEW n,
           Move(a, [act[a] EXCEPT !.pc = p, !.fresh = f, !.mine = n])
    PROVE  Takes(a, p, act[a].verdict, n)
  BY RowLands DEF ActTypeOK, Move, Local, Takes

LEMMA EntryTakes ==
    ASSUME ActTypeOK, NEW a \in Actors, NEW p, NEW n,
           Move(a, [act[a] EXCEPT !.pc = p, !.entry = n])
    PROVE  Takes(a, p, act[a].verdict, act[a].mine)
  BY EntryLands DEF ActTypeOK, Move, Local, Takes

LEMMA ThrowTakes ==
    ASSUME ActTypeOK, NEW a \in Actors, NEW v, Throw(a, v)
    PROVE  \/ Takes(a, "caught", v, act[a].mine) \/ Takes(a, "judge", "failed", act[a].mine)
  BY GotoWithTakes DEF Throw

LEMMA FinishedTakes ==
    ASSUME ActTypeOK, NEW a \in Actors, Finished(a)
    PROVE  Takes(a, "caught", "stopped", act[a].mine) \/ Leaves(a)
  BY GotoWithTakes, IdleLeaves DEF Finished, Unwind

\* An actor goes on, with what the place it goes to needs.
LEMMA GoesFunded ==
    ASSUME TypeOK, Funding, NEW a \in Actors, NEW p, NEW v, NEW n \in Nat, ~At(a, "idle"),
           Takes(a, p, v, n), p # "idle", Grown, \A j \in Jobs : Len(requests'[j]) \in Nat,
           n <= Len(requests'[JobOf(a)]),
           p \in Holding => n > 0,
           v \in Charging \/ p \in Delivering => After(JobOf(a)),
           \A j \in Jobs : handle'[j] = handle[j] \/ Named(j)',
           \A j \in Jobs : ledger'[j] = ledger[j] \/ Earned(j)'
    PROVE  Funding'
<1>2. Backs(act[a])'
  BY DEF Takes, Lands, Backs, JobOf, Delivered, After
<1>3. Funded(a)' /\ Alone(a)
  BY <1>2 DEF Takes, Lands, Funded, At
<1> QED
  BY <1>3, FundingMoves

\* The same, when the provider hears nothing and no row is written.
LEMMA StaysFunded ==
    ASSUME TypeOK, Funding, NEW a \in Actors, NEW p, NEW v, NEW n \in Nat, ~At(a, "idle"),
           Takes(a, p, v, n), p # "idle",
           UNCHANGED <<requests, handle, ledger>>,
           n <= Len(requests[JobOf(a)]),
           p \in Holding => n > 0,
           v \in Charging \/ p \in Delivering => Delivered(JobOf(a))
    PROVE  Funding'
<1>1. After(JobOf(a)) <=> Delivered(JobOf(a))
  BY DEF Delivered, After
<1>2. JobOf(a) \in Jobs
  BY OnItsWay
<1> QED
  BY <1>1, <1>2, GoesFunded, SameGrown, RequestsType

LEMMA LeavesFunded ==
    ASSUME TypeOK, Funding, NEW a \in Actors, Leaves(a),
           UNCHANGED <<requests, handle>>,
           \A j \in Jobs : ledger'[j] = ledger[j] \/ Earned(j)'
    PROVE  Funding'
<1>1. Funded(a)' /\ Alone(a)
  BY IdleType DEF Leaves, Funded, At
<1> QED
  BY <1>1, FundingMoves, SameGrown, RequestsType

-----------------------------------------------------------------------------
(* The steps of #complete, #finishError and #recordLedger.                   *)

\* A row that says charged was written by an actor with a delivered result.
LEMMA LedgerEarned ==
    ASSUME TypeOK, Funding, NEW a \in Actors, ~At(a, "idle"), WriteLedger(a), UNCHANGED requests
    PROVE  \A j \in Jobs : ledger'[j] = ledger[j] \/ Earned(j)'
<1> DEFINE i == JobOf(a)
           c == ChargeOf(act[a].verdict)
           e == act[a].entry
           row == IF e = 0 THEN Append(ledger[i], c) ELSE [ledger[i] EXCEPT ![e] = c]
<1>1. i \in Jobs /\ ledger[i] \in Seq(Charges) /\ Earned(i)
  BY OnItsWay DEF TypeOK, StoreTypeOK, Funding
<1>2. c = "charged" => Delivered(i)
  BY OnItsWay DEF ChargeOf, Charging
<1>3. c \in Charges
  BY DEF ChargeOf, Charges
<1> HIDE DEF c, e
<1>4. \A n \in DOMAIN row : row[n] = c \/ (n \in DOMAIN ledger[i] /\ row[n] = ledger[i][n])
  <2>1. CASE e = 0
    BY <1>1, <1>3, <2>1
  <2>2. CASE e # 0
    BY <2>2
  <2> QED
    BY <2>1, <2>2
<1>5. ledger' = [ledger EXCEPT ![i] = row]
  BY DEF WriteLedger, c, e
<1> HIDE DEF row
<1>6. ledger'[i] = row /\ \A j \in Jobs : j # i => ledger'[j] = ledger[j]
  BY <1>1, <1>5 DEF TypeOK, StoreTypeOK
<1>7. (\E n \in DOMAIN row : row[n] = "charged") => Delivered(i)
  BY <1>1, <1>2, <1>4 DEF Earned
<1> QED
  BY <1>6, <1>7 DEF Earned, Delivered

LEMMA SharedFunds ==
    ASSUME TypeOK, Funding, NEW a \in Actors, SharedStep(a)
    PROVE  Funding'
<1> USE DEF TypeOK
<1> DEFINE m == act[a].mine
           v == act[a].verdict
<1>0. ~At(a, "idle") /\ UNCHANGED <<handle, requests>>
  BY DEF SharedStep, Download, Look, Write, Index, FinalizeFails, Judge, Select, Record, Commit,
         At, database
<1>1. /\ m \in Nat /\ m <= Len(requests[JobOf(a)])
      /\ v \in Charging => Delivered(JobOf(a))
      /\ act[a].pc \in Delivering => Delivered(JobOf(a))
  BY <1>0, OnItsWay
<1>2. ASSUME NEW w \in Charging \cup {"failed"}, Throw(a, w), UNCHANGED ledger,
             act[a].pc \in Delivering
      PROVE  Funding'
  BY <1>0, <1>1, <1>2, ThrowTakes, StaysFunded DEF Holding, Delivering, Charging
<1>3. ASSUME Finished(a), UNCHANGED ledger PROVE Funding'
  BY <1>0, <1>1, <1>3, FinishedTakes, StaysFunded, LeavesFunded DEF Holding, Delivering, Charging
<1>4. CASE Download(a)
  <2>1. act[a].pc \in Delivering /\ UNCHANGED ledger
    BY <1>4 DEF Download, At, Delivering
  <2>2. CASE Goto(a, "look")
    BY <1>0, <1>1, <2>1, <2>2, GotoTakes, StaysFunded DEF Holding
  <2>3. CASE Throw(a, "undelivered") \/ Throw(a, "blank")
    BY <1>2, <2>1, <2>3 DEF Charging
  <2> QED
    BY <1>4, <2>2, <2>3 DEF Download
<1>5. CASE Look(a)
  <2>1. act[a].pc \in Delivering /\ UNCHANGED ledger
    BY <1>5 DEF Look, At, Delivering, database
  <2>2. Takes(a, "select", "completed", m) \/ Takes(a, "write", v, m)
    BY <1>5, GotoTakes, GotoWithTakes DEF Look
  <2> QED
    BY <1>0, <1>1, <2>1, <2>2, StaysFunded DEF Holding
<1>6. CASE Write(a)
  <2>1. act[a].pc \in Delivering /\ UNCHANGED ledger /\ Takes(a, "index", v, m)
    BY <1>6, GotoTakes DEF Write, At, Delivering
  <2> QED
    BY <1>0, <1>1, <2>1, StaysFunded DEF Holding
<1>7. CASE Index(a)
  <2>1. act[a].pc \in Delivering /\ UNCHANGED ledger /\ Takes(a, "select", "completed", m)
    BY <1>7, GotoWithTakes DEF Index, At, Delivering
  <2> QED
    BY <1>0, <1>1, <2>1, StaysFunded DEF Holding
<1>8. CASE FinalizeFails(a)
  <2>1. act[a].pc \in Delivering /\ UNCHANGED ledger
    BY <1>8 DEF FinalizeFails, At, Delivering
  <2> QED
    BY <1>2, <1>8, <2>1 DEF FinalizeFails
<1>9. CASE Judge(a)
  <2>1. CASE Finished(a)
    BY <1>3, <1>9, <2>1 DEF Judge, database
  <2>2. CASE Goto(a, "select")
    BY <1>0, <1>1, <1>9, <2>2, GotoTakes, StaysFunded DEF Judge, database, Holding, Delivering
  <2> QED
    BY <1>9, <2>1, <2>2 DEF Judge
<1>10. CASE Select(a)
  <2>1. Takes(a, "record", v, m) /\ UNCHANGED ledger
    BY <1>10, EntryTakes DEF Select, database
  <2> QED
    BY <1>0, <1>1, <2>1, StaysFunded DEF Holding, Delivering
<1>11. CASE Record(a)
  <2>1. Takes(a, "commit", v, m) /\ \A j \in Jobs : ledger'[j] = ledger[j] \/ Earned(j)'
    BY <1>0, <1>11, GotoTakes, LedgerEarned DEF Record
  <2>2. Delivered(JobOf(a)) => After(JobOf(a))
    BY <1>0 DEF Delivered, After
  <2> QED
    BY <1>0, <1>1, <2>1, <2>2, OnItsWay, RequestsType, SameGrown, GoesFunded DEF Holding, Delivering
<1>12. CASE Commit(a)
  BY <1>3, <1>12 DEF Commit
<1> QED
  BY <1>4, <1>5, <1>6, <1>7, <1>8, <1>9, <1>10, <1>11, <1>12 DEF SharedStep

-----------------------------------------------------------------------------
(* The workers.                                                              *)

LEMMA WorkerFunds ==
    ASSUME TypeOK, Funding, NEW w \in Workers, WorkerStep(w) \/ PollAgain(w)
    PROVE  Funding'
<1> USE DEF TypeOK
<1> DEFINE j == JobOf(w)
           m == act[w].mine
           v == act[w].verdict
<1>1. w \in Actors
  BY DEF Actors
<1>w. ASSUME ~At(w, "idle")
      PROVE  /\ j \in Jobs /\ m \in Nat /\ m <= Len(requests[j])
             /\ act[w].pc \in Holding => m > 0
             /\ v \in Charging => Delivered(j)
             /\ act[w].pc \in Delivering => Delivered(j)
             /\ Len(requests[j]) \in Nat /\ handle[j] \in Nat /\ handle[j] <= Len(requests[j])
  BY <1>1, <1>w, OnItsWay, RequestsType DEF Funding, Named
\* Steps that hear nothing, write neither row, and go to a place that needs no handle.
<1>g. ASSUME NEW p, ~At(w, "idle"), Goto(w, p), p \notin {"idle"} \cup Holding \cup Delivering,
             UNCHANGED <<requests, handle, ledger>>
      PROVE  Funding'
  BY <1>1, <1>g, <1>w, GotoTakes, StaysFunded
<1>c. ASSUME NEW p, NEW u, ~At(w, "idle"), GotoWith(w, p, u), p \notin {"idle"} \cup Holding \cup Delivering,
             u \notin Charging, UNCHANGED <<requests, handle, ledger>>
      PROVE  Funding'
  BY <1>1, <1>c, <1>w, GotoWithTakes, StaysFunded
<1>u. ASSUME Unwind(w), UNCHANGED <<requests, handle, ledger>> PROVE Funding'
  BY <1>1, <1>u, UnwindLeaves, LeavesFunded
<1>3. CASE LoadSettled(w)
  BY <1>u, <1>3 DEF LoadSettled, database
<1>4. CASE Load(w)
  <2>1. ~At(w, "idle") /\ UNCHANGED <<requests, handle, ledger>>
    BY <1>4 DEF Load, At, database
  <2>2. PICK p \in {"turn", "setup"} : Takes(w, p, v, handle[j])
    BY <1>1, <1>4, RowTakes DEF Load
  <2> QED
    BY <1>1, <1>w, <2>1, <2>2, StaysFunded DEF Holding, Delivering
<1>5. CASE TakeTurn(w)
  BY <1>g, <1>5 DEF TakeTurn, At, database, Holding, Delivering
<1>6. CASE Hold(w)
  BY <1>g, <1>6 DEF Hold, At, Holding, Delivering
<1>7. CASE HoldSend(w)
  BY <1>u, <1>7 DEF HoldSend, database
<1>8. CASE SetupFails(w)
  BY <1>c, <1>8 DEF SetupFails, At, database, Holding, Delivering, Charging
<1>9. CASE Setup(w)
  <2>1. ~At(w, "idle") /\ UNCHANGED <<requests, handle, ledger>>
    BY <1>9 DEF Setup, At, database
  <2>2. PICK p \in {"claim", "poll", "submit"} : Takes(w, p, v, m) /\ (p = "poll" => m # 0)
    BY <1>1, <1>9, GotoTakes DEF Setup
  <2>3. p = "poll" => m > 0
    BY <1>w, <2>1, <2>2
  <2> QED
    BY <1>1, <1>w, <2>1, <2>2, <2>3, StaysFunded DEF Holding, Delivering
<1>10. CASE Claim(w)
  <2>1. ~At(w, "idle") /\ UNCHANGED <<requests, handle, ledger>>
    BY <1>10 DEF Claim, At
  <2>2. PICK p \in {"poll", "submit"} : Takes(w, p, v, handle[j]) /\ (p = "poll" => handle[j] # 0)
    BY <1>1, <1>10, HandleTakes DEF Claim
  <2>3. p = "poll" => handle[j] > 0
    BY <1>w, <2>1, <2>2
  <2> QED
    BY <1>1, <1>w, <2>1, <2>2, <2>3, StaysFunded DEF Holding, Delivering
<1>11. CASE SubmitAccepted(w)
  <2>0. ~At(w, "idle") /\ UNCHANGED <<handle, ledger>> /\ {"working", "done"} \subseteq RequestStates
    BY <1>11 DEF SubmitAccepted, Submitting, At, RequestStates
  <2>1. PICK st \in {"working", "done"} :
            /\ requests' = [requests EXCEPT ![j] = Append(@, st)]
            /\ Takes(w, IF st = "done" THEN "persistInline" ELSE "persist", v, Len(requests[j]) + 1)
    BY <1>1, <1>11, HandleTakes DEF SubmitAccepted
  <2>2. /\ Grown /\ Len(requests'[j]) = Len(requests[j]) + 1
        /\ st = "done" => After(j)
    BY <1>w, <2>0, <2>1, AppendGrown
  <2>3. \A i \in Jobs : Len(requests'[i]) \in Nat
    <3>1. \A i \in Jobs : i # j => requests'[i] = requests[i]
      BY <1>w, <2>0, <2>1 DEF StoreTypeOK
    <3> QED
      BY <1>w, <2>0, <2>2, <3>1, RequestsType
  <2>4. v \in Charging => After(j)
    BY <1>w, <2>0, <2>2 DEF Grown
  <2>5. Len(requests[j]) + 1 \in Nat /\ Len(requests[j]) + 1 > 0
        /\ Len(requests[j]) + 1 <= Len(requests'[j])
    BY <1>w, <2>0, <2>2
  <2> QED
    BY <1>1, <1>w, <2>0, <2>1, <2>2, <2>3, <2>4, <2>5, GoesFunded DEF Delivering
<1>12. CASE SubmitRefused(w)
  BY <1>c, <1>12 DEF SubmitRefused, Submitting, At, Holding, Delivering, Charging
<1>13. CASE SubmitLost(w)
  <2>0. ~At(w, "idle") /\ UNCHANGED <<handle, ledger>> /\ "working" \in RequestStates
    BY <1>13 DEF SubmitLost, Submitting, At, RequestStates
  <2>1. CASE UNCHANGED requests
    BY <1>c, <1>13, <2>0, <2>1 DEF SubmitLost, Holding, Delivering, Charging
  <2>2. CASE requests' = [requests EXCEPT ![j] = Append(@, "working")]
    <3>1. Grown /\ Len(requests'[j]) = Len(requests[j]) + 1
      BY <1>w, <2>0, <2>2, AppendGrown
    <3>2. \A i \in Jobs : i # j => requests'[i] = requests[i]
      BY <1>w, <2>0, <2>2 DEF StoreTypeOK
    <3>3. (\A i \in Jobs : Len(requests'[i]) \in Nat) /\ m <= Len(requests'[j])
      BY <1>w, <2>0, <3>1, <3>2, RequestsType
    <3>4. Takes(w, "caught", "failed", m)
      BY <1>1, <1>13, GotoWithTakes DEF SubmitLost
    <3> QED
      BY <1>1, <1>w, <2>0, <3>1, <3>3, <3>4, GoesFunded DEF Holding, Delivering, Charging
  <2> QED
    BY <1>13, <2>1, <2>2 DEF SubmitLost
<1>14. CASE SubmitUnreachable(w)
  BY <1>c, <1>14 DEF SubmitUnreachable, Submitting, At, Holding, Delivering, Charging
<1>15. CASE Persist(w)
  <2>0. /\ ~At(w, "idle") /\ UNCHANGED <<requests, ledger>> /\ act[w].pc \in Holding
        /\ handle' = [handle EXCEPT ![j] = m]
    BY <1>15 DEF Persist, At, Holding
  <2>1. PICK p \in {"poll", "download"} :
            Takes(w, p, v, m) /\ (p = "download" => act[w].pc \in Delivering)
    BY <1>1, <1>15, GotoTakes DEF Persist, At, Delivering
  <2>2. \A i \in Jobs : handle'[i] = handle[i] \/ Named(i)'
    BY <1>w, <2>0 DEF Named, StoreTypeOK
  <2>3. Delivered(j) => After(j)
    BY <2>0 DEF Delivered, After
  <2> QED
    BY <1>1, <1>w, <2>0, <2>1, <2>2, <2>3, RequestsType, SameGrown, GoesFunded DEF Holding, Delivering
<1>16. CASE Poll(w)
  <2>0. /\ ~At(w, "idle") /\ UNCHANGED <<handle, ledger>> /\ act[w].pc \in Holding
        /\ {"done", "failed", "cancelled", "moderated"} \subseteq RequestStates
    BY <1>16 DEF Poll, At, Holding, database, RequestStates
  <2>1. PICK st \in {"done", "failed", "cancelled", "moderated"},
             p \in {"download", "caught", "judge"},
             u \in {v, "failed", "rejected", "stopped", "moderated", "moderatedPaid"} :
            /\ Answer(w, st) /\ Takes(w, p, u, m)
            /\ u = v \/ u \notin Charging \/ st = "moderated"
            /\ p = "download" => st = "done"
    BY <1>1, <1>16, GotoTakes, GotoWithTakes DEF Poll, Charging
  <2>2. /\ Grown /\ \A i \in Jobs : Len(requests'[i]) = Len(requests[i])
        /\ st \in {"done", "moderated"} => After(j)
    BY <1>1, <1>w, <2>0, <2>1, AnswerGrown
  <2>3. v \in Charging => After(j)
    BY <1>w, <2>0, <2>2 DEF Grown
  <2>4. (\A i \in Jobs : Len(requests'[i]) \in Nat) /\ m <= Len(requests'[j])
    BY <1>w, <2>0, <2>2, RequestsType
  <2> QED
    BY <1>1, <1>w, <2>0, <2>1, <2>2, <2>3, <2>4, GoesFunded DEF Holding, Delivering
<1>17. CASE PollThrows(w)
  BY <1>c, <1>17 DEF PollThrows, At, database, Holding, Delivering, Charging
<1>18. CASE PollAgain(w)
  BY <1>18 DEF PollAgain, Funding, Funded, Backs, Named, Earned, Delivered, At
<1>19. CASE Caught(w)
  BY <1>g, <1>u, <1>19 DEF Caught, At, database, Holding, Delivering
<1>20. CASE Requeue(w)
  BY <1>g, <1>20 DEF Requeue, At, Holding, Delivering
<1>21. CASE SharedStep(w)
  BY <1>1, <1>21, SharedFunds
<1> QED
  BY <1>3, <1>4, <1>5, <1>6, <1>7, <1>8, <1>9, <1>10, <1>11, <1>12, <1>13, <1>14, <1>15, <1>16,
     <1>17, <1>18, <1>19, <1>20, <1>21 DEF WorkerStep

-----------------------------------------------------------------------------
(* The callers and the process.                                              *)

\* An idle actor takes up a job, with the handle of its row or none.
LEMMA TakesUpFunds ==
    ASSUME TypeOK, Funding, NEW a \in Actors, NEW l, NEW j \in Jobs, Move(a, l),
           l.pc \notin {"idle"} \cup Delivering, l.job = j, l.verdict = "failed",
           l.mine \in {0, handle[j]}, l.pc \in Holding => l.mine # 0,
           UNCHANGED <<requests, handle, ledger>>
    PROVE  Funding'
<1>1. act'[a] = l /\ Alone(a)
  BY DEF Move, Alone, TypeOK, ActTypeOK
<1>2. handle[j] \in Nat /\ handle[j] <= Len(requests[j]) /\ Len(requests[j]) \in Nat
  BY RequestsType DEF Funding, Named
<1>3. l.mine <= Len(requests[j]) /\ (l.pc \in Holding => l.mine > 0)
  BY <1>2
<1>4. Backs(act[a])'
  BY <1>1, <1>3 DEF Backs, Charging
<1>5. Funded(a)'
  BY <1>1, <1>4 DEF Funded, At
<1> QED
  BY <1>1, <1>5, FundingMoves, SameGrown, RequestsType

LEMMA FetchFunds ==
    ASSUME TypeOK, Funding, NEW w \in Workers, NEW i \in Jobs, Fetch(w, i)
    PROVE  Funding'
<1>1. w \in Actors /\ act[w] = Idle
  BY DEF Fetch, Actors, Funding, Funded
<1>2. PICK k \in Kinds : Move(w, [act[w] EXCEPT !.pc = "load", !.job = i, !.fresh = (k # "resume")])
  BY DEF Fetch
<1> DEFINE l == [act[w] EXCEPT !.pc = "load", !.job = i, !.fresh = (k # "resume")]
<1>3. l.pc = "load" /\ l.job = i /\ l.verdict = "failed" /\ l.mine = 0
  BY <1>1 DEF Idle
<1> HIDE DEF l
<1>4. Move(w, l)
  BY <1>2 DEF l
<1> QED
  BY <1>1, <1>3, <1>4, TakesUpFunds DEF Fetch, database, Holding, Delivering

LEMMA BeginFunds ==
    ASSUME TypeOK, Funding, NEW c \in Callers, CallerBegins(c)
    PROVE  Funding'
<1>1. PICK i \in Jobs : \E op : \E p \in {"reserve", "retryWrite", "cancelWrite", "checkClaim"} :
          Begin(c, i, op, p) /\ (p = "checkClaim" => handle[i] # 0)
  BY Zenon DEF CallerBegins, Create, Retry, Cancel, Check
<1>2. PICK p \in {"reserve", "retryWrite", "cancelWrite", "checkClaim"} :
          (\E op : Begin(c, i, op, p)) /\ (p = "checkClaim" => handle[i] # 0)
  BY <1>1
<1>3. c \in Actors /\ act[c] = Idle
  BY <1>2 DEF Begin, Actors, Funding, Funded
<1> DEFINE l == [act[c] EXCEPT !.pc = p, !.job = i, !.mine = handle[i]]
<1>4. l.pc = p /\ l.job = i /\ l.verdict = "failed" /\ l.mine = handle[i]
  BY <1>3 DEF Idle
<1> HIDE DEF l
<1>5. Move(c, l)
  BY <1>2 DEF Begin, l
<1> QED
  BY <1>2, <1>3, <1>4, <1>5, TakesUpFunds DEF Begin, database, Holding, Delivering

LEMMA CallerFunds ==
    ASSUME TypeOK, Funding, NEW c \in Callers, CallerStep(c)
    PROVE  Funding'
<1> USE DEF TypeOK
<1> DEFINE j == JobOf(c)
           m == act[c].mine
           v == act[c].verdict
<1>1. c \in Actors
  BY DEF Actors
<1>w. ASSUME ~At(c, "idle")
      PROVE  /\ j \in Jobs /\ m \in Nat /\ m <= Len(requests[j])
             /\ act[c].pc \in Holding => m > 0
             /\ v \in Charging => Delivered(j)
             /\ act[c].pc \in Delivering => Delivered(j)
             /\ Len(requests[j]) \in Nat
  BY <1>1, <1>w, OnItsWay, RequestsType
<1>g. ASSUME NEW p, ~At(c, "idle"), Goto(c, p), p \notin {"idle"} \cup Delivering,
             p \in Holding => act[c].pc \in Holding,
             UNCHANGED <<requests, handle, ledger>>
      PROVE  Funding'
  BY <1>1, <1>g, <1>w, GotoTakes, StaysFunded
<1>l. ASSUME Leaves(c), UNCHANGED <<requests, handle, ledger>> PROVE Funding'
  BY <1>1, <1>l, LeavesFunded
<1>u. ASSUME Unwind(c), UNCHANGED <<requests, handle, ledger>> PROVE Funding'
  BY <1>1, <1>l, <1>u, UnwindLeaves
<1>r. Return(c) => Leaves(c)
  BY <1>1, IdleLeaves DEF Return
<1>4. CASE Reserve(c)
  BY <1>1, <1>g, <1>l, <1>4, IdleLeaves DEF Reserve, At, Holding, Delivering
<1>5. CASE RetryWrite(c)
  BY <1>g, <1>5 DEF RetryWrite, At, Holding, Delivering
<1>6. CASE Enqueue(c)
  BY <1>l, <1>r, <1>6 DEF Enqueue, database
<1>7. CASE CancelWrite(c)
  <2>1. ~At(c, "idle") /\ UNCHANGED <<requests, handle, ledger>>
    BY <1>7 DEF CancelWrite, At
  <2>2. PICK p \in {"cancelAsk", "select"} : Takes(c, p, "withdrawn", m)
    BY <1>1, <1>7, GotoWithTakes DEF CancelWrite
  <2> QED
    BY <1>1, <1>w, <2>1, <2>2, StaysFunded DEF Holding, Delivering, Charging
<1>8. CASE CancelAsk(c)
  BY <1>g, <1>l, <1>r, <1>8 DEF CancelAsk, At, database, Holding, Delivering
<1>9. CASE CancelRecord(c)
  BY <1>1, <1>r, <1>9, LedgerEarned, LeavesFunded DEF CancelRecord, At
<1>10. CASE CheckClaim(c)
  BY <1>g, <1>10 DEF CheckClaim, At, Holding, Delivering
<1>11. CASE CheckWatch(c)
  BY <1>g, <1>11 DEF CheckWatch, At, database, Holding, Delivering
<1>12. CASE CheckPoll(c)
  <2>0. /\ ~At(c, "idle") /\ UNCHANGED <<handle, ledger>> /\ act[c].pc \in Holding
        /\ RequestStates = {"working", "done", "failed", "moderated", "cancelled"}
    BY <1>12 DEF CheckPoll, At, Holding, database, RequestStates
  <2>1. PICK st \in RequestStates, p \in {"download", "judge", "handoff"},
             u \in {v, "failed", "rejected", "moderated", "moderatedPaid"} :
            /\ Answer(c, st) /\ Takes(c, p, u, m)
            /\ u = v \/ u \notin Charging \/ st = "moderated"
            /\ p = "download" => st = "done"
    BY <1>1, <1>12, <2>0, GotoTakes, GotoWithTakes DEF CheckPoll, Charging
  <2>2. /\ Grown /\ \A i \in Jobs : Len(requests'[i]) = Len(requests[i])
        /\ st \in {"done", "moderated"} => After(j)
    BY <1>1, <1>w, <2>0, <2>1, AnswerGrown
  <2>3. v \in Charging => After(j)
    BY <1>w, <2>0, <2>2 DEF Grown
  <2>4. (\A i \in Jobs : Len(requests'[i]) \in Nat) /\ m <= Len(requests'[j])
    BY <1>w, <2>0, <2>2, RequestsType
  <2> QED
    BY <1>1, <1>w, <2>0, <2>1, <2>2, <2>3, <2>4, GoesFunded DEF Holding, Delivering
<1>13. CASE CheckThrows(c)
  <2>1. ~At(c, "idle") /\ UNCHANGED <<requests, handle, ledger>>
    BY <1>13 DEF CheckThrows, At, database
  <2>2. Takes(c, "caught", "failed", m) \/ Takes(c, "judge", "failed", m)
    BY <1>1, <1>13, ThrowTakes DEF CheckThrows
  <2> QED
    BY <1>1, <1>w, <2>1, <2>2, StaysFunded DEF Holding, Delivering, Charging
<1>14. CASE Handoff(c)
  BY <1>u, <1>14 DEF Handoff
<1>15. CASE SharedStep(c)
  BY <1>1, <1>15, SharedFunds
<1>16. CASE CheckFails(c)
  BY <1>u, <1>16 DEF CheckFails, database
<1> QED
  BY <1>4, <1>5, <1>6, <1>7, <1>8, <1>9, <1>10, <1>11, <1>12, <1>13, <1>14, <1>15, <1>16
     DEF CallerStep

LEMMA ProcessFunds ==
    ASSUME TypeOK, Funding, BootStep \/ Start \/ Stop \/ Halt
    PROVE  Funding'
<1>1. Boot \in Actors
  BY DEF Actors
<1>0. ASSUME UNCHANGED <<act, requests, handle, ledger>> PROVE Funding'
  BY <1>0 DEF Funding, Funded, Backs, Named, Earned, Delivered, At
<1>2. ASSUME NEW i \in Jobs, Recover(i) PROVE Funding'
  <2>1. CASE UNCHANGED act
    BY <1>0, <1>2, <2>1 DEF Recover, database
  <2>2. CASE Move(Boot, [act[Boot] EXCEPT !.pc = "select", !.job = i, !.verdict = "failed"])
    <3> DEFINE l == [act[Boot] EXCEPT !.pc = "select", !.job = i, !.verdict = "failed"]
    <3>1. act[Boot] = Idle
      BY <1>1, <1>2 DEF Recover, Funding, Funded
    <3>2. l.pc = "select" /\ l.job = i /\ l.verdict = "failed" /\ l.mine = 0
      BY <3>1 DEF Idle
    <3> HIDE DEF l
    <3>3. Move(Boot, l)
      BY <2>2 DEF l
    <3> QED
      BY <1>1, <1>2, <3>2, <3>3, TakesUpFunds DEF Recover, database, Holding, Delivering
  <2> QED
    BY <1>2, <2>1, <2>2 DEF Recover
<1>3. CASE SharedStep(Boot)
  BY <1>1, <1>3, SharedFunds
<1>4. CASE Open \/ Stop \/ Start
  BY <1>0, <1>4 DEF Open, Stop, Start, database
<1>5. CASE Halt
  <2>1. \A a \in Actors : Funded(a)'
    BY <1>5, IdleType DEF Halt, Funded, At
  <2> QED
    BY <1>5, <2>1 DEF Halt, database, Funding, Named, Earned, Delivered
<1> QED
  BY <1>2, <1>3, <1>4, <1>5 DEF BootStep

LEMMA FundingInit == Init => Funding
<1> SUFFICES ASSUME Init PROVE Funding
  OBVIOUS
<1>1. \A a \in Actors : Funded(a)
  BY IdleType DEF Init, Funded, At
<1>2. ASSUME NEW j \in Jobs PROVE Named(j) /\ Earned(j)
  <2>1. handle[j] = 0 /\ requests[j] = <<>> /\ ledger[j] = <<>>
    BY DEF Init
  <2>2. Len(<<>>) = 0 /\ DOMAIN <<>> = {}
    OBVIOUS
  <2>3. Named(j)
    BY <2>1, <2>2 DEF Named
  <2>4. Earned(j)
    BY <2>1, <2>2 DEF Earned
  <2> QED
    BY <2>3, <2>4
<1> QED
  BY <1>1, <1>2 DEF Funding

LEMMA FundingStep == TypeOK /\ Funding /\ [Next]_vars => Funding'
<1> SUFFICES ASSUME TypeOK, Funding, [Next]_vars PROVE Funding'
  OBVIOUS
<1>1. CASE UNCHANGED vars
  BY <1>1 DEF Funding, Funded, Backs, Named, Earned, Delivered, At, vars, database
<1>2. CASE Next
  BY <1>2, WorkerFunds, FetchFunds, BeginFunds, CallerFunds, ProcessFunds DEF Next
<1> QED
  BY <1>1, <1>2

\* Whatever recordLedger writes, for however many drives, checks and cancels of a job at
\* once and wherever the process dies, a charged row has a submission behind it that the
\* provider finished or moderated.
THEOREM ChargesAreEarned == Spec => []ChargedForWork
<1>1. Funding => ChargedForWork
  BY DEF Funding, Earned, Delivered, ChargedForWork
<1>2. Spec => []TypeOK
  BY TypeCorrect
<1> QED
  BY <1>1, <1>2, FundingInit, FundingStep, PTL DEF Spec

-----------------------------------------------------------------------------
(* A step is one actor's turn, or one of the process.                       *)

\* Nobody works before the process is up, but for the start-up pass; and a worker takes
\* its turn only with a row it must claim.
Footing ==
    /\ phase = "down" => \A a \in Actors : At(a, "idle")
    /\ phase = "recovering" => \A a \in Actors \ {Boot} : At(a, "idle")
    /\ \A a \in Actors : At(a, "turn") => act[a].fresh

\* A handle is stored by an actor that was submitting, which is done with it; one starts
\* to submit where it read no handle.
HandleTurn(a) ==
    /\ \/ UNCHANGED handle
       \/ /\ Sending(a) /\ ~Sending(a)'
          /\ \A j \in Jobs \ {JobOf(a)} : handle'[j] = handle[j]
    /\ Sending(a)' => /\ UNCHANGED handle
                      /\ \/ Sending(a) /\ act'[a].job = JobOf(a)
                         \/ handle[act'[a].job] = 0
    /\ At(a, "turn")' => act'[a].fresh

\* A ledger row is written by an actor that knows of the rows there were when it looked.
LedgerTurn(a) ==
    /\ \/ UNCHANGED ledger
       \/ Recording(a) /\ ~Recording(a)' /\ WriteLedger(a)
    /\ Recording(a)' =>
          /\ UNCHANGED ledger
          /\ act'[a].entry \in 0 .. Len(ledger[act'[a].job])
          /\ act'[a].entry = 0 => Len(ledger[act'[a].job]) = 0
    /\ At(a, "commit")' =>
          /\ Recording(a) /\ WriteLedger(a)
          /\ act'[a].job = JobOf(a) /\ act'[a].verdict = act[a].verdict

\* An actor that will record no charge starts to settle where the job has not completed,
\* and a job completes by the commit of a completion.
StatusTurn(a) ==
    /\ Settling(a)' =>
          \/ Settling(a) /\ act'[a].job = JobOf(a) /\ act'[a].verdict = act[a].verdict
          \/ ChargeOf(act'[a].verdict) = "charged"
          \/ status'[act'[a].job] # "completed"
    /\ \A j \in Jobs :
          status'[j] = "completed" =>
              \/ status[j] = "completed"
              \/ At(a, "commit") /\ JobOf(a) = j /\ act[a].verdict = "completed" /\ ~Settling(a)'

\* The output: a look that finds none, the file, the index row.
ShelfTurn(a) ==
    /\ At(a, "write")' => /\ At(a, "look") /\ act'[a].job = JobOf(a)
                          /\ UNCHANGED <<files, assets>> /\ assets[JobOf(a)] = 0
    /\ \/ /\ UNCHANGED <<files, assets>> /\ ~At(a, "index")'
          /\ At(a, "index") => act'[a].pc \in {"caught", "judge"}
       \/ /\ At(a, "write") /\ At(a, "index")' /\ act'[a].job = JobOf(a)
          /\ files' = [files EXCEPT ![JobOf(a)] = @ + 1] /\ UNCHANGED assets
       \/ /\ At(a, "index") /\ ~Filing(a)'
          /\ assets' = [assets EXCEPT ![JobOf(a)] = @ + 1] /\ UNCHANGED files

Turn(a) ==
    /\ Alone(a) /\ UNCHANGED phase
    /\ At(a, "idle") /\ ~At(a, "idle")' => phase = "up" \/ (phase = "recovering" /\ a = Boot)
    /\ ~At(a, "idle")' => act'[a].job \in Jobs
    /\ HandleTurn(a) /\ LedgerTurn(a) /\ StatusTurn(a) /\ ShelfTurn(a)

\* A step of the process itself.
Life ==
    /\ UNCHANGED <<handle, ledger, status, files>>
    /\ \/ /\ UNCHANGED <<act, assets>>
          /\ phase' = phase \/ (phase # "down" /\ phase' \notin {"down", "recovering"})
       \/ UNCHANGED act /\ phase = "down" /\ phase' = "recovering" /\ assets' = files
       \/ UNCHANGED assets /\ phase' = "down" /\ act' = [a \in Actors |-> Idle]

\* Places where nothing is stored, counted or filed.
Quiet == Pcs \ {"turn", "setup", "submit", "persist", "persistInline", "look", "write", "index",
                "cancelAsk", "select", "record", "commit"}

LEMMA QuietTurn ==
    ASSUME NEW a \in Actors, Alone(a), ~At(a, "index"), act'[a].pc \in Quiet,
           act'[a].pc # "idle" => act'[a].job \in Jobs,
           UNCHANGED <<handle, ledger, files, assets, phase>>,
           \A j \in Jobs : status'[j] = status[j] \/ status'[j] # "completed",
           At(a, "idle") => phase = "up"
    PROVE  Turn(a)
<1>1. ~Sending(a)' /\ ~Recording(a)' /\ ~Settling(a)' /\ ~At(a, "turn")' /\ ~At(a, "commit")'
      /\ ~At(a, "write")' /\ ~At(a, "index")'
  BY DEF Quiet, Sending, Recording, Settling, At
<1> QED  BY <1>1 DEF Turn, HandleTurn, LedgerTurn, StatusTurn, ShelfTurn, At

\* One that moves an actor, with what it holds.
Steps(a, p, v) ==
    /\ Alone(a)
    /\ act'[a].pc = p /\ act'[a].job = JobOf(a) /\ act'[a].verdict = v
    /\ act'[a].mine = act[a].mine /\ act'[a].fresh = act[a].fresh /\ act'[a].entry = act[a].entry

LEMMA GotoSteps ==
    ASSUME ActTypeOK, NEW a \in Actors, NEW p, Goto(a, p)
    PROVE  Steps(a, p, act[a].verdict)
  BY DEF ActTypeOK, Goto, Move, Local, Steps, Alone, JobOf

LEMMA GotoWithSteps ==
    ASSUME ActTypeOK, NEW a \in Actors, NEW p, NEW v, GotoWith(a, p, v)
    PROVE  Steps(a, p, v)
  BY DEF ActTypeOK, GotoWith, Move, Local, Steps, Alone, JobOf

LEMMA ThrowSteps ==
    ASSUME ActTypeOK, NEW a \in Actors, NEW v, Throw(a, v)
    PROVE  Steps(a, "caught", v) \/ Steps(a, "judge", "failed")
  BY GotoWithSteps DEF Throw

LEMMA FinishedSteps ==
    ASSUME ActTypeOK, NEW a \in Actors, Finished(a)
    PROVE  \/ act[a].verdict \in {"moderated", "moderatedPaid"} /\ Steps(a, "caught", "stopped")
           \/ Leaves(a)
  BY GotoWithSteps, IdleLeaves DEF Finished, Unwind

LEMMA QuietSteps ==
    ASSUME ActTypeOK, NEW a \in Actors, ~At(a, "idle"), ~At(a, "index"),
           NEW p \in Quiet, NEW v, Steps(a, p, v) \/ Leaves(a),
           UNCHANGED <<handle, ledger, files, assets, phase>>,
           \A j \in Jobs : status'[j] = status[j] \/ status'[j] # "completed"
    PROVE  Turn(a)
<1>1. JobOf(a) \in Jobs  BY DEF ActTypeOK
<1>2. Alone(a) /\ act'[a].pc \in Quiet /\ (act'[a].pc # "idle" => act'[a].job \in Jobs)
  BY <1>1, IdleType DEF Steps, Leaves, Quiet, Pcs
<1> QED  BY <1>2, QuietTurn

\* An actor that goes on to a settlement with a row that has not completed.
LEMMA SettleTurn ==
    ASSUME ActTypeOK, NEW a \in Actors, ~At(a, "idle"), ~At(a, "index"),
           NEW p \in {"cancelAsk", "select"}, NEW v, Steps(a, p, v),
           UNCHANGED <<handle, ledger, files, assets, phase>>,
           \A j \in Jobs : status'[j] = status[j] \/ status'[j] # "completed",
           \/ status'[JobOf(a)] # "completed" \/ ChargeOf(v) = "charged"
           \/ Settling(a) /\ v = act[a].verdict
    PROVE  Turn(a)
<1>1. JobOf(a) \in Jobs  BY DEF ActTypeOK
<1>2. ~Sending(a)' /\ ~Recording(a)' /\ ~At(a, "turn")' /\ ~At(a, "commit")'
      /\ ~At(a, "write")' /\ ~At(a, "index")'
  BY DEF Steps, Sending, Recording, At
<1> QED  BY <1>1, <1>2 DEF Steps, Turn, HandleTurn, LedgerTurn, StatusTurn, ShelfTurn, At

LEMMA SharedTurn ==
    ASSUME TypeOK, NEW a \in Actors, SharedStep(a)
    PROVE  Turn(a)
<1> DEFINE v == act[a].verdict
           j == JobOf(a)
<1>0. ~At(a, "idle") /\ ActTypeOK /\ UNCHANGED <<handle, phase>>
  BY DEF SharedStep, Download, Look, Write, Index, FinalizeFails, Judge, Select, Record, Commit, At, TypeOK,
         database, memory
<1>1. j \in Jobs /\ act[a] \in Local  BY <1>0 DEF ActTypeOK
<1>p. {"look", "caught", "judge", "idle"} \subseteq Pcs  BY DEF Pcs, WorkerPcs, SharedPcs
<1>2. CASE Download(a)
  <2>1. UNCHANGED <<ledger, files, assets, status>> /\ act[a].pc = "download"  BY <1>2 DEF Download, At
  <2>2. CASE Goto(a, "look")
    <3>1. Steps(a, "look", v)  BY <1>0, <2>2, GotoSteps
    <3>2. ~Sending(a)' /\ ~Recording(a)' /\ ~Settling(a)' /\ ~At(a, "turn")' /\ ~At(a, "commit")'
          /\ ~At(a, "write")' /\ ~At(a, "index")'
      BY <3>1 DEF Steps, Sending, Recording, Settling, At
    <3> QED  BY <1>0, <1>1, <2>1, <3>1, <3>2 DEF Steps, Turn, HandleTurn, LedgerTurn, StatusTurn, ShelfTurn, At
  <2>3. CASE Throw(a, "undelivered") \/ Throw(a, "blank")
    <3>1. PICK p \in {"caught", "judge"} : \E u : Steps(a, p, u)  BY <1>0, <2>3, ThrowSteps
    <3> QED  BY <1>0, <1>p, <2>1, <3>1, QuietSteps DEF Quiet, At
  <2> QED  BY <1>2, <2>2, <2>3 DEF Download
<1>3. CASE Look(a)
  <2>1. UNCHANGED <<ledger, files, assets, status>> /\ act[a].pc = "look"  BY <1>3 DEF Look, At, database
  <2>2. CASE assets[j] > 0
    <3>1. Steps(a, "select", "completed")  BY <1>0, <1>3, <2>2, GotoWithSteps DEF Look
    <3> QED  BY <1>0, <2>1, <3>1, SettleTurn DEF ChargeOf, At
  <2>3. CASE ~(assets[j] > 0)
    <3>1. Steps(a, "write", v)  BY <1>0, <1>3, <2>3, GotoSteps DEF Look
    <3>2. assets[j] = 0  BY <1>1, <2>3 DEF TypeOK, StoreTypeOK
    <3>3. ~Sending(a)' /\ ~Recording(a)' /\ ~Settling(a)' /\ ~At(a, "turn")' /\ ~At(a, "commit")' /\ ~At(a, "index")'
      BY <3>1 DEF Steps, Sending, Recording, Settling, At
    <3> QED  BY <1>0, <1>1, <2>1, <3>1, <3>2, <3>3 DEF Steps, Turn, HandleTurn, LedgerTurn, StatusTurn, ShelfTurn, At
  <2> QED  BY <2>2, <2>3
<1>4. CASE Write(a)
  <2>1. UNCHANGED <<ledger, assets, status>> /\ act[a].pc = "write" /\ files' = [files EXCEPT ![j] = @ + 1]
    BY <1>4 DEF Write, At
  <2>2. Steps(a, "index", v)  BY <1>0, <1>4, GotoSteps DEF Write
  <2>3. ~Sending(a)' /\ ~Recording(a)' /\ ~Settling(a)' /\ ~At(a, "turn")' /\ ~At(a, "commit")' /\ ~At(a, "write")'
    BY <2>2 DEF Steps, Sending, Recording, Settling, At
  <2> QED  BY <1>0, <1>1, <2>1, <2>2, <2>3 DEF Steps, Turn, HandleTurn, LedgerTurn, StatusTurn, ShelfTurn, At
<1>5. CASE Index(a)
  <2>1. UNCHANGED <<ledger, files, status>> /\ act[a].pc = "index" /\ assets' = [assets EXCEPT ![j] = @ + 1]
    BY <1>5 DEF Index, At
  <2>2. Steps(a, "select", "completed")  BY <1>0, <1>5, GotoWithSteps DEF Index
  <2>3. ~Sending(a)' /\ ~Recording(a)' /\ ~At(a, "turn")' /\ ~At(a, "commit")' /\ ~Filing(a)'
        /\ ChargeOf(act'[a].verdict) = "charged" /\ ~At(a, "write")'
    BY <2>2 DEF Steps, Sending, Recording, Filing, At, ChargeOf
  <2> QED  BY <1>0, <1>1, <2>1, <2>2, <2>3 DEF Steps, Turn, HandleTurn, LedgerTurn, StatusTurn, ShelfTurn, At
<1>6. CASE FinalizeFails(a)
  <2>1. UNCHANGED <<ledger, files, status>> /\ act[a].pc \in {"write", "index"}
        /\ \/ UNCHANGED assets
           \/ act[a].pc = "index" /\ assets' = [assets EXCEPT ![j] = @ + 1]
    BY <1>6 DEF FinalizeFails, At
  <2>2. PICK p \in {"caught", "judge"} : \E u : Steps(a, p, u)  BY <1>0, <1>6, ThrowSteps DEF FinalizeFails
  <2>3. ~Sending(a)' /\ ~Recording(a)' /\ ~Settling(a)' /\ ~At(a, "turn")' /\ ~At(a, "commit")' /\ ~Filing(a)'
        /\ ~At(a, "write")' /\ ~At(a, "index")' /\ act'[a].pc = p /\ act'[a].job = j /\ Alone(a)
    BY <2>2 DEF Steps, Sending, Recording, Settling, Filing, At
  <2>4. ShelfTurn(a)  BY <2>1, <2>3 DEF ShelfTurn, At
  <2> QED  BY <1>0, <1>1, <2>1, <2>3, <2>4 DEF Turn, HandleTurn, LedgerTurn, StatusTurn, At
<1>7. CASE Judge(a)
  <2>1. UNCHANGED <<ledger, files, assets, status>> /\ act[a].pc = "judge"  BY <1>7 DEF Judge, At, database
  <2>2. CASE Finished(a)
    BY <1>0, <1>p, <2>1, <2>2, FinishedSteps, QuietSteps DEF Quiet, At
  <2>3. CASE ~Finished(a)
    <3>1. Steps(a, "select", v) /\ status[j] \notin Terminal  BY <1>0, <1>7, <2>3, GotoSteps DEF Judge
    <3> QED  BY <1>0, <2>1, <3>1, SettleTurn DEF At, Terminal
  <2> QED  BY <2>2, <2>3
<1>8. CASE Select(a)
  <2>1. UNCHANGED <<ledger, files, assets, status>> /\ act[a].pc = "select"  BY <1>8 DEF Select, At, database
  <2>2. PICK e \in 0 .. Len(ledger[j]) :
            (e = 0 <=> Len(ledger[j]) = 0) /\ Move(a, [act[a] EXCEPT !.pc = "record", !.entry = e])
    BY <1>8 DEF Select
  <2>3. Alone(a) /\ act'[a].pc = "record" /\ act'[a].job = j /\ act'[a].entry = e /\ act'[a].verdict = v
    BY <1>0, <1>1, <2>2 DEF Move, Alone, ActTypeOK, Local, JobOf
  <2>4. ~Sending(a)' /\ ~At(a, "turn")' /\ ~At(a, "commit")' /\ ~At(a, "write")' /\ ~At(a, "index")' /\ Settling(a)
    BY <2>1, <2>3 DEF Sending, Settling, At
  <2> QED  BY <1>0, <1>1, <2>1, <2>2, <2>3, <2>4 DEF Turn, HandleTurn, LedgerTurn, StatusTurn, ShelfTurn, At
<1>9. CASE Record(a)
  <2>1. UNCHANGED <<status, files, assets>> /\ act[a].pc = "record" /\ WriteLedger(a)  BY <1>9 DEF Record, At
  <2>2. Steps(a, "commit", v)  BY <1>0, <1>9, GotoSteps DEF Record
  <2>3. ~Sending(a)' /\ ~At(a, "turn")' /\ ~Recording(a)' /\ ~At(a, "write")' /\ ~At(a, "index")'
        /\ Settling(a) /\ Recording(a)
    BY <2>1, <2>2 DEF Steps, Sending, Settling, Recording, At
  <2> QED  BY <1>0, <1>1, <2>1, <2>2, <2>3 DEF Steps, Turn, HandleTurn, LedgerTurn, StatusTurn, ShelfTurn, At
<1>10. CASE Commit(a)
  <2>1. /\ UNCHANGED <<ledger, files, assets>> /\ act[a].pc = "commit"
        /\ status' = [status EXCEPT ![j] = StatusOf(v)]
    BY <1>10 DEF Commit, At
  <2>2. /\ Alone(a) /\ act'[a].pc \in {"idle", "caught"}
        /\ act'[a].pc # "idle" => act'[a].job = j
    BY <1>0, <1>10, FinishedSteps, IdleType DEF Commit, Steps, Leaves
  <2>3. ~Sending(a)' /\ ~At(a, "turn")' /\ ~Recording(a)' /\ ~At(a, "write")' /\ ~At(a, "index")'
        /\ ~Settling(a)' /\ ~At(a, "commit")'
    BY <2>2 DEF Sending, Settling, Recording, At
  <2>4. \A i \in Jobs : status'[i] = "completed" => status[i] = "completed" \/ (i = j /\ v = "completed")
    BY <1>1, <2>1 DEF TypeOK, StoreTypeOK, StatusOf
  <2>5. StatusTurn(a)  BY <2>1, <2>3, <2>4 DEF StatusTurn, At
  <2> QED  BY <1>0, <1>1, <2>1, <2>2, <2>3, <2>5 DEF Turn, HandleTurn, LedgerTurn, ShelfTurn, At
<1> QED  BY <1>2, <1>3, <1>4, <1>5, <1>6, <1>7, <1>8, <1>9, <1>10 DEF SharedStep

LEMMA WorkerTurn ==
    ASSUME TypeOK, Footing, NEW w \in Workers, WorkerStep(w) \/ PollAgain(w)
    PROVE  Turn(w)
<1> DEFINE v == act[w].verdict
           j == JobOf(w)
<1>a. w \in Actors /\ ActTypeOK  BY DEF Actors, TypeOK
<1>1. CASE SharedStep(w)  BY <1>a, <1>1, SharedTurn
<1> SUFFICES ASSUME ~SharedStep(w) PROVE Turn(w)  BY <1>1
<1>0. ~At(w, "idle") /\ ~At(w, "index") /\ ~Recording(w) /\ UNCHANGED <<ledger, files, assets, phase>>
  BY DEF WorkerStep, PollAgain, LoadSettled, Load, TakeTurn, Hold, HoldSend, SetupFails, Setup, Claim,
         SubmitAccepted, SubmitRefused, SubmitLost, SubmitUnreachable, Submitting, Persist, Poll, PollThrows,
         Caught, Requeue, database, memory, counted, At, Recording
<1>2. j \in Jobs /\ act[w] \in Local /\ handle \in [Jobs -> Nat] /\ status \in [Jobs -> Statuses]
  BY <1>a, <1>0 DEF ActTypeOK, TypeOK, StoreTypeOK
<1>p. {"claim", "poll", "hold", "holdSend", "caught", "requeue", "download"} \subseteq Quiet
  BY DEF Quiet, Pcs, WorkerPcs, SharedPcs
<1>q. \A i \in Jobs : status'[i] = status[i] \/ status'[i] # "completed"
  <2>1. status' = status \/ status' = [status EXCEPT ![j] = "running"] \/ status' = [status EXCEPT ![j] = "queued"]
    BY <1>2 DEF WorkerStep, PollAgain, LoadSettled, Load, TakeTurn, Hold, HoldSend, SetupFails, Setup, Claim,
         SubmitAccepted, SubmitRefused, SubmitLost, SubmitUnreachable, Submitting, Persist, Poll, PollThrows,
         Caught, Requeue, database
  <2> QED  BY <1>2, <2>1
\* A place that matters to the handle alone.
<1>s. ASSUME Alone(w), act'[w].pc \in {"turn", "setup", "submit", "persist", "persistInline", "poll", "claim", "hold", "download"},
             act'[w].job = j, HandleTurn(w)
      PROVE  Turn(w)
  <2>1. ~Recording(w)' /\ ~Settling(w)' /\ ~At(w, "commit")' /\ ~At(w, "write")' /\ ~At(w, "index")'
    BY <1>s DEF Recording, Settling, At
  <2> QED  BY <1>0, <1>2, <1>q, <1>s, <2>1 DEF Turn, LedgerTurn, StatusTurn, ShelfTurn
<1>4. CASE LoadSettled(w) \/ HoldSend(w) \/ (Caught(w) /\ Unwind(w))
  BY <1>a, <1>0, <1>p, <1>q, <1>4, UnwindLeaves, QuietSteps DEF LoadSettled, HoldSend, Caught, database
<1>5. CASE Load(w)
  <2>1. PICK p \in {"turn", "setup"}, f \in BOOLEAN :
           (p = "turn" => f) /\ Move(w, [act[w] EXCEPT !.pc = p, !.fresh = f, !.mine = handle[j]])
    BY <1>2, <1>5 DEF Load, Local
  <2>2. Alone(w) /\ act'[w].pc = p /\ act'[w].job = j /\ act'[w].fresh = f /\ act'[w].mine = handle[j]
    BY <1>a, <1>2, <2>1 DEF Move, Alone, ActTypeOK, Local, JobOf
  <2>3. UNCHANGED handle  BY <1>5 DEF Load, database
  <2>4. HandleTurn(w)  BY <2>1, <2>2, <2>3 DEF HandleTurn, Sending, At
  <2> QED  BY <1>s, <2>2, <2>4
<1>6. CASE TakeTurn(w)
  <2>1. PICK p \in {"setup", "hold"} : Steps(w, p, v)  BY <1>a, <1>6, GotoSteps DEF TakeTurn
  <2>2. UNCHANGED handle /\ act[w].fresh  BY <1>a, <1>6 DEF TakeTurn, database, Footing
  <2>3. HandleTurn(w)  BY <2>1, <2>2 DEF HandleTurn, Steps, Sending, At
  <2> QED  BY <1>s, <2>1, <2>3 DEF Steps
<1>7. CASE Setup(w)
  <2>1. PICK p \in {"claim", "poll", "submit"} : Steps(w, p, v) /\ (p = "submit" => ~act[w].fresh /\ act[w].mine = 0)
    BY <1>a, <1>7, GotoSteps DEF Setup
  <2>2. UNCHANGED handle /\ At(w, "setup")  BY <1>7 DEF Setup, database
  <2>3. HandleTurn(w)  BY <2>1, <2>2 DEF HandleTurn, Steps, Sending, At
  <2> QED  BY <1>s, <2>1, <2>3 DEF Steps
<1>8. CASE Claim(w)
  <2>1. PICK p \in {"poll", "submit"} :
           (p = "poll" <=> handle[j] # 0) /\ Move(w, [act[w] EXCEPT !.pc = p, !.mine = handle[j]])
    BY <1>8 DEF Claim
  <2>2. Alone(w) /\ act'[w].pc = p /\ act'[w].job = j
    BY <1>a, <1>2, <2>1 DEF Move, Alone, ActTypeOK, Local, JobOf
  <2>3. UNCHANGED handle  BY <1>8 DEF Claim
  <2>4. HandleTurn(w)  BY <2>1, <2>2, <2>3 DEF HandleTurn, Sending, At
  <2> QED  BY <1>s, <2>2, <2>4
<1>9. CASE SubmitAccepted(w)
  <2>1. PICK p \in {"persist", "persistInline"} : \E n : Move(w, [act[w] EXCEPT !.pc = p, !.mine = n])
    BY <1>9 DEF SubmitAccepted
  <2>2. Alone(w) /\ act'[w].pc = p /\ act'[w].job = j
    BY <1>a, <1>2, <2>1 DEF Move, Alone, ActTypeOK, Local, JobOf
  <2>3. UNCHANGED handle /\ Sending(w)  BY <1>9 DEF SubmitAccepted, Submitting, Sending, At
  <2>4. HandleTurn(w)  BY <2>1, <2>2, <2>3 DEF HandleTurn, Sending, At
  <2> QED  BY <1>s, <2>2, <2>4
<1>10. CASE Persist(w)
  <2>1. PICK p \in {"poll", "download"} : Steps(w, p, v)  BY <1>a, <1>10, GotoSteps DEF Persist
  <2>2. Sending(w) /\ \A i \in Jobs \ {j} : handle'[i] = handle[i]
    BY <1>2, <1>10 DEF Persist, Sending, At
  <2>3. HandleTurn(w)  BY <2>1, <2>2 DEF HandleTurn, Steps, Sending, At
  <2> QED  BY <1>s, <2>1, <2>3 DEF Steps
<1>11. CASE Hold(w) \/ Requeue(w)
  <2>1. PICK p \in {"hold", "holdSend"} : Steps(w, p, v)  BY <1>a, <1>11, GotoSteps DEF Hold, Requeue
  <2>2. UNCHANGED handle  BY <1>11 DEF Hold, Requeue
  <2> QED  BY <1>a, <1>0, <1>p, <1>q, <2>1, <2>2, QuietSteps
<1>12. CASE SetupFails(w) \/ SubmitRefused(w) \/ SubmitLost(w) \/ SubmitUnreachable(w) \/ PollThrows(w)
  <2>1. PICK u : Steps(w, "caught", u)
    BY <1>a, <1>12, GotoWithSteps DEF SetupFails, SubmitRefused, SubmitLost, SubmitUnreachable, PollThrows
  <2>2. UNCHANGED handle
    BY <1>12 DEF SetupFails, SubmitRefused, SubmitLost, SubmitUnreachable, PollThrows, Submitting, database
  <2> QED  BY <1>a, <1>0, <1>p, <1>q, <2>1, <2>2, QuietSteps
<1>13. CASE Poll(w)
  <2>1. PICK p \in {"download", "caught", "judge"} : \E u : Steps(w, p, u)
    BY <1>a, <1>13, GotoSteps, GotoWithSteps DEF Poll
  <2>2. UNCHANGED handle /\ "judge" \in Quiet  BY <1>13 DEF Poll, database, Quiet, Pcs, SharedPcs
  <2> QED  BY <1>a, <1>0, <1>p, <1>q, <2>1, <2>2, QuietSteps
<1>14. CASE Caught(w) /\ ~Unwind(w)
  <2>1. \/ Steps(w, "requeue", v)
        \/ Steps(w, "select", v) /\ status[j] \notin Terminal
    BY <1>a, <1>14, GotoSteps DEF Caught
  <2>2. UNCHANGED <<handle, status>>  BY <1>14 DEF Caught, database
  <2> QED  BY <1>a, <1>0, <1>p, <1>q, <2>1, <2>2, QuietSteps, SettleTurn DEF Terminal
<1>15. CASE PollAgain(w)
  <2>1. At(w, "poll") /\ UNCHANGED <<act, handle>>  BY <1>15 DEF PollAgain
  <2>2. Alone(w) /\ act'[w].pc = "poll" /\ act'[w].job = j  BY <2>1 DEF Alone, At, JobOf
  <2> QED  BY <1>a, <1>0, <1>2, <1>p, <1>q, <2>1, <2>2, QuietTurn
<1> QED  BY <1>4, <1>5, <1>6, <1>7, <1>8, <1>9, <1>10, <1>11, <1>12, <1>13, <1>14, <1>15 DEF WorkerStep

LEMMA CallerTurn ==
    ASSUME TypeOK, NEW c \in Callers, CallerStep(c)
    PROVE  Turn(c)
<1> DEFINE v == act[c].verdict
           j == JobOf(c)
<1>a. c \in Actors /\ ActTypeOK  BY DEF Actors, TypeOK
<1>1. CASE SharedStep(c)  BY <1>a, <1>1, SharedTurn
<1> SUFFICES ASSUME ~SharedStep(c) PROVE Turn(c)  BY <1>1
<1>0. ~At(c, "idle") /\ ~At(c, "index") /\ UNCHANGED <<handle, files, assets, phase>>
  BY DEF CallerStep, Reserve, RetryWrite, Enqueue, CancelWrite, CancelAsk, CancelRecord, CheckClaim, CheckWatch,
         CheckFails, CheckPoll, CheckThrows, Handoff, database, memory, counted, At
<1>2. j \in Jobs /\ act[c] \in Local /\ status \in [Jobs -> Statuses]
  BY <1>a, <1>0 DEF ActTypeOK, TypeOK, StoreTypeOK
<1>p. {"idle", "enqueue", "checkWatch", "check", "download", "judge", "handoff", "caught"} \subseteq Quiet
  BY DEF Quiet, Pcs, WorkerPcs, SharedPcs, CallerPcs
<1>q. \A i \in Jobs : status'[i] = status[i] \/ status'[i] # "completed"
  <2>1. status' = status \/ \E s \in {"queued", "running", "cancelled"} : status' = [status EXCEPT ![j] = s]
    BY DEF CallerStep, Reserve, RetryWrite, Enqueue, CancelWrite, CancelAsk, CancelRecord, CheckClaim,
           CheckWatch, CheckFails, CheckPoll, CheckThrows, Handoff, database
  <2> QED  BY <1>2, <2>1
<1>g. ASSUME NEW p \in Quiet, NEW u, Steps(c, p, u) \/ Leaves(c), UNCHANGED ledger PROVE Turn(c)
  BY <1>a, <1>0, <1>q, <1>g, QuietSteps
<1>4. CASE Reserve(c)
  <2>1. Steps(c, "enqueue", v) \/ Leaves(c)  BY <1>a, <1>4, GotoSteps, IdleLeaves DEF Reserve
  <2> QED  BY <1>g, <1>p, <1>4, <2>1 DEF Reserve
<1>5. CASE RetryWrite(c) \/ CheckClaim(c) \/ CheckWatch(c)
  <2>1. PICK p \in {"enqueue", "checkWatch", "check"} : Steps(c, p, v)
    BY <1>a, <1>5, GotoSteps DEF RetryWrite, CheckClaim, CheckWatch
  <2> QED  BY <1>g, <1>p, <1>5, <2>1 DEF RetryWrite, CheckClaim, CheckWatch, database
<1>6. CASE Enqueue(c) \/ CheckFails(c) \/ Handoff(c)
  <2>1. Leaves(c)  BY <1>a, <1>6, IdleLeaves, UnwindLeaves DEF Enqueue, CheckFails, Handoff, Return
  <2> QED  BY <1>g, <1>p, <1>6, <2>1 DEF Enqueue, CheckFails, Handoff, database
<1>7. CASE CancelWrite(c)
  <2>1. PICK p \in {"cancelAsk", "select"} : Steps(c, p, "withdrawn")  BY <1>a, <1>7, GotoWithSteps DEF CancelWrite
  <2>2. status'[j] = "cancelled" /\ UNCHANGED ledger  BY <1>2, <1>7 DEF CancelWrite
  <2> QED  BY <1>a, <1>0, <1>q, <2>1, <2>2, SettleTurn
<1>8. CASE CancelAsk(c)
  <2>1. Steps(c, "select", v) \/ Leaves(c)  BY <1>a, <1>8, GotoSteps, IdleLeaves DEF CancelAsk, Return
  <2>2. UNCHANGED ledger /\ Settling(c)  BY <1>8 DEF CancelAsk, database, Settling, At
  <2> QED  BY <1>a, <1>0, <1>g, <1>p, <1>q, <2>1, <2>2, SettleTurn
<1>9. CASE CancelRecord(c)
  <2>1. Leaves(c) /\ WriteLedger(c) /\ Recording(c)
    BY <1>a, <1>9, IdleLeaves DEF CancelRecord, Return, Recording
  <2>2. Alone(c) /\ At(c, "idle")'  BY <2>1, IdleType DEF Leaves, At
  <2>3. ~Sending(c)' /\ ~Recording(c)' /\ ~Settling(c)' /\ ~At(c, "turn")' /\ ~At(c, "commit")'
        /\ ~At(c, "write")' /\ ~At(c, "index")'
    BY <2>2 DEF Sending, Recording, Settling, At
  <2> QED  BY <1>0, <1>q, <2>1, <2>2, <2>3 DEF Turn, HandleTurn, LedgerTurn, StatusTurn, ShelfTurn, At
<1>10. CASE CheckPoll(c)
  <2>1. PICK p \in {"download", "judge", "handoff"} : \E u : Steps(c, p, u)
    BY <1>a, <1>10, GotoSteps, GotoWithSteps DEF CheckPoll
  <2> QED  BY <1>g, <1>p, <1>10, <2>1 DEF CheckPoll, database
<1>11. CASE CheckThrows(c)
  <2>1. PICK p \in {"caught", "judge"} : \E u : Steps(c, p, u)  BY <1>a, <1>11, ThrowSteps DEF CheckThrows
  <2> QED  BY <1>g, <1>p, <1>11, <2>1 DEF CheckThrows, database
<1> QED  BY <1>4, <1>5, <1>6, <1>7, <1>8, <1>9, <1>10, <1>11 DEF CallerStep

\* The steps that take a job up, and those of the process.
LEMMA BeginTurn ==
    ASSUME TypeOK, NEW a \in Workers \cup Callers, CallerBegins(a) \/ \E j \in Jobs : Fetch(a, j)
    PROVE  Turn(a)
<1>a. a \in Actors /\ ActTypeOK  BY DEF Actors, TypeOK
<1>1. PICK p \in {"load", "reserve", "retryWrite", "cancelWrite", "checkClaim"}, j \in Jobs :
         \/ \E f : Move(a, [act[a] EXCEPT !.pc = p, !.job = j, !.fresh = f])
         \/ \E n : Move(a, [act[a] EXCEPT !.pc = p, !.job = j, !.mine = n])
  <2>1. CASE CallerBegins(a)
    <3>1. PICK j \in Jobs : \E op : \E p \in {"reserve", "retryWrite", "cancelWrite", "checkClaim"} : Begin(a, j, op, p)
      BY <2>1, Zenon DEF CallerBegins, Create, Retry, Cancel, Check
    <3> QED  BY <3>1 DEF Begin
  <2>2. CASE \E j \in Jobs : Fetch(a, j)  BY <2>2 DEF Fetch
  <2> QED  BY <2>1, <2>2
<1>2. Alone(a) /\ act'[a].pc = p /\ act'[a].job = j  BY <1>a, <1>1 DEF Move, Alone, ActTypeOK, Local
<1>3. UNCHANGED <<database, phase>> /\ At(a, "idle") /\ phase = "up"
  BY DEF CallerBegins, Create, Retry, Cancel, Check, Begin, Fetch, memory
<1>4. p \in Quiet /\ ~At(a, "index")  BY <1>3 DEF Quiet, Pcs, WorkerPcs, CallerPcs, At
<1> QED  BY <1>a, <1>2, <1>3, <1>4, QuietTurn DEF database

LEMMA LifeOrBoot ==
    ASSUME TypeOK, BootStep \/ Start \/ Stop \/ Halt \/ UNCHANGED vars
    PROVE  Turn(Boot) \/ Life
<1>a. Boot \in Actors /\ ActTypeOK  BY DEF Actors, TypeOK
<1>1. CASE SharedStep(Boot)  BY <1>a, <1>1, SharedTurn
<1>2. ASSUME NEW j \in Jobs, Recover(j) PROVE Turn(Boot) \/ Life
  <2>1. CASE UNCHANGED act  BY <1>2, <2>1 DEF Recover, Life, database
  <2>2. CASE ~UNCHANGED act
    <3>1. Move(Boot, [act[Boot] EXCEPT !.pc = "select", !.job = j, !.verdict = "failed"]) /\ status[j] = "running"
      BY <1>2, <2>2 DEF Recover
    <3>2. Alone(Boot) /\ act'[Boot].pc = "select" /\ act'[Boot].job = j
      BY <1>a, <3>1 DEF Move, Alone, ActTypeOK, Local
    <3>3. UNCHANGED <<handle, ledger, files, assets, status, phase>> /\ phase = "recovering" /\ At(Boot, "idle")
      BY <1>2 DEF Recover, database
    <3>4. ~Sending(Boot)' /\ ~Recording(Boot)' /\ ~At(Boot, "turn")' /\ ~At(Boot, "commit")'
          /\ ~At(Boot, "write")' /\ ~At(Boot, "index")' /\ ~At(Boot, "index")
      BY <3>2, <3>3 DEF Sending, Recording, At
    <3> QED  BY <3>1, <3>2, <3>3, <3>4 DEF Turn, HandleTurn, LedgerTurn, StatusTurn, ShelfTurn
  <2> QED  BY <2>1, <2>2
<1>3. CASE Open \/ Stop \/ UNCHANGED vars
  BY <1>3 DEF Open, Stop, vars, Life, database, memory
<1>4. CASE Start  BY <1>4 DEF Start, Life
<1>5. CASE Halt  BY <1>5 DEF Halt, Life, database
<1> QED  BY <1>1, <1>2, <1>3, <1>4, <1>5 DEF BootStep

LEMMA NextTurns ==
    ASSUME TypeOK, Footing, [Next]_vars
    PROVE  Life \/ \E a \in Actors : Turn(a)
<1>a. Workers \subseteq Actors /\ Callers \subseteq Actors /\ Boot \in Actors  BY DEF Actors
<1>1. ASSUME NEW w \in Workers, WorkerStep(w) \/ PollAgain(w) \/ \E j \in Jobs : Fetch(w, j)
      PROVE  Turn(w)
  BY <1>1, WorkerTurn, BeginTurn
<1>2. ASSUME NEW c \in Callers, CallerBegins(c) \/ CallerStep(c) PROVE Turn(c)
  BY <1>2, CallerTurn, BeginTurn
<1>3. CASE BootStep \/ Start \/ Stop \/ Halt \/ UNCHANGED vars  BY <1>a, <1>3, LifeOrBoot
<1> QED  BY <1>a, <1>1, <1>2, <1>3 DEF Next

LEMMA FootingStep == TypeOK /\ Footing /\ [Next]_vars => Footing'
<1> SUFFICES ASSUME TypeOK, Footing, [Next]_vars PROVE Footing'  OBVIOUS
<1>1. ASSUME NEW a \in Actors, Turn(a) PROVE Footing'
  <2>1. Alone(a) /\ UNCHANGED phase /\ (At(a, "turn")' => act'[a].fresh)
        /\ (At(a, "idle") /\ ~At(a, "idle")' => phase = "up" \/ (phase = "recovering" /\ a = Boot))
    BY <1>1 DEF Turn, HandleTurn
  <2> QED  BY <2>1 DEF Footing, Alone, At
<1>2. CASE Life
  BY <1>2, IdleType DEF Life, Footing, At
<1> QED  BY <1>1, <1>2, NextTurns

-----------------------------------------------------------------------------
(* What has happened to a job.                                              *)

\* Two actors that are in a stretch at once are remembered.
Noticed == \A j \in Jobs, x \in Stretches : Meet(j, x) => x \in met[j]

\* What the memory adds in a step.
Remembers ==
    /\ \A j \in Jobs : met[j] \subseteq met'[j]
    /\ stray \subseteq stray'
    /\ \A a \in Actors : GivesUp(a) => JobOf(a) \in stray'

LEMMA WatchRemembers ==
    ASSUME met \in [Jobs -> SUBSET Stretches], Watch \/ UNCHANGED hvars, Noticed
    PROVE  Remembers /\ Noticed'
<1>1. CASE Watch
  <2>1. met' = [j \in Jobs |-> met[j] \cup {x \in Stretches : Meet(j, x)'}]  BY <1>1 DEF Watch
  <2>2. Noticed'  BY <2>1 DEF Noticed
  <2>3. stray' = stray \cup {JobOf(a) : a \in {b \in Actors : GivesUp(b)}}  BY <1>1 DEF Watch
  <2> QED  BY <2>1, <2>2, <2>3 DEF Remembers
<1>2. CASE UNCHANGED hvars
  <2>1. \A j \in Jobs, x \in Stretches : Meet(j, x)' <=> Meet(j, x)
    BY <1>2 DEF hvars, vars, Meet, In, Sending, Filing, Recording, Settling, At, JobOf
  <2>2. \A a \in Actors : ~GivesUp(a)
    BY <1>2 DEF hvars, vars, GivesUp, At
  <2> QED  BY <1>2, <2>1, <2>2 DEF hvars, memories, Noticed, Remembers
<1> QED  BY <1>1, <1>2

LEMMA MemoryStep == TypeOK /\ MemoryTypeOK /\ [HNext]_hvars => MemoryTypeOK'
<1> SUFFICES ASSUME TypeOK, MemoryTypeOK, [HNext]_hvars PROVE MemoryTypeOK'  OBVIOUS
<1>1. CASE UNCHANGED hvars  BY <1>1 DEF hvars, memories, MemoryTypeOK
<1>2. CASE Watch
  <2>1. met' \in [Jobs -> SUBSET Stretches]  BY <1>2 DEF Watch, MemoryTypeOK
  <2>2. stray' \subseteq Jobs
    <3>1. \A a \in Actors : GivesUp(a) => JobOf(a) \in Jobs
      BY DEF GivesUp, At, TypeOK, ActTypeOK
    <3> QED  BY <1>2, <3>1 DEF Watch, MemoryTypeOK
  <2>3. resent' \in [Jobs -> Nat]
    <3>1. \A j \in Jobs : resent[j] + (IF Doubles(j) THEN 1 ELSE 0) \in Nat  BY DEF MemoryTypeOK
    <3> QED  BY <1>2, <3>1 DEF Watch
  <2> QED  BY <2>1, <2>2, <2>3 DEF MemoryTypeOK
<1> QED  BY <1>1, <1>2 DEF HNext

\* What every proof below starts from.
Ground == TypeOK /\ Footing /\ MemoryTypeOK /\ Noticed

LEMMA HStep == [HNext]_hvars => [Next]_vars /\ (Watch \/ UNCHANGED hvars)
  BY DEF HNext, hvars

LEMMA GroundInit == HInit => Ground
<1> SUFFICES ASSUME HInit PROVE Ground  OBVIOUS
<1>1. \A a \in Actors : At(a, "idle")  BY IdleType DEF HInit, Init, At
<1>2. Footing  BY <1>1 DEF Footing, At
<1>3. Noticed
  BY <1>1 DEF Noticed, Meet, In, Sending, Filing, Recording, Settling, At
<1>4. MemoryTypeOK  BY DEF HInit, MemoryTypeOK
<1> QED  BY <1>2, <1>3, <1>4, TypeInit DEF HInit, Ground

LEMMA AlwaysGround == HSpec => []Ground
<1>1. Ground /\ [HNext]_hvars => Ground'
  <2> SUFFICES ASSUME Ground, [HNext]_hvars PROVE Ground'  OBVIOUS
  <2>1. [Next]_vars /\ (Watch \/ UNCHANGED hvars)  BY HStep
  <2> QED  BY <2>1, TypeStep, FootingStep, MemoryStep, WatchRemembers DEF Ground, MemoryTypeOK
<1> QED  BY <1>1, GroundInit, PTL DEF HSpec

\* Each step is an actor's turn or the process's, and is remembered.
LEMMA Goes ==
    ASSUME Ground, [HNext]_hvars
    PROVE  (Life \/ \E a \in Actors : Turn(a)) /\ Remembers /\ TypeOK' /\ Noticed'
<1>1. [Next]_vars /\ (Watch \/ UNCHANGED hvars)  BY HStep
<1> QED  BY <1>1, NextTurns, WatchRemembers, TypeStep DEF Ground, MemoryTypeOK

\* Two actors of a job in a stretch at once.
LEMMA TwoMeet ==
    ASSUME Ground, NEW a \in Actors, NEW b \in Actors, a # b, NEW j \in Jobs,
           JobOf(a) = j, JobOf(b) = j, NEW x \in Stretches, In(a, x), In(b, x)
    PROVE  x \in met[j]
  BY DEF Ground, Noticed, Meet

-----------------------------------------------------------------------------
(* The handle.                                                              *)

Submitted == \A a \in Actors :
    Sending(a) /\ JobOf(a) \in Jobs /\ handle[JobOf(a)] # 0 => "submitting" \in met[JobOf(a)]

LEMMA SubmittedStep == Ground /\ Submitted /\ [HNext]_hvars => Submitted'
<1> SUFFICES ASSUME Ground, Submitted, [HNext]_hvars PROVE Submitted'  OBVIOUS
<1>1. Remembers  BY Goes
<1>2. ASSUME NEW a \in Actors, Turn(a) PROVE Submitted'
  <2> SUFFICES ASSUME NEW b \in Actors, Sending(b)', NEW j \in Jobs, act'[b].job = j, handle'[j] # 0
               PROVE  "submitting" \in met'[j]
    BY DEF Submitted, JobOf
  <2>1. Alone(a) /\ HandleTurn(a)  BY <1>2 DEF Turn
  <2>2. CASE b = a
    <3>1. UNCHANGED handle /\ Sending(a) /\ JobOf(a) = j  BY <2>1, <2>2 DEF HandleTurn
    <3> QED  BY <1>1, <3>1 DEF Submitted, Remembers
  <2>3. CASE b # a
    <3>1. Sending(b) /\ JobOf(b) = j  BY <2>1, <2>3 DEF Alone, Sending, At, JobOf
    <3>2. CASE handle'[j] = handle[j]  BY <1>1, <3>1, <3>2 DEF Submitted, Remembers
    <3>3. CASE handle'[j] # handle[j]
      <4>1. Sending(a) /\ JobOf(a) = j  BY <2>1, <3>3 DEF HandleTurn
      <4>2. "submitting" \in met[j]  BY <2>3, <3>1, <4>1, TwoMeet DEF In, Stretches
      <4> QED  BY <1>1, <4>2 DEF Remembers
    <3> QED  BY <3>2, <3>3
  <2> QED  BY <2>2, <2>3
<1>3. CASE Life
  <2>1. UNCHANGED handle /\ (UNCHANGED act \/ \A a \in Actors : act'[a] = Idle)  BY <1>3 DEF Life
  <2>2. \A a \in Actors : Sending(a)' => Sending(a) /\ JobOf(a)' = JobOf(a)
    BY <2>1, IdleType DEF Sending, At, JobOf
  <2> QED  BY <1>1, <2>1, <2>2 DEF Submitted, Remembers
<1> QED  BY <1>2, <1>3, Goes

\* A handle the row of a job has is replaced only where two drives were submitting the job
\* at once, whatever is cancelled, checked, retried, held or restarted.
THEOREM HandleIsKept == HSpec => HandleUnlessMet
<1> DEFINE Keeps == \A j \in Jobs : handle[j] # 0 /\ handle'[j] # handle[j] => "submitting" \in met[j]
<1>1. Ground /\ Submitted /\ [HNext]_hvars => [Keeps]_hvars
  <2> SUFFICES ASSUME Ground, Submitted, [HNext]_hvars PROVE Keeps  OBVIOUS
  <2>1. ASSUME NEW a \in Actors, Turn(a) PROVE Keeps
    BY <2>1 DEF Turn, HandleTurn, Submitted
  <2>2. CASE Life  BY <2>2 DEF Life
  <2> QED  BY <2>1, <2>2, Goes
<1>2. HInit => Submitted
  BY DEF HInit, Init, Submitted
<1> QED  BY <1>1, <1>2, AlwaysGround, SubmittedStep, PTL DEF HSpec, HandleUnlessMet

-----------------------------------------------------------------------------
(* The ledger rows.                                                         *)

\* An actor about to write knows of a row there is, unless two were about to.
Looked(a) ==
    LET j == JobOf(a)
        e == act[a].entry
    IN  Recording(a) /\ j \in Jobs =>
            /\ e \in 0 .. Len(ledger[j])
            /\ e = 0 /\ Len(ledger[j]) # 0 => "recording" \in met[j]
Rows == /\ \A a \in Actors : Looked(a)
        /\ \A j \in Jobs : "recording" \notin met[j] => Len(ledger[j]) <= 1

LEMMA LedgerType ==
    ASSUME TypeOK, NEW j \in Jobs
    PROVE  ledger[j] \in Seq(Charges) /\ Len(ledger[j]) \in Nat
  BY DEF TypeOK, StoreTypeOK

\* What a write does to the rows.
LEMMA LedgerWritten ==
    ASSUME TypeOK, NEW a \in Actors, NEW j \in Jobs, JobOf(a) = j, WriteLedger(a),
           act[a].entry \in 0 .. Len(ledger[j])
    PROVE  /\ Len(ledger'[j]) = IF act[a].entry = 0 THEN Len(ledger[j]) + 1 ELSE Len(ledger[j])
           /\ ChargeOf(act[a].verdict) = "charged" => \E e \in DOMAIN ledger'[j] : ledger'[j][e] = "charged"
           /\ \A i \in Jobs \ {j} : ledger'[i] = ledger[i]
<1> DEFINE c == ChargeOf(act[a].verdict)
           e == act[a].entry
           row == IF e = 0 THEN Append(ledger[j], c) ELSE [ledger[j] EXCEPT ![e] = c]
<1>1. ledger[j] \in Seq(Charges) /\ Len(ledger[j]) \in Nat  BY LedgerType
<1>2. ledger'[j] = row /\ \A i \in Jobs \ {j} : ledger'[i] = ledger[i]
  BY DEF WriteLedger, TypeOK, StoreTypeOK
<1>3. c \in Charges  BY DEF ChargeOf, Charges
<1> HIDE DEF c
<1>4. CASE e = 0
  <2>1. row = Append(ledger[j], c)  BY <1>4
  <2>2. Len(row) = Len(ledger[j]) + 1 /\ row[Len(ledger[j]) + 1] = c /\ Len(ledger[j]) + 1 \in DOMAIN row
    BY <1>1, <1>3, <2>1
  <2> QED  BY <1>2, <1>4, <2>2 DEF c
<1>5. CASE e # 0
  <2>1. row = [ledger[j] EXCEPT ![e] = c] /\ e \in DOMAIN ledger[j]  BY <1>1, <1>5
  <2>2. row \in Seq(Charges) /\ DOMAIN row = DOMAIN ledger[j] /\ row[e] = c  BY <1>1, <1>3, <2>1, ReplaceInSeq
  <2>3. Len(row) = Len(ledger[j])  BY <1>1, <2>2
  <2> QED  BY <1>2, <1>5, <2>1, <2>2, <2>3 DEF c
<1> QED  BY <1>4, <1>5

LEMMA RowsStep == Ground /\ Rows /\ [HNext]_hvars => Rows'
<1> SUFFICES ASSUME Ground, Rows, [HNext]_hvars PROVE Rows'  OBVIOUS
<1>1. Remembers /\ TypeOK  BY Goes DEF Ground
<1>2. ASSUME NEW a \in Actors, Turn(a) PROVE Rows'
  <2>1. Alone(a) /\ LedgerTurn(a)  BY <1>2 DEF Turn
  <2>j. ~At(a, "idle") => JobOf(a) \in Jobs  BY <1>1 DEF TypeOK, ActTypeOK
  <2>2. CASE UNCHANGED ledger
    <3>1. ASSUME NEW b \in Actors PROVE Looked(b)'
      <4>1. CASE b = a  BY <2>1, <2>2, <4>1 DEF LedgerTurn, Looked, JobOf
      <4>2. CASE b # a
        <5>1. act'[b] = act[b] /\ Looked(b)  BY <2>1, <4>2 DEF Alone, Rows
        <5> QED  BY <1>1, <2>2, <5>1 DEF Looked, Recording, At, JobOf, Remembers
      <4> QED  BY <4>1, <4>2
    <3>2. \A j \in Jobs : "recording" \notin met'[j] => Len(ledger'[j]) <= 1
      BY <1>1, <2>2 DEF Rows, Remembers
    <3> QED  BY <3>1, <3>2 DEF Rows
  <2>3. CASE ~UNCHANGED ledger
    <3>1. Recording(a) /\ ~Recording(a)' /\ WriteLedger(a)  BY <2>1, <2>3 DEF LedgerTurn
    <3>2. PICK j \in Jobs : JobOf(a) = j  BY <2>j, <3>1 DEF Recording, At
    <3> DEFINE e == act[a].entry
    <3>3. e \in 0 .. Len(ledger[j]) /\ (e = 0 /\ Len(ledger[j]) # 0 => "recording" \in met[j])
      BY <3>1, <3>2 DEF Rows, Looked
    <3>4. /\ Len(ledger'[j]) = IF e = 0 THEN Len(ledger[j]) + 1 ELSE Len(ledger[j])
          /\ \A i \in Jobs \ {j} : ledger'[i] = ledger[i]
      BY <1>1, <3>1, <3>2, <3>3, LedgerWritten
    <3>5. Len(ledger[j]) \in Nat  BY <1>1, LedgerType
    <3>6. ASSUME NEW b \in Actors PROVE Looked(b)'
      <4> SUFFICES ASSUME Recording(b)', NEW i \in Jobs, act'[b].job = i
                   PROVE  /\ act'[b].entry \in 0 .. Len(ledger'[i])
                          /\ act'[b].entry = 0 /\ Len(ledger'[i]) # 0 => "recording" \in met'[i]
        BY DEF Looked, JobOf
      <4>1. b # a  BY <3>1
      <4>2. act'[b] = act[b] /\ Looked(b) /\ Recording(b) /\ JobOf(b) = i
        BY <2>1, <4>1 DEF Alone, Rows, Recording, At, JobOf
      <4>3. act[b].entry \in 0 .. Len(ledger[i])  BY <4>2 DEF Looked
      <4>4. CASE i = j
        <5>1. "recording" \in met[j]  BY <3>1, <3>2, <4>1, <4>2, <4>4, TwoMeet DEF In, Stretches
        <5>2. act[b].entry \in 0 .. Len(ledger'[i])  BY <3>4, <3>5, <4>3, <4>4
        <5> QED  BY <1>1, <4>2, <4>4, <5>1, <5>2 DEF Remembers
      <4>5. CASE i # j
        <5>1. ledger'[i] = ledger[i]  BY <3>4, <4>5
        <5> QED  BY <1>1, <4>2, <4>3, <5>1 DEF Looked, Remembers
      <4> QED  BY <4>4, <4>5
    <3>7. ASSUME NEW i \in Jobs, "recording" \notin met'[i] PROVE Len(ledger'[i]) <= 1
      <4>1. "recording" \notin met[i]  BY <1>1, <3>7 DEF Remembers
      <4>2. Len(ledger[i]) <= 1 /\ Len(ledger[i]) \in Nat  BY <1>1, <4>1, LedgerType DEF Rows
      <4>3. CASE i = j
        <5>1. e = 0 => Len(ledger[j]) = 0  BY <3>3, <4>1, <4>3
        <5> QED  BY <3>4, <4>2, <4>3, <5>1
      <4>4. CASE i # j  BY <3>4, <4>2, <4>4
      <4> QED  BY <4>3, <4>4
    <3> QED  BY <3>6, <3>7 DEF Rows
  <2> QED  BY <2>2, <2>3
<1>3. CASE Life
  <2>1. UNCHANGED ledger /\ (UNCHANGED act \/ \A a \in Actors : act'[a] = Idle)  BY <1>3 DEF Life
  <2>2. \A a \in Actors : Recording(a)' => act'[a] = act[a]
    BY <2>1, IdleType DEF Recording, At
  <2>3. ASSUME NEW a \in Actors PROVE Looked(a)'
    BY <1>1, <2>1, <2>2 DEF Rows, Looked, Recording, At, JobOf, Remembers
  <2>4. \A j \in Jobs : "recording" \notin met'[j] => Len(ledger'[j]) <= 1
    BY <1>1, <2>1 DEF Rows, Remembers
  <2> QED  BY <2>3, <2>4 DEF Rows
<1> QED  BY <1>2, <1>3, Goes

LEMMA AlwaysRows == HSpec => []Rows
<1>1. HInit => Rows
  <2> SUFFICES ASSUME HInit PROVE Rows  OBVIOUS
  <2>1. \A a \in Actors : ~Recording(a)  BY IdleType DEF HInit, Init, Recording, At
  <2>2. \A j \in Jobs : Len(ledger[j]) = 0  BY DEF HInit, Init
  <2> QED  BY <2>1, <2>2 DEF Rows, Looked
<1> QED  BY <1>1, AlwaysGround, RowsStep, PTL DEF HSpec

\* A job has a second ledger row only where two actors stood between the read of the
\* ledger and the write at once: recordLedger is asked in vain by nobody else.
THEOREM LedgerRowIsOne == HSpec => []RowUnlessMet
<1>1. Rows => RowUnlessMet  BY DEF Rows, RowUnlessMet
<1> QED  BY <1>1, AlwaysRows, PTL

-----------------------------------------------------------------------------
(* The charge of a completed job.                                           *)

HasCharge(j) == \E e \in DOMAIN ledger[j] : ledger[j][e] = "charged"
Overlapped(j) == "settling" \in met[j]

\* An actor that settles a completed job for nothing overlaps the one that completed it;
\* one about to complete the job has its charge.
Settlement(a) ==
    LET j == JobOf(a)
        v == act[a].verdict
    IN  j \in Jobs =>
            /\ Settling(a) /\ ChargeOf(v) # "charged" /\ status[j] = "completed" => Overlapped(j)
            /\ At(a, "commit") /\ v = "completed" => HasCharge(j) \/ Overlapped(j)
Charged == /\ \A a \in Actors : Settlement(a)
           /\ \A j \in Jobs : status[j] = "completed" => HasCharge(j) \/ Overlapped(j)

LEMMA ChargedStep == Ground /\ Rows /\ Charged /\ [HNext]_hvars => Charged'
<1> SUFFICES ASSUME Ground, Rows, Charged, [HNext]_hvars PROVE Charged'  OBVIOUS
<1>1. Remembers /\ TypeOK  BY Goes DEF Ground
<1>2. ASSUME NEW a \in Actors, Turn(a) PROVE Charged'
  <2>1. Alone(a) /\ LedgerTurn(a) /\ StatusTurn(a)  BY <1>2 DEF Turn
  <2>j. ~At(a, "idle") => JobOf(a) \in Jobs  BY <1>1 DEF TypeOK, ActTypeOK
  \* A write leaves the charge of a job, or is one of two settlements.
  <2>w. ASSUME NEW j \in Jobs, ledger'[j] # ledger[j]
        PROVE  /\ Recording(a) /\ Settling(a) /\ JobOf(a) = j
               /\ ChargeOf(act[a].verdict) = "charged" => HasCharge(j)'
    <3>1. Recording(a) /\ WriteLedger(a)  BY <2>1, <2>w DEF LedgerTurn
    <3>2. PICK i \in Jobs : JobOf(a) = i  BY <2>j, <3>1 DEF Recording, At
    <3>3. act[a].entry \in 0 .. Len(ledger[i])  BY <3>1, <3>2 DEF Rows, Looked
    <3>4. /\ ChargeOf(act[a].verdict) = "charged" => \E e \in DOMAIN ledger'[i] : ledger'[i][e] = "charged"
          /\ \A k \in Jobs \ {i} : ledger'[k] = ledger[k]
      BY <1>1, <3>1, <3>2, <3>3, LedgerWritten
    <3>5. i = j  BY <2>w, <3>4
    <3> QED  BY <3>1, <3>2, <3>4, <3>5 DEF HasCharge, Settling, Recording, At
  \* Whoever else settles the job of the actor meets it.
  <2>m. ASSUME NEW b \in Actors, b # a, NEW j \in Jobs, Settling(a), Settling(b), JobOf(a) = j, JobOf(b) = j
        PROVE  Overlapped(j)'
    BY <1>1, <2>m, TwoMeet DEF In, Stretches, Overlapped, Remembers
  <2>o. \A j \in Jobs : Overlapped(j) => Overlapped(j)'  BY <1>1 DEF Overlapped, Remembers
  <2>h. \A j \in Jobs : ledger'[j] = ledger[j] => (HasCharge(j)' <=> HasCharge(j))  BY DEF HasCharge
  <2>2. ASSUME NEW b \in Actors, NEW j \in Jobs, act'[b].job = j, Settling(b)',
               ChargeOf(act'[b].verdict) # "charged", status'[j] = "completed"
        PROVE  Overlapped(j)'
    <3>1. Settling(b) /\ JobOf(b) = j /\ act'[b].verdict = act[b].verdict
      <4>1. CASE b = a  BY <2>1, <2>2, <4>1 DEF StatusTurn
      <4>2. CASE b # a  BY <2>1, <2>2, <4>2 DEF Alone, Settling, JobOf
      <4> QED  BY <4>1, <4>2
    <3>2. CASE status[j] = "completed"  BY <2>2, <2>o, <3>1, <3>2 DEF Charged, Settlement
    <3>3. CASE status[j] # "completed"
      <4>1. At(a, "commit") /\ JobOf(a) = j /\ ~Settling(a)'  BY <2>1, <2>2, <3>3 DEF StatusTurn
      <4>2. b # a /\ Settling(a)  BY <2>2, <4>1 DEF Settling, At
      <4> QED  BY <2>m, <3>1, <4>1, <4>2
    <3> QED  BY <3>2, <3>3
  <2>3. ASSUME NEW b \in Actors, NEW j \in Jobs, act'[b].job = j, At(b, "commit")', act'[b].verdict = "completed"
        PROVE  HasCharge(j)' \/ Overlapped(j)'
    <3>1. CASE b = a
      <4>1. Recording(a) /\ WriteLedger(a) /\ JobOf(a) = j /\ act[a].verdict = "completed"
        BY <2>1, <2>3, <3>1 DEF LedgerTurn
      <4>2. act[a].entry \in 0 .. Len(ledger[j])  BY <4>1 DEF Rows, Looked
      <4>3. ChargeOf(act[a].verdict) = "charged"  BY <4>1 DEF ChargeOf
      <4> QED  BY <1>1, <4>1, <4>2, <4>3, LedgerWritten DEF HasCharge
    <3>2. CASE b # a
      <4>1. At(b, "commit") /\ JobOf(b) = j /\ act[b].verdict = "completed"
        BY <2>1, <2>3, <3>2 DEF Alone, At, JobOf
      <4>2. HasCharge(j) \/ Overlapped(j)  BY <4>1 DEF Charged, Settlement
      <4>3. CASE ledger'[j] = ledger[j]  BY <2>h, <2>o, <4>2, <4>3
      <4>4. CASE ledger'[j] # ledger[j]
        BY <2>m, <2>w, <3>2, <4>1, <4>4 DEF Settling, At
      <4> QED  BY <4>3, <4>4
    <3> QED  BY <3>1, <3>2
  <2>4. ASSUME NEW j \in Jobs, status'[j] = "completed" PROVE HasCharge(j)' \/ Overlapped(j)'
    <3>1. CASE status[j] = "completed"
      <4>1. HasCharge(j) \/ Overlapped(j)  BY <3>1 DEF Charged
      <4>2. CASE ledger'[j] = ledger[j]  BY <2>h, <2>o, <4>1, <4>2
      <4>3. CASE ledger'[j] # ledger[j]
        <5>1. Settling(a) /\ JobOf(a) = j /\ (ChargeOf(act[a].verdict) = "charged" => HasCharge(j)')
          BY <2>w, <4>3
        <5>2. ChargeOf(act[a].verdict) # "charged" => Overlapped(j)  BY <3>1, <5>1 DEF Charged, Settlement
        <5> QED  BY <2>o, <5>1, <5>2
      <4> QED  BY <4>2, <4>3
    <3>2. CASE status[j] # "completed"
      <4>1. At(a, "commit") /\ JobOf(a) = j /\ act[a].verdict = "completed"  BY <2>1, <2>4, <3>2 DEF StatusTurn
      <4>2. HasCharge(j) \/ Overlapped(j)  BY <4>1 DEF Charged, Settlement
      <4>3. ledger'[j] = ledger[j]  BY <2>w, <4>1 DEF Recording, At
      <4> QED  BY <2>h, <2>o, <4>2, <4>3
    <3> QED  BY <3>1, <3>2
  <2>5. \A b \in Actors : Settlement(b)'  BY <2>2, <2>3 DEF Settlement, JobOf
  <2> QED  BY <2>4, <2>5 DEF Charged
<1>3. CASE Life
  <2>1. UNCHANGED <<ledger, status>> /\ (UNCHANGED act \/ \A a \in Actors : act'[a] = Idle)  BY <1>3 DEF Life
  <2>2. \A a \in Actors : act'[a] = act[a] \/ (~Settling(a)' /\ ~At(a, "commit")')
    BY <2>1, IdleType DEF Settling, At
  <2>3. \A j \in Jobs : (Overlapped(j) => Overlapped(j)') /\ (HasCharge(j)' <=> HasCharge(j))
    BY <1>1, <2>1 DEF Overlapped, Remembers, HasCharge
  <2>4. ASSUME NEW a \in Actors PROVE Settlement(a)'
    <3>1. CASE act'[a] = act[a]
      BY <2>1, <2>3, <3>1 DEF Charged, Settlement, Settling, At, JobOf
    <3>2. CASE ~Settling(a)' /\ ~At(a, "commit")'  BY <3>2 DEF Settlement
    <3> QED  BY <2>2, <3>1, <3>2
  <2>5. \A j \in Jobs : status'[j] = "completed" => HasCharge(j)' \/ Overlapped(j)'
    BY <2>1, <2>3 DEF Charged
  <2> QED  BY <2>4, <2>5 DEF Charged
<1> QED  BY <1>2, <1>3, Goes

\* A completed job has its charge in the ledger, unless two settlements of it overlapped:
\* a cancel that ended, a failing drive or a check before or after never takes it away.
THEOREM CompletionIsCharged == HSpec => []ChargeUnlessMet
<1>1. Charged => ChargeUnlessMet  BY DEF Charged, HasCharge, Overlapped, ChargeUnlessMet
<1>2. HInit => Charged
  <2> SUFFICES ASSUME HInit PROVE Charged  OBVIOUS
  <2>1. \A a \in Actors : ~Settling(a) /\ ~At(a, "commit")  BY IdleType DEF HInit, Init, Settling, At
  <2>2. \A j \in Jobs : status[j] = "none"  BY DEF HInit, Init
  <2> QED  BY <2>1, <2>2 DEF Charged, Settlement
<1> QED  BY <1>1, <1>2, AlwaysGround, AlwaysRows, ChargedStep, PTL DEF HSpec

-----------------------------------------------------------------------------
(* The output.                                                              *)

\* The job was neither filed by two drives at once nor left with a file and no row.
Tidy(j) == "filing" \notin met[j] /\ j \notin stray

\* Then it has one file at most, which is indexed but for the drive that is about to.
Shelved(j) ==
    /\ files[j] <= 1 /\ assets[j] <= files[j]
    /\ phase # "down" => assets[j] = files[j] \/ \E a \in Actors : At(a, "index") /\ JobOf(a) = j
    /\ \A a \in Actors : JobOf(a) = j => /\ At(a, "write") => files[j] = 0
                                         /\ At(a, "index") => assets[j] = 0 /\ files[j] = 1
Shelves == \A j \in Jobs : Tidy(j) => Shelved(j)

LEMMA ShelvesTurn ==
    ASSUME Ground, Shelves, Remembers, Noticed', TypeOK', NEW a \in Actors, Turn(a)
    PROVE  Shelves'
<1> SUFFICES ASSUME NEW j \in Jobs, Tidy(j)' PROVE Shelved(j)'  BY DEF Shelves
<1>1. Tidy(j) /\ Shelved(j)  BY DEF Tidy, Remembers, Shelves
<1>2. Alone(a) /\ ShelfTurn(a) /\ UNCHANGED phase  BY DEF Turn
<1>3. files[j] \in Nat /\ assets[j] \in Nat /\ files \in [Jobs -> Nat] /\ assets \in [Jobs -> Nat]
  BY DEF Ground, TypeOK, StoreTypeOK
\* Two actors file the output of the job neither before the step nor after it.
<1>4. \A b, d \in Actors : JobOf(b) = j /\ JobOf(d) = j /\ Filing(b) /\ Filing(d) => b = d
  BY <1>1, TwoMeet DEF Tidy, In, Stretches
<1>5. \A b, d \in Actors : act'[b].job = j /\ act'[d].job = j /\ Filing(b)' /\ Filing(d)' => b = d
  <2>1. ~Meet(j, "filing")'  BY DEF Noticed, Tidy, Stretches
  <2> QED  BY <2>1 DEF Meet, In, JobOf
<1>6. ~(GivesUp(a) /\ JobOf(a) = j)  BY DEF Remembers, Tidy
<1>7. \A b \in Actors \ {a} : act'[b] = act[b]  BY <1>2 DEF Alone
<1>w. ASSUME NEW x \in Nat, NEW y \in Nat, files'[j] = x, assets'[j] = y, x <= 1, y <= x,
             phase # "down" => y = x \/ \E b \in Actors : act'[b].pc = "index" /\ act'[b].job = j,
             \A b \in Actors : act'[b].job = j => /\ act'[b].pc = "write" => x = 0
                                                  /\ act'[b].pc = "index" => y = 0 /\ x = 1
      PROVE  Shelved(j)'
  BY <1>2, <1>w DEF Shelved, At, JobOf
<1>8. CASE UNCHANGED <<files, assets>>
  <2>1. ~At(a, "index")' /\ (At(a, "index") => act'[a].pc \in {"caught", "judge"})
    <3>1. ASSUME NEW i \in Jobs PROVE files' # [files EXCEPT ![i] = @ + 1] /\ assets' # [assets EXCEPT ![i] = @ + 1]
      <4>1. files[i] \in Nat /\ assets[i] \in Nat  BY <1>3
      <4>2. [files EXCEPT ![i] = @ + 1][i] # files[i] /\ [assets EXCEPT ![i] = @ + 1][i] # assets[i]
        BY <1>3, <4>1
      <4> QED  BY <1>8, <4>2
    <3>2. ~At(a, "idle") => JobOf(a) \in Jobs  BY DEF Ground, TypeOK, ActTypeOK
    <3> QED  BY <1>2, <3>1, <3>2 DEF ShelfTurn, At
  <2>2. ASSUME NEW d \in Actors, At(d, "index"), JobOf(d) = j PROVE act'[d] = act[d] /\ d # a
    BY <1>6, <1>7, <1>8, <2>1, <2>2 DEF GivesUp
  <2>3. ASSUME NEW b \in Actors, act'[b].job = j, act'[b].pc = "write" PROVE files[j] = 0
    <3>1. CASE b = a
      <4>1. At(a, "look") /\ assets[j] = 0  BY <1>2, <2>3, <3>1 DEF ShelfTurn, At, JobOf
      <4>2. phase # "down"  BY <4>1 DEF Ground, Footing, At
      <4>3. ~\E d \in Actors : At(d, "index") /\ JobOf(d) = j
        BY <1>5, <2>2, <2>3, <3>1 DEF Filing, At, JobOf
      <4> QED  BY <1>1, <4>1, <4>2, <4>3 DEF Shelved
    <3>2. CASE b # a  BY <1>1, <1>7, <2>3, <3>2 DEF Shelved, At, JobOf
    <3> QED  BY <3>1, <3>2
  <2>4. ASSUME NEW b \in Actors, act'[b].job = j, act'[b].pc = "index" PROVE assets[j] = 0 /\ files[j] = 1
    BY <1>1, <1>7, <2>1, <2>4 DEF Shelved, At, JobOf
  <2>5. phase # "down" => assets[j] = files[j] \/ \E b \in Actors : act'[b].pc = "index" /\ act'[b].job = j
    BY <1>1, <2>2 DEF Shelved, At, JobOf
  <2>6. files[j] <= 1 /\ assets[j] <= files[j]  BY <1>1 DEF Shelved
  <2> QED  BY <1>3, <1>8, <1>w, <2>3, <2>4, <2>5, <2>6
<1>9. ASSUME At(a, "write"), At(a, "index")', act'[a].job = JobOf(a), UNCHANGED assets,
             files' = [files EXCEPT ![JobOf(a)] = @ + 1]
      PROVE  Shelved(j)'
  <2>1. CASE JobOf(a) = j
    <3>1. files[j] = 0 /\ assets[j] = 0  BY <1>1, <1>3, <1>9, <2>1 DEF Shelved
    <3>2. files'[j] = 1 /\ assets'[j] = 0  BY <1>3, <1>9, <2>1, <3>1
    <3>3. \A b \in Actors : act'[b].job = j => act'[b].pc # "write"
      BY <1>5, <1>9, <2>1 DEF Filing, At
    <3>4. act'[a].pc = "index" /\ act'[a].job = j  BY <1>9, <2>1 DEF At
    <3> QED  BY <1>w, <3>2, <3>3, <3>4
  <2>2. CASE JobOf(a) # j
    <3>1. files'[j] = files[j] /\ assets'[j] = assets[j]  BY <1>3, <1>9, <2>2
    <3>2. \A b \in Actors : act'[b].job = j \/ JobOf(b) = j => act'[b] = act[b]  BY <1>7, <1>9, <2>2
    <3>3. \A b \in Actors : act'[b].job = j => /\ act'[b].pc = "write" => files[j] = 0
                                               /\ act'[b].pc = "index" => assets[j] = 0 /\ files[j] = 1
      BY <1>1, <3>2 DEF Shelved, At, JobOf
    <3>4. phase # "down" => assets[j] = files[j] \/ \E b \in Actors : act'[b].pc = "index" /\ act'[b].job = j
      BY <1>1, <3>2 DEF Shelved, At, JobOf
    <3>5. files[j] <= 1 /\ assets[j] <= files[j]  BY <1>1 DEF Shelved
    <3> QED  BY <1>3, <1>w, <3>1, <3>3, <3>4, <3>5
  <2> QED  BY <2>1, <2>2
<1>10. ASSUME At(a, "index"), ~Filing(a)', UNCHANGED files, assets' = [assets EXCEPT ![JobOf(a)] = @ + 1]
       PROVE  Shelved(j)'
  <2>1. CASE JobOf(a) = j
    <3>1. files[j] = 1 /\ assets[j] = 0  BY <1>1, <1>10, <2>1 DEF Shelved
    <3>2. files'[j] = 1 /\ assets'[j] = 1  BY <1>3, <1>10, <2>1, <3>1
    <3>3. \A b \in Actors : act'[b].job = j => act'[b].pc \notin {"write", "index"}
      BY <1>4, <1>7, <1>10, <2>1 DEF Filing, At, JobOf
    <3> QED  BY <1>w, <3>2, <3>3
  <2>2. CASE JobOf(a) # j
    <3>1. files'[j] = files[j] /\ assets'[j] = assets[j]  BY <1>3, <1>10, <2>2
    <3>2. \A b \in Actors : JobOf(b) = j => act'[b] = act[b]  BY <1>7, <2>2
    <3>3. \A b \in Actors : act'[b].job = j /\ act'[b].pc \in {"write", "index"} => act'[b] = act[b]
      BY <1>7, <1>10 DEF Filing
    <3>4. \A b \in Actors : act'[b].job = j => /\ act'[b].pc = "write" => files[j] = 0
                                               /\ act'[b].pc = "index" => assets[j] = 0 /\ files[j] = 1
      BY <1>1, <3>3 DEF Shelved, At, JobOf
    <3>5. phase # "down" => assets[j] = files[j] \/ \E b \in Actors : act'[b].pc = "index" /\ act'[b].job = j
      BY <1>1, <3>2 DEF Shelved, At, JobOf
    <3>6. files[j] <= 1 /\ assets[j] <= files[j]  BY <1>1 DEF Shelved
    <3> QED  BY <1>3, <1>w, <3>1, <3>4, <3>5, <3>6
  <2> QED  BY <2>1, <2>2
<1> QED  BY <1>2, <1>8, <1>9, <1>10 DEF ShelfTurn

LEMMA ShelvesStep == Ground /\ Shelves /\ [HNext]_hvars => Shelves'
<1> SUFFICES ASSUME Ground, Shelves, [HNext]_hvars PROVE Shelves'  OBVIOUS
<1>1. Remembers /\ TypeOK' /\ Noticed'  BY Goes
<1>2. ASSUME NEW a \in Actors, Turn(a) PROVE Shelves'  BY <1>1, <1>2, ShelvesTurn
<1>3. CASE Life
  <2> SUFFICES ASSUME NEW j \in Jobs, Tidy(j)' PROVE Shelved(j)'  BY DEF Shelves
  <2>1. Shelved(j) /\ UNCHANGED files  BY <1>1, <1>3 DEF Tidy, Remembers, Shelves, Life
  <2>2. CASE UNCHANGED <<act, assets>> /\ (phase' = phase \/ (phase # "down" /\ phase' \notin {"down", "recovering"}))
    BY <2>1, <2>2 DEF Shelved, At, JobOf
  <2>3. CASE UNCHANGED act /\ phase = "down" /\ phase' = "recovering" /\ assets' = files
    <3>1. \A a \in Actors : act'[a].pc = "idle"  BY <2>3 DEF Ground, Footing, At
    <3>2. files[j] \in Nat  BY DEF Ground, TypeOK, StoreTypeOK
    <3> QED  BY <2>1, <2>3, <3>1, <3>2 DEF Shelved, At, JobOf
  <2>4. CASE UNCHANGED assets /\ phase' = "down" /\ act' = [a \in Actors |-> Idle]
    <3>1. \A a \in Actors : act'[a].pc = "idle"  BY <2>4, IdleType
    <3> QED  BY <2>1, <2>4, <3>1 DEF Shelved, At, JobOf
  <2> QED  BY <1>3, <2>2, <2>3, <2>4 DEF Life
<1> QED  BY <1>2, <1>3, Goes

\* A job is indexed twice only where two drives were filing its output at once, or where
\* one gave up between the file and the row: a drive that finds the file of an earlier
\* one, which died between the two, does not write another.
THEOREM OutputIsOne == HSpec => []OutputUnlessMet
<1>1. Ground /\ Shelves => OutputUnlessMet
  <2> SUFFICES ASSUME Ground, Shelves, NEW j \in Jobs, Tidy(j) PROVE assets[j] <= 1
    BY DEF OutputUnlessMet, Tidy
  <2>1. assets[j] \in Nat /\ files[j] \in Nat  BY DEF Ground, TypeOK, StoreTypeOK
  <2> QED  BY <2>1 DEF Shelves, Shelved
<1>2. HInit => Shelves
  <2> SUFFICES ASSUME HInit, NEW j \in Jobs PROVE Shelved(j)  BY DEF Shelves
  <2>1. files[j] = 0 /\ assets[j] = 0 /\ \A a \in Actors : At(a, "idle")  BY IdleType DEF HInit, Init, At
  <2> QED  BY <2>1 DEF Shelved, At
<1> QED  BY <1>1, <1>2, AlwaysGround, ShelvesStep, PTL DEF HSpec

-----------------------------------------------------------------------------
(* The submissions.                                                         *)

\* An actor that waits with a fresh row, and one that is about to submit, or to be held
\* again, whatever the row says by then.
Awaits(a, j) ==
    /\ act[a].job = j
    /\ \/ act[a].pc \in {"enqueue", "turn", "claim", "hold", "holdSend"}
       \/ act[a].pc \in {"load", "setup"} /\ act[a].fresh
Commits(a, j) ==
    /\ act[a].job = j
    /\ \/ act[a].pc \in {"submit", "requeue"}
       \/ act[a].pc = "setup" /\ ~act[a].fresh /\ act[a].mine = 0
       \/ act[a].pc = "caught" /\ act[a].verdict = "unreachable"

\* An actor that goes on with the handle its row has.
Resumes(a) ==
    \/ act[a].pc = "load" /\ ~act[a].fresh
    \/ act[a].pc \in {"checkClaim", "checkWatch", "check", "handoff"}

Bit(b) == IF b THEN 1 ELSE 0
Queued(j) == queue[j]["fresh"] + queue[j]["hold"]

\* A turn adds a submission, a wait or a message only for one it had, or for a
\* confirmation; a row becomes queued for one of these.
Afford(a, j) ==
    /\ Len(requests'[j]) + Bit(Commits(a, j)') + Bit(Awaits(a, j)') + Queued(j)' - confirmations'[j]
          <= Len(requests[j]) + Bit(Commits(a, j)) + Bit(Awaits(a, j)) + Queued(j) - confirmations[j]
    /\ status'[j] = "queued" =>
          \/ /\ status[j] = "queued"
             /\ Len(requests'[j]) + Bit(Commits(a, j)') - confirmations'[j]
                   <= Len(requests[j]) + Bit(Commits(a, j)) - confirmations[j]
          \/ Len(requests'[j]) + Bit(Commits(a, j)') + 1 - confirmations'[j]
                <= Len(requests[j]) + Bit(Commits(a, j)) - confirmations[j]

SubmitTurn(a) ==
    /\ Alone(a) /\ phase # "down" /\ (phase = "recovering" => a = Boot)
    /\ \A j \in Jobs :
          /\ Afford(a, j)
          /\ handle[j] # 0 => handle'[j] # 0
          /\ queue'[j]["resume"] > 0 => queue[j]["resume"] > 0 \/ handle[j] # 0
          /\ status'[j] = status[j] \/ (~At(a, "idle") /\ JobOf(a) = j)
    /\ Resumes(a)' => handle[act'[a].job] # 0
    /\ act'[a].pc = "idle" \/ act'[a].job = JobOf(a) \/ At(a, "idle")
    /\ \/ /\ UNCHANGED <<phase, todo>>
          /\ At(a, "idle") => phase # "recovering"
       \/ UNCHANGED phase /\ At(a, "idle") /\ todo' = todo \ {act'[a].job}

\* A step of the process, with the messages of the start-up pass.
SubmitLife ==
    /\ UNCHANGED <<requests, confirmations, handle, status>>
    /\ \/ /\ UNCHANGED <<queue, act>>
          /\ todo' = todo
          /\ phase' = phase \/ (phase # "down" /\ phase' \notin {"down", "recovering"})
       \/ /\ UNCHANGED <<queue, act>> /\ phase = "down" /\ phase' = "recovering"
          /\ \A j \in todo' : j \in Jobs /\ status[j] \in Active
       \/ UNCHANGED queue /\ phase' = "down" /\ act' = [a \in Actors |-> Idle]
       \/ /\ UNCHANGED act /\ phase = "recovering" /\ At(Boot, "idle") /\ UNCHANGED phase
          /\ \E j \in todo : /\ todo' = todo \ {j}
                             /\ ~(status[j] = "running" /\ handle[j] = 0)
                             /\ SendKeyed(j, IF status[j] = "running" THEN "resume" ELSE "fresh")

\* The row of a job whose messages say so has a handle; the rows #recover has yet to visit
\* are unsettled.
Handled ==
    /\ \A j \in Jobs : queue[j]["resume"] > 0 => handle[j] # 0
    /\ \A a \in Actors : Resumes(a) => handle[JobOf(a)] # 0
Unvisited ==
    phase = "recovering" =>
        /\ todo \subseteq Jobs /\ \A j \in todo : status[j] \in Active
        /\ ~At(Boot, "idle") => JobOf(Boot) \notin todo

LEMMA NumbersType ==
    ASSUME TypeOK, NEW j \in Jobs
    PROVE  /\ Len(requests[j]) \in Nat /\ confirmations[j] \in Nat /\ handle[j] \in Nat
           /\ queue[j] \in [Kinds -> Nat] /\ Queued(j) \in Nat
           /\ queue[j]["fresh"] \in Nat /\ queue[j]["hold"] \in Nat /\ queue[j]["resume"] \in Nat
  BY DEF TypeOK, StoreTypeOK, Queued, Kinds

\* A job the actor does not have is not affected.
LEMMA AffordElsewhere ==
    ASSUME TypeOK, TypeOK', NEW a \in Actors, NEW j \in Jobs,
           ~Commits(a, j)', ~Awaits(a, j)',
           Len(requests'[j]) = Len(requests[j]) \/ (Len(requests'[j]) = Len(requests[j]) + 1 /\ Commits(a, j)),
           confirmations'[j] = confirmations[j], Queued(j)' = Queued(j),
           status'[j] = status[j] \/ status'[j] # "queued"
    PROVE  Afford(a, j)
<1> DEFINE n == Len(requests[j])
           m == Len(requests'[j])
           c == confirmations[j]
           q == Queued(j)
           k == Bit(Commits(a, j))
           w == Bit(Awaits(a, j))
<1>1. n \in Nat /\ c \in Nat /\ q \in Nat  BY NumbersType
<1>2. Bit(Commits(a, j)') = 0 /\ Bit(Awaits(a, j)') = 0 /\ k \in {0, 1} /\ w \in {0, 1}
  BY DEF Bit
<1>3. m = n \/ (m = n + 1 /\ k = 1)  BY DEF Bit
<1> HIDE DEF n, m, c, q, k, w
<1>4. m + 0 + 0 + q - c <= n + k + w + q - c /\ m + 0 - c <= n + k - c
  BY <1>1, <1>2, <1>3
<1>5. /\ m + Bit(Commits(a, j)') + Bit(Awaits(a, j)') + Queued(j)' - confirmations'[j] <= n + k + w + q - c
      /\ m + Bit(Commits(a, j)') - confirmations'[j] <= n + k - c
  BY <1>2, <1>4 DEF c, q
<1> QED  BY <1>5 DEF Afford, n, m, c, q, k, w

\* Places where an actor neither waits, nor submits, nor resumes.
Free == Pcs \ {"enqueue", "turn", "claim", "hold", "holdSend", "load", "setup", "submit", "requeue",
               "caught", "checkClaim", "checkWatch", "check", "handoff"}

LEMMA FreeTurn ==
    ASSUME TypeOK, TypeOK', NEW a \in Actors, Alone(a), UNCHANGED <<phase, todo, queue, confirmations>>, ~At(a, "idle"),
           phase # "down", phase = "recovering" => a = Boot,
           act'[a].pc \in Free \/ (act'[a].pc = "caught" /\ act'[a].verdict # "unreachable"),
           act'[a].pc = "idle" \/ act'[a].job = JobOf(a),
           \A j \in Jobs : Len(requests'[j]) = Len(requests[j])
                           \/ (Len(requests'[j]) = Len(requests[j]) + 1 /\ Commits(a, j)),
           \A j \in Jobs : status'[j] = status[j] \/ (status'[j] # "queued" /\ JobOf(a) = j),
           \A j \in Jobs : handle[j] # 0 => handle'[j] # 0
    PROVE  SubmitTurn(a)
<1>1. ~Resumes(a)' /\ \A j \in Jobs : ~Commits(a, j)' /\ ~Awaits(a, j)'
  BY DEF Resumes, Commits, Awaits, Free
<1>2. \A j \in Jobs : Queued(j)' = Queued(j)  BY DEF Queued
<1>3. \A j \in Jobs : Afford(a, j)  BY <1>1, <1>2, AffordElsewhere
<1> QED  BY <1>1, <1>3 DEF SubmitTurn

\* An actor with a job is at work, and the process is up unless it is the start-up pass.
LEMMA AtWork ==
    ASSUME Footing, NEW a \in Actors, ~At(a, "idle")
    PROVE  phase # "down" /\ (phase = "recovering" => a = Boot)
  BY DEF Footing

LEMMA StepsFree ==
    ASSUME TypeOK, TypeOK', Footing, NEW a \in Actors, ~At(a, "idle"),
           UNCHANGED <<phase, todo, queue, confirmations, handle>>,
           NEW p \in Free \cup {"caught"}, NEW v, p = "caught" => v # "unreachable",
           Steps(a, p, v) \/ Leaves(a),
           \A j \in Jobs : Len(requests'[j]) = Len(requests[j])
                           \/ (Len(requests'[j]) = Len(requests[j]) + 1 /\ Commits(a, j)),
           \A j \in Jobs : status'[j] = status[j] \/ (status'[j] # "queued" /\ JobOf(a) = j)
    PROVE  SubmitTurn(a)
<1>1. /\ Alone(a)
      /\ act'[a].pc \in Free \/ (act'[a].pc = "caught" /\ act'[a].verdict # "unreachable")
      /\ act'[a].pc = "idle" \/ act'[a].job = JobOf(a)
  BY IdleType DEF Steps, Leaves, Free, Pcs
<1> QED  BY <1>1, AtWork, FreeTurn

LEMMA SharedSubmits ==
    ASSUME TypeOK, TypeOK', Footing, NEW a \in Actors, SharedStep(a)
    PROVE  SubmitTurn(a)
<1> DEFINE v == act[a].verdict
           j == JobOf(a)
<1>0. ~At(a, "idle") /\ ActTypeOK /\ UNCHANGED <<phase, todo, queue, confirmations, handle, requests>>
  BY DEF SharedStep, Download, Look, Write, Index, FinalizeFails, Judge, Select, Record, Commit, At, TypeOK,
         database, memory, counted
<1>1. j \in Jobs /\ act[a] \in Local /\ status \in [Jobs -> Statuses]  BY <1>0 DEF ActTypeOK, TypeOK, StoreTypeOK
<1>2. \A i \in Jobs : status'[i] = status[i] \/ (status'[i] # "queued" /\ JobOf(a) = i)
  <2>1. status' = status \/ status' = [status EXCEPT ![j] = StatusOf(v)]
    BY DEF SharedStep, Download, Look, Write, Index, FinalizeFails, Judge, Select, Record, Commit, database
  <2>2. StatusOf(v) # "queued"  BY DEF StatusOf
  <2> QED  BY <1>1, <2>1, <2>2
<1>3. CASE Select(a)
  <2>1. PICK e \in 0 .. Len(ledger[j]) : Move(a, [act[a] EXCEPT !.pc = "record", !.entry = e])  BY <1>3 DEF Select
  <2>2. Alone(a) /\ act'[a].pc = "record" /\ act'[a].job = j
    BY <1>0, <1>1, <2>1 DEF Move, Alone, ActTypeOK, Local, JobOf
  <2>3. "record" \in Free  BY DEF Free, Pcs, SharedPcs
  <2> QED  BY <1>0, <1>2, <2>2, <2>3, AtWork, FreeTurn
<1>4. CASE ~Select(a)
  <2>1. \/ Leaves(a)
        \/ \E p \in {"look", "write", "index", "judge", "select", "commit", "caught"} :
              \E u : (p = "caught" => u # "unreachable") /\ Steps(a, p, u)
    <3>1. CASE Download(a) \/ FinalizeFails(a)
      BY <1>0, <3>1, GotoSteps, ThrowSteps DEF Download, FinalizeFails
    <3>2. CASE Look(a) \/ Write(a) \/ Index(a) \/ Record(a)
      BY <1>0, <3>2, GotoSteps, GotoWithSteps DEF Look, Write, Index, Record
    <3>3. CASE Judge(a) \/ Commit(a)
      BY <1>0, <3>3, GotoSteps, FinishedSteps DEF Judge, Commit
    <3> QED  BY <1>4, <3>1, <3>2, <3>3 DEF SharedStep
  <2>2. {"idle", "look", "write", "index", "judge", "select", "commit"} \subseteq Free
    BY DEF Free, Pcs, SharedPcs
  <2> QED  BY <1>0, <1>2, <2>1, <2>2, StepsFree
<1> QED  BY <1>3, <1>4

\* An actor that goes on with its job, when nothing but the row may change.
LEMMA StepsAfford ==
    ASSUME TypeOK, TypeOK', Footing, NEW a \in Actors, ~At(a, "idle"), Alone(a), NEW j \in Jobs, JobOf(a) = j,
           UNCHANGED <<phase, todo, queue, confirmations, handle>>,
           \A i \in Jobs : Len(requests'[i]) = Len(requests[i]),
           act'[a].pc # "idle", act'[a].job = j, Resumes(a)' => handle[j] # 0,
           \A i \in Jobs \ {j} : status'[i] = status[i],
           Commits(a, j)' => Commits(a, j) \/ (Awaits(a, j) /\ status'[j] # "queued"),
           Awaits(a, j)' => Awaits(a, j) \/ (Commits(a, j) /\ ~Commits(a, j)'),
           status'[j] = "queued" => status[j] = "queued" \/ (Commits(a, j) /\ ~Commits(a, j)')
    PROVE  SubmitTurn(a)
<1>1. \A i \in Jobs : Queued(i)' = Queued(i)  BY DEF Queued
<1>2. \A i \in Jobs : i # j => ~Commits(a, i)' /\ ~Awaits(a, i)'  BY DEF Commits, Awaits
<1>3. \A i \in Jobs : i # j => Afford(a, i)  BY <1>1, <1>2, AffordElsewhere
<1>4. Afford(a, j)
  <2>1. Len(requests[j]) \in Nat /\ confirmations[j] \in Nat /\ Queued(j) \in Nat  BY NumbersType
  <2>2. ~(Commits(a, j)' /\ Awaits(a, j)') /\ ~(Commits(a, j) /\ Awaits(a, j))  BY DEF Commits, Awaits
  <2>3. Bit(Commits(a, j)') + Bit(Awaits(a, j)') <= Bit(Commits(a, j)) + Bit(Awaits(a, j))
    BY <2>2 DEF Bit
  <2>4. status'[j] = "queued" => \/ status[j] = "queued" /\ Bit(Commits(a, j)') <= Bit(Commits(a, j))
                                 \/ Bit(Commits(a, j)') + 1 <= Bit(Commits(a, j))
    BY DEF Bit
  <2> DEFINE n == Len(requests[j])
             c == confirmations[j]
             q == Queued(j)
             k == Bit(Commits(a, j))
             w == Bit(Awaits(a, j))
             kk == Bit(Commits(a, j)')
             ww == Bit(Awaits(a, j)')
  <2>5. k \in {0, 1} /\ w \in {0, 1} /\ kk \in {0, 1} /\ ww \in {0, 1}  BY DEF Bit
  <2> HIDE DEF n, c, q, k, w, kk, ww
  <2>6. n \in Nat /\ c \in Nat /\ q \in Nat /\ kk + ww <= k + w  BY <2>1, <2>3 DEF n, c, q, k, w, kk, ww
  <2>7. n + kk + ww + q - c <= n + k + w + q - c  BY <2>5, <2>6
  <2>8. (kk <= k => n + kk - c <= n + k - c) /\ (kk + 1 <= k => n + kk + 1 - c <= n + k - c)  BY <2>5, <2>6
  <2>9. Queued(j)' = q /\ Len(requests'[j]) = n /\ confirmations'[j] = c  BY <1>1 DEF n, c, q
  <2> QED  BY <2>4, <2>7, <2>8, <2>9 DEF Afford, n, c, q, k, w, kk, ww
<1> QED  BY <1>3, <1>4, AtWork DEF SubmitTurn

\* The queue of a job.
Messages(j, k, d) == queue' = [queue EXCEPT ![j][k] = @ + d]

LEMMA QueueWritten ==
    ASSUME TypeOK, NEW j \in Jobs, NEW k \in Kinds, NEW d \in Int, Messages(j, k, d)
    PROVE  /\ k # "resume" => Queued(j)' = Queued(j) + d /\ queue'[j]["resume"] = queue[j]["resume"]
           /\ k = "resume" => Queued(j)' = Queued(j)
           /\ \A i \in Jobs \ {j} : Queued(i)' = Queued(i) /\ queue'[i] = queue[i]
<1>1. queue \in [Jobs -> [Kinds -> Nat]]  BY DEF TypeOK, StoreTypeOK
<1>2. queue'[j] = [queue[j] EXCEPT ![k] = @ + d] /\ \A i \in Jobs \ {j} : queue'[i] = queue[i]
  BY <1>1 DEF Messages
<1>3. queue[j] \in [Kinds -> Nat]  BY <1>1
<1>4. \A i \in Jobs \ {j} : Queued(i)' = Queued(i)  BY <1>2 DEF Queued
<1>5. CASE k = "fresh"  BY <1>2, <1>3, <1>4, <1>5 DEF Queued, Kinds
<1>6. CASE k = "hold"  BY <1>2, <1>3, <1>4, <1>6 DEF Queued, Kinds
<1>7. CASE k = "resume"  BY <1>2, <1>3, <1>4, <1>7 DEF Queued, Kinds
<1> QED  BY <1>5, <1>6, <1>7 DEF Kinds

\* What a job can afford, in numbers.
LEMMA AffordNumbers ==
    ASSUME TypeOK, NEW a \in Actors, NEW j \in Jobs, Len(requests'[j]) = Len(requests[j]),
           NEW c \in {0, 1}, NEW d \in Int, confirmations'[j] = confirmations[j] + c, Queued(j)' = Queued(j) + d,
           Bit(Commits(a, j)') <= Bit(Commits(a, j)),
           Bit(Awaits(a, j)') + d <= Bit(Awaits(a, j)) + c,
           status'[j] = "queued" => status[j] = "queued" \/ c = 1
    PROVE  Afford(a, j)
<1> DEFINE n == Len(requests[j])
           m == confirmations[j]
           q == Queued(j)
           k == Bit(Commits(a, j))
           w == Bit(Awaits(a, j))
           kk == Bit(Commits(a, j)')
           ww == Bit(Awaits(a, j)')
<1>1. n \in Nat /\ m \in Nat /\ q \in Nat  BY NumbersType
<1>2. k \in {0, 1} /\ w \in {0, 1} /\ kk \in {0, 1} /\ ww \in {0, 1}  BY DEF Bit
<1> HIDE DEF n, m, q, k, w, kk, ww
<1>3. kk <= k /\ ww + d <= w + c  BY DEF k, w, kk, ww
<1>4. n + kk + ww + (q + d) - (m + c) <= n + k + w + q - m  BY <1>1, <1>2, <1>3
<1>5. n + kk - (m + c) <= n + k - m  BY <1>1, <1>2, <1>3
<1>6. c = 1 => n + kk + 1 - (m + c) <= n + k - m  BY <1>1, <1>2, <1>3
<1>7. Len(requests'[j]) = n /\ confirmations'[j] = m + c /\ Queued(j)' = q + d  BY DEF n, m, q
<1>8. status'[j] = "queued" => status[j] = "queued" \/ c = 1  OBVIOUS
<1> QED  BY <1>4, <1>5, <1>6, <1>7, <1>8 DEF Afford, n, m, q, k, w, kk, ww

\* An actor that ends with a message for its job.
LEMMA SendTurn ==
    ASSUME TypeOK, TypeOK', Footing, NEW a \in Actors, NEW j \in Jobs, JobOf(a) = j, Leaves(a), ~At(a, "idle"),
           UNCHANGED <<phase, todo, requests, confirmations, handle, status>>,
           NEW k \in Kinds, queue' = queue \/ Messages(j, k, 1),
           IF k = "resume" THEN handle[j] # 0 ELSE Awaits(a, j)
    PROVE  SubmitTurn(a)
<1>1. ~Resumes(a)' /\ Alone(a) /\ At(a, "idle")' /\ \A i \in Jobs : ~Commits(a, i)' /\ ~Awaits(a, i)'
  BY IdleType DEF Leaves, Resumes, Commits, Awaits, At, Idle
<1>2. Messages(j, k, 1) =>
         /\ k # "resume" => Queued(j)' = Queued(j) + 1 /\ queue'[j]["resume"] = queue[j]["resume"]
         /\ k = "resume" => Queued(j)' = Queued(j)
         /\ \A i \in Jobs \ {j} : Queued(i)' = Queued(i) /\ queue'[i] = queue[i]
  <2>1. 1 \in Int  OBVIOUS
  <2> QED  BY <2>1, QueueWritten
<1>3. queue' = queue => \A i \in Jobs : Queued(i)' = Queued(i) /\ queue'[i] = queue[i]  BY DEF Queued
<1>4. \A i \in Jobs \ {j} : Afford(a, i)  BY <1>1, <1>2, <1>3, AffordElsewhere
<1>5. Afford(a, j)
  <2>1. CASE Queued(j)' = Queued(j)  BY <1>1, <2>1, AffordElsewhere
  <2>2. CASE Queued(j)' # Queued(j)
    <3>1. Awaits(a, j) /\ Queued(j)' = Queued(j) + 1  BY <1>2, <1>3, <2>2
    <3>2. Bit(Commits(a, j)') <= Bit(Commits(a, j)) /\ Bit(Awaits(a, j)') + 1 <= Bit(Awaits(a, j)) + 0
      BY <1>1, <3>1 DEF Bit
    <3>3. confirmations'[j] = confirmations[j] + 0 /\ Len(requests'[j]) = Len(requests[j])  BY NumbersType
    <3>4. status'[j] = status[j] /\ 0 \in {0, 1} /\ 1 \in Int  OBVIOUS
    <3> DEFINE z == 0
    <3>5. z \in {0, 1} /\ confirmations'[j] = confirmations[j] + z
          /\ Bit(Awaits(a, j)') + 1 <= Bit(Awaits(a, j)) + z
      BY <3>2, <3>3
    <3> HIDE DEF z
    <3> QED  BY <3>1, <3>2, <3>3, <3>4, <3>5, AffordNumbers
  <2> QED  BY <2>1, <2>2
<1>6. \A i \in Jobs : queue'[i]["resume"] > 0 => queue[i]["resume"] > 0 \/ handle[i] # 0
  BY <1>2, <1>3
<1> QED  BY <1>1, <1>4, <1>5, <1>6, AtWork DEF SubmitTurn, At

\* A confirmation.
LEMMA ConfirmTurn ==
    ASSUME TypeOK, TypeOK', Footing, NEW a \in Actors, NEW j \in Jobs, JobOf(a) = j, ~At(a, "idle"),
           NEW v, Steps(a, "enqueue", v), act[a].pc \in {"reserve", "retryWrite"},
           UNCHANGED <<phase, todo, requests, handle, queue>>,
           status' = [status EXCEPT ![j] = "queued"],
           confirmations' = [confirmations EXCEPT ![j] = @ + 1]
    PROVE  SubmitTurn(a)
<1>1. /\ ~Resumes(a)' /\ Alone(a) /\ act'[a].job = j
      /\ \A i \in Jobs : ~Commits(a, i)' /\ ~Commits(a, i) /\ (i # j => ~Awaits(a, i)')
  BY DEF Steps, Resumes, Commits, Awaits
<1>2. /\ \A i \in Jobs \ {j} : status'[i] = status[i] /\ confirmations'[i] = confirmations[i]
      /\ confirmations'[j] = confirmations[j] + 1
  BY DEF TypeOK, StoreTypeOK
<1>3. \A i \in Jobs : Queued(i)' = Queued(i) /\ Queued(i)' = Queued(i) + 0  BY NumbersType DEF Queued
<1>4. \A i \in Jobs \ {j} : Afford(a, i)  BY <1>1, <1>2, <1>3, AffordElsewhere
<1>5. Bit(Commits(a, j)') <= Bit(Commits(a, j)) /\ Bit(Awaits(a, j)') + 0 <= Bit(Awaits(a, j)) + 1
  BY <1>1 DEF Bit
<1>6. Afford(a, j)  BY <1>2, <1>3, <1>5, AffordNumbers
<1> QED  BY <1>1, <1>2, <1>4, <1>6, AtWork DEF SubmitTurn

LEMMA WorkerSubmits ==
    ASSUME TypeOK, TypeOK', Footing, Funding, Handled, NEW w \in Workers, WorkerStep(w) \/ PollAgain(w)
    PROVE  SubmitTurn(w)
<1> DEFINE v == act[w].verdict
<1>a. w \in Actors /\ ActTypeOK  BY DEF Actors, TypeOK
<1>1. CASE SharedStep(w)  BY <1>a, <1>1, SharedSubmits
<1> SUFFICES ASSUME ~SharedStep(w) PROVE SubmitTurn(w)  BY <1>1
<1>0. ~At(w, "idle") /\ UNCHANGED <<phase, todo, confirmations>>
  BY DEF WorkerStep, PollAgain, LoadSettled, Load, TakeTurn, Hold, HoldSend, SetupFails, Setup, Claim,
         SubmitAccepted, SubmitRefused, SubmitLost, SubmitUnreachable, Submitting, Persist, Poll, PollThrows,
         Caught, Requeue, database, memory, counted, At
<1>2. PICK j \in Jobs : JobOf(w) = j  BY <1>a, <1>0 DEF ActTypeOK
<1>3. act[w] \in Local /\ handle \in [Jobs -> Nat] /\ status \in [Jobs -> Statuses]
  BY <1>a DEF ActTypeOK, TypeOK, StoreTypeOK
<1>f. {"poll", "download", "persist", "persistInline", "select", "idle", "judge"} \subseteq Free
  BY DEF Free, Pcs, WorkerPcs, SharedPcs
<1>4. CASE LoadSettled(w) \/ (Caught(w) /\ Unwind(w))
  <2>1. Leaves(w) /\ UNCHANGED <<queue, handle, status, requests>>
    BY <1>a, <1>4, UnwindLeaves DEF LoadSettled, Caught, database
  <2> QED  BY <1>a, <1>0, <1>f, <2>1, StepsFree
<1>5. CASE Load(w)
  <2>1. PICK p \in {"turn", "setup"}, f \in BOOLEAN :
           /\ f <=> act[w].fresh /\ status[j] = "queued"
           /\ p = "turn" => f
           /\ Move(w, [act[w] EXCEPT !.pc = p, !.fresh = f, !.mine = handle[j]])
    BY <1>2, <1>3, <1>5 DEF Load, Local
  <2>2. Alone(w) /\ act'[w].pc = p /\ act'[w].job = j /\ act'[w].fresh = f /\ act'[w].mine = handle[j]
    BY <1>a, <1>2, <1>3, <2>1 DEF Move, Alone, ActTypeOK, Local, JobOf
  <2>3. UNCHANGED <<queue, handle, status, requests>> /\ At(w, "load")  BY <1>5 DEF Load, database
  <2>4. ~act[w].fresh => handle[j] # 0  BY <1>a, <1>2, <2>3 DEF Handled, Resumes, At
  <2>5. ~Resumes(w)'  BY <2>2 DEF Resumes
  <2>6. Commits(w, j)' => Awaits(w, j) /\ status'[j] # "queued"
    BY <1>2, <2>1, <2>2, <2>3, <2>4 DEF Commits, Awaits, At, JobOf
  <2>7. Awaits(w, j)' => Awaits(w, j)  BY <1>2, <2>1, <2>2, <2>3 DEF Awaits, At, JobOf
  <2> QED  BY <1>a, <1>0, <1>2, <2>2, <2>3, <2>5, <2>6, <2>7, StepsAfford
<1>6. CASE TakeTurn(w) \/ Hold(w) \/ Setup(w)
  <2>1. UNCHANGED <<queue, handle, status, requests>>  BY <1>6 DEF TakeTurn, Hold, Setup, database
  <2>2. \/ act[w].pc \in {"turn", "hold"} /\ \E p \in {"setup", "hold", "holdSend"} : Steps(w, p, v) /\ (p = "setup" => act[w].fresh)
        \/ act[w].pc = "setup" /\ \E p \in {"claim", "poll", "submit"} :
               /\ Steps(w, p, v) /\ (p = "claim" => act[w].fresh)
               /\ p = "submit" => ~act[w].fresh /\ act[w].mine = 0
    <3>1. CASE TakeTurn(w)  BY <1>a, <3>1, GotoSteps DEF TakeTurn, Footing, At
    <3>2. CASE Hold(w)  BY <1>a, <3>2, GotoSteps DEF Hold, At
    <3>3. CASE Setup(w)  BY <1>a, <3>3, GotoSteps DEF Setup, At
    <3> QED  BY <1>6, <3>1, <3>2, <3>3
  <2>3. Alone(w) /\ act'[w].pc # "idle" /\ act'[w].job = j /\ ~Resumes(w)'
    BY <1>2, <2>2 DEF Steps, Resumes
  <2>4. Commits(w, j)' => Commits(w, j)  BY <1>2, <2>2 DEF Steps, Commits, JobOf
  <2>5. Awaits(w, j)' => Awaits(w, j)  BY <1>2, <2>2 DEF Steps, Awaits, JobOf
  <2> QED  BY <1>a, <1>0, <1>2, <2>1, <2>3, <2>4, <2>5, StepsAfford
<1>7. CASE Claim(w)
  <2>1. PICK p \in {"poll", "submit"} : Move(w, [act[w] EXCEPT !.pc = p, !.mine = handle[j]])
    BY <1>2, <1>7 DEF Claim
  <2>2. Alone(w) /\ act'[w].pc = p /\ act'[w].job = j
    BY <1>a, <1>2, <1>3, <2>1 DEF Move, Alone, ActTypeOK, Local, JobOf
  <2>3. UNCHANGED <<queue, handle, requests>> /\ At(w, "claim")  BY <1>7 DEF Claim
  <2>4. status'[j] # "queued" /\ \A i \in Jobs \ {j} : status'[i] = status[i]  BY <1>2, <1>3, <1>7 DEF Claim
  <2>5. ~Resumes(w)' /\ ~Awaits(w, j)' /\ Awaits(w, j)
    BY <1>2, <2>2, <2>3 DEF Resumes, Awaits, At, JobOf
  <2> QED  BY <1>a, <1>0, <1>2, <2>2, <2>3, <2>4, <2>5, StepsAfford
<1>8. CASE SubmitAccepted(w)
  <2>1. PICK p \in {"persist", "persistInline"} : \E n : Move(w, [act[w] EXCEPT !.pc = p, !.mine = n])
    BY <1>8 DEF SubmitAccepted
  <2>2. Alone(w) /\ act'[w].pc = p /\ act'[w].job = j
    BY <1>a, <1>2, <1>3, <2>1 DEF Move, Alone, ActTypeOK, Local, JobOf
  <2>3. UNCHANGED <<queue, handle, status>> /\ At(w, "submit")  BY <1>8 DEF SubmitAccepted, Submitting
  <2>4. \E st \in RequestStates : requests' = [requests EXCEPT ![j] = Append(@, st)]
    BY <1>2, <1>8 DEF SubmitAccepted, RequestStates
  <2>5. Commits(w, j)  BY <1>2, <2>3 DEF Commits, At, JobOf
  <2>6. \A i \in Jobs : Len(requests'[i]) = Len(requests[i]) \/ (Len(requests'[i]) = Len(requests[i]) + 1 /\ Commits(w, i))
    BY <2>4, <2>5, AppendGrown DEF TypeOK, StoreTypeOK
  <2> QED  BY <1>a, <1>0, <1>2, <1>f, <2>2, <2>3, <2>6, AtWork, FreeTurn
<1>9. CASE SubmitRefused(w) \/ SubmitLost(w) \/ SetupFails(w) \/ PollThrows(w)
  <2>1. PICK u \in {"failed", "rejected", "stopped"} : Steps(w, "caught", u)
    BY <1>a, <1>9, GotoWithSteps DEF SubmitRefused, SubmitLost, SetupFails, PollThrows
  <2>2. UNCHANGED <<queue, handle, status>>
    BY <1>9 DEF SubmitRefused, SubmitLost, SetupFails, PollThrows, Submitting, database
  <2>3. requests' = requests \/ (At(w, "submit") /\ requests' = [requests EXCEPT ![j] = Append(@, "working")])
    BY <1>2, <1>9 DEF SubmitRefused, SubmitLost, SetupFails, PollThrows, Submitting
  <2>4. At(w, "submit") => Commits(w, j)  BY <1>2 DEF Commits, At, JobOf
  <2>5. \A i \in Jobs : Len(requests'[i]) = Len(requests[i]) \/ (Len(requests'[i]) = Len(requests[i]) + 1 /\ Commits(w, i))
    BY <2>3, <2>4, AppendGrown DEF TypeOK, StoreTypeOK, RequestStates
  <2> QED  BY <1>a, <1>0, <2>1, <2>2, <2>5, StepsFree
<1>10. CASE SubmitUnreachable(w)
  <2>1. Steps(w, "caught", "unreachable")  BY <1>a, <1>10, GotoWithSteps DEF SubmitUnreachable
  <2>2. UNCHANGED <<queue, handle, status, requests>> /\ At(w, "submit")  BY <1>10 DEF SubmitUnreachable, Submitting
  <2>3. Alone(w) /\ act'[w].pc # "idle" /\ act'[w].job = j /\ ~Resumes(w)' /\ ~Awaits(w, j)' /\ Commits(w, j)
    BY <1>2, <2>1, <2>2 DEF Steps, Resumes, Awaits, Commits, At, JobOf
  <2> QED  BY <1>a, <1>0, <1>2, <2>2, <2>3, StepsAfford
<1>11. CASE Persist(w)
  <2>1. PICK p \in {"poll", "download"} : Steps(w, p, v)  BY <1>a, <1>11, GotoSteps DEF Persist
  <2>2. UNCHANGED <<queue, status, requests>> /\ handle' = [handle EXCEPT ![j] = act[w].mine]
        /\ act[w].pc \in {"persist", "persistInline"}
    BY <1>2, <1>11 DEF Persist, At
  <2>3. act[w].mine > 0  BY <1>a, <1>0, <2>2, OnItsWay DEF Holding
  <2>4. \A i \in Jobs : handle[i] # 0 => handle'[i] # 0  BY <1>3, <2>2, <2>3
  <2>5. Alone(w) /\ act'[w].pc = p /\ act'[w].job = j  BY <1>2, <2>1 DEF Steps
  <2> QED  BY <1>a, <1>0, <1>2, <1>f, <2>2, <2>4, <2>5, AtWork, FreeTurn
<1>12. CASE Poll(w)
  <2>1. PICK p \in {"download", "judge", "caught"},
             u \in {v, "failed", "rejected", "stopped", "moderated", "moderatedPaid"} :
             Steps(w, p, u) /\ (p = "caught" => u \in {"failed", "rejected", "stopped"})
    BY <1>a, <1>12, GotoSteps, GotoWithSteps DEF Poll
  <2>2. UNCHANGED <<queue, handle, status>> /\ At(w, "poll")  BY <1>12 DEF Poll, database
  <2>3. PICK st \in RequestStates : Answer(w, st)  BY <1>12 DEF Poll, RequestStates
  <2>4. act[w].mine > 0 /\ act[w].mine <= Len(requests[j])
    BY <1>a, <1>0, <1>2, <2>2, OnItsWay DEF Holding, At
  <2>5. \A i \in Jobs : Len(requests'[i]) = Len(requests[i])  BY <1>a, <1>2, <2>3, <2>4, AnswerGrown
  <2> QED  BY <1>a, <1>0, <1>f, <2>1, <2>2, <2>5, StepsFree
<1>13. CASE PollAgain(w)
  <2>1. At(w, "poll") /\ UNCHANGED <<act, queue, handle, status, requests>>  BY <1>13 DEF PollAgain
  <2>2. Alone(w) /\ act'[w].pc = "poll" /\ act'[w].job = j  BY <1>2, <2>1 DEF Alone, At, JobOf
  <2> QED  BY <1>a, <1>0, <1>2, <1>f, <2>1, <2>2, AtWork, FreeTurn
<1>14. CASE Caught(w) /\ ~Unwind(w)
  <2>1. UNCHANGED <<queue, handle, status, requests>> /\ At(w, "caught")  BY <1>14 DEF Caught, database
  <2>2. Steps(w, "select", v) \/ (Steps(w, "requeue", v) /\ v = "unreachable")
    BY <1>a, <1>14, GotoSteps DEF Caught
  <2>3. CASE Steps(w, "select", v)  BY <1>a, <1>0, <1>f, <2>1, <2>3, StepsFree
  <2>4. CASE Steps(w, "requeue", v) /\ v = "unreachable"
    <3>1. Alone(w) /\ act'[w].pc # "idle" /\ act'[w].job = j /\ ~Resumes(w)' /\ ~Awaits(w, j)' /\ Commits(w, j)
      BY <1>2, <2>1, <2>4 DEF Steps, Resumes, Awaits, Commits, At, JobOf
    <3> QED  BY <1>a, <1>0, <1>2, <2>1, <3>1, StepsAfford
  <2> QED  BY <2>2, <2>3, <2>4
<1>15. CASE Requeue(w)
  <2>1. UNCHANGED <<queue, handle, requests>> /\ At(w, "requeue") /\ status' = [status EXCEPT ![j] = "queued"]
    BY <1>2, <1>15 DEF Requeue
  <2>2. Steps(w, "hold", v)  BY <1>a, <1>15, GotoSteps DEF Requeue
  <2>3. Alone(w) /\ act'[w].pc # "idle" /\ act'[w].job = j /\ ~Resumes(w)' /\ ~Commits(w, j)' /\ Commits(w, j)
    BY <1>2, <2>1, <2>2 DEF Steps, Resumes, Commits, At, JobOf
  <2>4. \A i \in Jobs \ {j} : status'[i] = status[i]  BY <1>3, <2>1
  <2> QED  BY <1>a, <1>0, <1>2, <2>1, <2>3, <2>4, StepsAfford
<1>16. CASE HoldSend(w)
  <2>1. /\ UNCHANGED <<handle, status, requests>> /\ At(w, "holdSend")
        /\ Messages(j, "hold", 1) /\ Leaves(w)
    BY <1>a, <1>2, <1>16, UnwindLeaves DEF Messages, HoldSend, database
  <2>2. Awaits(w, j) /\ "hold" \in Kinds  BY <1>2, <2>1 DEF Awaits, At, JobOf, Kinds
  <2> QED  BY <1>a, <1>0, <1>2, <2>1, <2>2, SendTurn
<1> QED  BY <1>4, <1>5, <1>6, <1>7, <1>8, <1>9, <1>10, <1>11, <1>12, <1>13, <1>14, <1>15, <1>16 DEF WorkerStep

LEMMA CallerSubmits ==
    ASSUME TypeOK, TypeOK', Footing, Funding, Handled, NEW c \in Callers, CallerStep(c)
    PROVE  SubmitTurn(c)
<1> DEFINE v == act[c].verdict
<1>a. c \in Actors /\ ActTypeOK  BY DEF Actors, TypeOK
<1>1. CASE SharedStep(c)  BY <1>a, <1>1, SharedSubmits
<1> SUFFICES ASSUME ~SharedStep(c) PROVE SubmitTurn(c)  BY <1>1
<1>0. ~At(c, "idle") /\ UNCHANGED <<phase, todo, handle>>
  BY DEF CallerStep, Reserve, RetryWrite, Enqueue, CancelWrite, CancelAsk, CancelRecord, CheckClaim, CheckWatch,
         CheckFails, CheckPoll, CheckThrows, Handoff, database, memory, counted, At
<1>2. PICK j \in Jobs : JobOf(c) = j  BY <1>a, <1>0 DEF ActTypeOK
<1>3. act[c] \in Local /\ status \in [Jobs -> Statuses] /\ confirmations \in [Jobs -> Nat]
  BY <1>a DEF ActTypeOK, TypeOK, StoreTypeOK
<1>f. {"select", "cancelAsk", "download", "idle", "judge"} \subseteq Free
  BY DEF Free, Pcs, CallerPcs, SharedPcs
<1>4. CASE Reserve(c) \/ RetryWrite(c)
  <2>1. CASE confirmations' = confirmations
    <3>1. Leaves(c) /\ UNCHANGED <<queue, status, requests>>
      <4>1. confirmations[j] \in Nat  BY <1>3
      <4>2. confirmations' # [confirmations EXCEPT ![j] = @ + 1]  BY <1>3, <2>1, <4>1
      <4> QED  BY <1>a, <1>2, <1>4, <4>2, IdleLeaves DEF Reserve, RetryWrite
    <3> QED  BY <1>a, <1>0, <1>f, <2>1, <3>1, StepsFree
  <2>2. CASE confirmations' # confirmations
    <3>1. /\ confirmations' = [confirmations EXCEPT ![j] = @ + 1] /\ status' = [status EXCEPT ![j] = "queued"]
          /\ UNCHANGED <<queue, requests>> /\ Steps(c, "enqueue", v) /\ act[c].pc \in {"reserve", "retryWrite"}
      BY <1>a, <1>2, <1>4, <2>2, GotoSteps DEF Reserve, RetryWrite, At
    <3> QED  BY <1>a, <1>0, <1>2, <3>1, ConfirmTurn
  <2> QED  BY <2>1, <2>2
<1>5. CASE Enqueue(c)
  <2>1. /\ UNCHANGED <<status, requests, confirmations>> /\ Leaves(c) /\ At(c, "enqueue")
        /\ queue' = queue \/ Messages(j, "fresh", 1)
    BY <1>a, <1>2, <1>5, IdleLeaves DEF Messages, Enqueue, Return, SendKeyed, database, counted
  <2>2. Awaits(c, j) /\ "fresh" \in Kinds  BY <1>2, <2>1 DEF Awaits, At, JobOf, Kinds
  <2> QED  BY <1>a, <1>0, <1>2, <2>1, <2>2, SendTurn
<1>6. CASE Handoff(c)
  <2>1. /\ UNCHANGED <<status, requests, confirmations>> /\ Leaves(c) /\ At(c, "handoff")
        /\ queue' = queue \/ Messages(j, "resume", 1)
    BY <1>a, <1>2, <1>6, UnwindLeaves DEF Messages, Handoff, SendKeyed, counted
  <2>2. handle[j] # 0 /\ "resume" \in Kinds  BY <1>a, <1>2, <2>1 DEF Handled, Resumes, At, Kinds
  <2> QED  BY <1>a, <1>0, <1>2, <2>1, <2>2, SendTurn
<1>7. CASE CancelWrite(c)
  <2>1. PICK p \in {"cancelAsk", "select"} : Steps(c, p, "withdrawn")  BY <1>a, <1>7, GotoWithSteps DEF CancelWrite
  <2>2. UNCHANGED <<queue, requests, confirmations>> /\ status' = [status EXCEPT ![j] = "cancelled"]
    BY <1>2, <1>7 DEF CancelWrite, counted
  <2>3. \A i \in Jobs : status'[i] = status[i] \/ (status'[i] # "queued" /\ JobOf(c) = i)  BY <1>2, <1>3, <2>2
  <2> QED  BY <1>a, <1>0, <1>f, <2>1, <2>2, <2>3, StepsFree
<1>8. CASE CancelAsk(c) \/ CancelRecord(c) \/ CheckFails(c)
  <2>1. Leaves(c) \/ Steps(c, "select", v)
    BY <1>a, <1>8, GotoSteps, IdleLeaves, UnwindLeaves DEF CancelAsk, CancelRecord, CheckFails, Return
  <2>2. UNCHANGED <<queue, requests, confirmations, status>>
    BY <1>8 DEF CancelAsk, CancelRecord, CheckFails, database, counted
  <2> QED  BY <1>a, <1>0, <1>f, <2>1, <2>2, StepsFree
<1>9. CASE CheckThrows(c)
  <2>1. PICK p \in {"caught", "judge"} : Steps(c, p, "failed")  BY <1>a, <1>9, ThrowSteps DEF CheckThrows
  <2>2. UNCHANGED <<queue, requests, confirmations, status>>  BY <1>9 DEF CheckThrows, database, counted
  <2> QED  BY <1>a, <1>0, <1>f, <2>1, <2>2, StepsFree
<1>10. CASE CheckPoll(c)
  <2>1. PICK p \in {"download", "judge", "handoff"} : \E u : Steps(c, p, u)
    BY <1>a, <1>10, GotoSteps, GotoWithSteps DEF CheckPoll
  <2>2. UNCHANGED <<queue, confirmations, status>> /\ At(c, "check")  BY <1>10 DEF CheckPoll, database, counted
  <2>3. PICK st \in RequestStates : Answer(c, st)  BY <1>10 DEF CheckPoll, RequestStates
  <2>4. act[c].mine > 0 /\ act[c].mine <= Len(requests[j])
    BY <1>a, <1>0, <1>2, <2>2, OnItsWay DEF Holding, At
  <2>5. \A i \in Jobs : Len(requests'[i]) = Len(requests[i])  BY <1>a, <1>2, <2>3, <2>4, AnswerGrown
  <2>6. CASE p # "handoff"  BY <1>a, <1>0, <1>f, <2>1, <2>2, <2>5, <2>6, StepsFree
  <2>7. CASE p = "handoff"
    <3>1. Alone(c) /\ act'[c].pc # "idle" /\ act'[c].job = j /\ ~Commits(c, j)' /\ ~Awaits(c, j)'
      BY <1>2, <2>1, <2>7 DEF Steps, Commits, Awaits
    <3>2. handle[j] # 0  BY <1>a, <1>2, <2>2 DEF Handled, Resumes, At
    <3> QED  BY <1>a, <1>0, <1>2, <2>2, <2>5, <3>1, <3>2, StepsAfford
  <2> QED  BY <2>6, <2>7
<1>11. CASE CheckClaim(c) \/ CheckWatch(c)
  <2>1. PICK p \in {"checkWatch", "check"} : Steps(c, p, v)  BY <1>a, <1>11, GotoSteps DEF CheckClaim, CheckWatch
  <2>2. /\ UNCHANGED <<queue, confirmations, requests>> /\ act[c].pc \in {"checkClaim", "checkWatch"}
        /\ status' = status \/ status' = [status EXCEPT ![j] = "running"]
    BY <1>2, <1>11 DEF CheckClaim, CheckWatch, database, counted, At
  <2>3. Alone(c) /\ act'[c].pc # "idle" /\ act'[c].job = j /\ ~Commits(c, j)' /\ ~Awaits(c, j)'
    BY <1>2, <2>1 DEF Steps, Commits, Awaits
  <2>4. handle[j] # 0  BY <1>a, <1>2, <2>2 DEF Handled, Resumes
  <2>5. (status'[j] = "queued" => status[j] = "queued") /\ \A i \in Jobs \ {j} : status'[i] = status[i]
    BY <1>3, <2>2
  <2> QED  BY <1>a, <1>0, <1>2, <2>2, <2>3, <2>4, <2>5, StepsAfford
<1> QED  BY <1>4, <1>5, <1>6, <1>7, <1>8, <1>9, <1>10, <1>11 DEF CallerStep

\* The steps that take a job up.
LEMMA FetchSubmits ==
    ASSUME TypeOK, TypeOK', Handled, NEW w \in Workers, NEW j \in Jobs, Fetch(w, j)
    PROVE  SubmitTurn(w)
<1>a. w \in Actors /\ ActTypeOK  BY DEF Actors, TypeOK
<1>1. PICK k \in Kinds : /\ queue[j][k] > 0 /\ queue' = [queue EXCEPT ![j][k] = @ - 1]
                         /\ Move(w, [act[w] EXCEPT !.pc = "load", !.job = j, !.fresh = (k # "resume")])
  BY DEF Fetch
<1>2. /\ Alone(w) /\ act'[w].pc = "load" /\ act'[w].job = j /\ act'[w].fresh = (k # "resume")
  BY <1>a, <1>1 DEF Move, Alone, ActTypeOK, Local
<1>3. /\ UNCHANGED <<phase, todo, requests, confirmations, handle, status>>
      /\ At(w, "idle") /\ phase = "up"
  BY DEF Fetch, database, memory, counted
<1>4. Messages(j, k, -1)
  <2>1. queue \in [Jobs -> [Kinds -> Nat]]  BY DEF TypeOK, StoreTypeOK
  <2>2. queue[j][k] - 1 = queue[j][k] + (-1)  BY <2>1
  <2> QED  BY <1>1, <2>2 DEF Messages
<1>5. /\ k # "resume" => Queued(j)' = Queued(j) + (-1) /\ queue'[j]["resume"] = queue[j]["resume"]
      /\ k = "resume" => Queued(j)' = Queued(j)
      /\ \A i \in Jobs \ {j} : Queued(i)' = Queued(i) /\ queue'[i] = queue[i]
  <2>1. -1 \in Int  OBVIOUS
  <2> QED  BY <1>4, <2>1, QueueWritten
<1>6. /\ \A i \in Jobs : ~Commits(w, i)' /\ ~Commits(w, i) /\ ~Awaits(w, i) /\ (i # j => ~Awaits(w, i)')
      /\ k = "resume" => ~Awaits(w, j)'
  BY <1>2, <1>3 DEF Commits, Awaits, At
<1>7. \A i \in Jobs \ {j} : Afford(w, i)  BY <1>a, <1>3, <1>5, <1>6, AffordElsewhere
<1>8. Afford(w, j)
  <2>1. CASE k = "resume"  BY <1>a, <1>3, <1>5, <1>6, <2>1, AffordElsewhere
  <2>2. CASE k # "resume"
    <3> DEFINE z == 0
               m == -1
    <3>1. z \in {0, 1} /\ m \in Int /\ confirmations'[j] = confirmations[j] + z /\ Queued(j)' = Queued(j) + m
          /\ Bit(Awaits(w, j)') + m <= Bit(Awaits(w, j)) + z /\ Bit(Commits(w, j)') <= Bit(Commits(w, j))
      BY <1>3, <1>5, <1>6, <2>2, NumbersType DEF Bit
    <3>2. Len(requests'[j]) = Len(requests[j]) /\ (status'[j] = "queued" => status[j] = "queued")  BY <1>3
    <3> HIDE DEF z, m
    <3> QED  BY <1>a, <3>1, <3>2, AffordNumbers
  <2> QED  BY <2>1, <2>2
<1>9. \A i \in Jobs : queue'[i]["resume"] > 0 => queue[i]["resume"] > 0
  BY <1>1, <1>5
<1>10. Resumes(w)' => handle[j] # 0
  <2>1. Resumes(w)' => k = "resume"  BY <1>2 DEF Resumes
  <2> QED  BY <1>1, <2>1 DEF Handled
<1> QED  BY <1>2, <1>3, <1>7, <1>8, <1>9, <1>10 DEF SubmitTurn, At

LEMMA BeginSubmits ==
    ASSUME TypeOK, TypeOK', NEW c \in Callers, CallerBegins(c)
    PROVE  SubmitTurn(c)
<1>a. c \in Actors /\ ActTypeOK  BY DEF Actors, TypeOK
<1>1. PICK j \in Jobs, p \in {"reserve", "retryWrite", "cancelWrite", "checkClaim"} :
         \E op : Begin(c, j, op, p) /\ (p = "checkClaim" => handle[j] # 0)
  BY Zenon DEF CallerBegins, Create, Retry, Cancel, Check
<1>2. Move(c, [act[c] EXCEPT !.pc = p, !.job = j, !.mine = handle[j]])  BY <1>1 DEF Begin
<1>3. Alone(c) /\ act'[c].pc = p /\ act'[c].job = j  BY <1>a, <1>2 DEF Move, Alone, ActTypeOK, Local
<1>4. /\ UNCHANGED <<phase, todo, requests, confirmations, handle, status, queue>>
      /\ At(c, "idle") /\ phase = "up"
  BY <1>1 DEF Begin, database, memory
<1>5. \A i \in Jobs : ~Commits(c, i)' /\ ~Awaits(c, i)'  BY <1>3 DEF Commits, Awaits
<1>6. \A i \in Jobs : Queued(i)' = Queued(i)  BY <1>4 DEF Queued
<1>7. \A i \in Jobs : Afford(c, i)  BY <1>a, <1>4, <1>5, <1>6, AffordElsewhere
<1>8. Resumes(c)' => handle[j] # 0  BY <1>1, <1>3 DEF Resumes
<1> QED  BY <1>3, <1>4, <1>7, <1>8 DEF SubmitTurn, At

LEMMA ProcessSubmits ==
    ASSUME TypeOK, TypeOK', Footing, BootStep \/ Start \/ Stop \/ Halt \/ UNCHANGED vars
    PROVE  SubmitTurn(Boot) \/ SubmitLife
<1>a. Boot \in Actors /\ ActTypeOK  BY DEF Actors, TypeOK
<1>1. CASE SharedStep(Boot)  BY <1>a, <1>1, SharedSubmits
<1>2. ASSUME NEW j \in Jobs, Recover(j) PROVE SubmitTurn(Boot) \/ SubmitLife
  <2>1. /\ UNCHANGED <<requests, confirmations, handle, status, phase>>
        /\ phase = "recovering" /\ At(Boot, "idle") /\ j \in todo /\ todo' = todo \ {j}
    BY <1>2 DEF Recover, database, counted
  <2>2. CASE status[j] = "running" /\ handle[j] = 0
    <3>1. UNCHANGED queue /\ Move(Boot, [act[Boot] EXCEPT !.pc = "select", !.job = j, !.verdict = "failed"])
      BY <1>2, <2>2 DEF Recover
    <3>2. Alone(Boot) /\ act'[Boot].pc = "select" /\ act'[Boot].job = j
      BY <1>a, <3>1 DEF Move, Alone, ActTypeOK, Local
    <3>3. ~Resumes(Boot)' /\ \A i \in Jobs : ~Commits(Boot, i)' /\ ~Awaits(Boot, i)'
      BY <3>2 DEF Resumes, Commits, Awaits
    <3>4. \A i \in Jobs : Queued(i)' = Queued(i)  BY <3>1 DEF Queued
    <3>5. \A i \in Jobs : Afford(Boot, i)  BY <1>a, <2>1, <3>3, <3>4, AffordElsewhere
    <3> QED  BY <2>1, <3>1, <3>2, <3>3, <3>5 DEF SubmitTurn, At
  <2>3. CASE ~(status[j] = "running" /\ handle[j] = 0)
    BY <1>2, <2>1, <2>3 DEF Recover, SubmitLife
  <2> QED  BY <2>2, <2>3
<1>3. CASE Open \/ Stop \/ UNCHANGED vars
  BY <1>3 DEF Open, Stop, vars, SubmitLife, database, memory, counted
<1>4. CASE Start
  BY <1>4 DEF Start, SubmitLife
<1>5. CASE Halt  BY <1>5 DEF Halt, SubmitLife, database, counted
<1> QED  BY <1>1, <1>2, <1>3, <1>4, <1>5 DEF BootStep

LEMMA NextSubmits ==
    ASSUME TypeOK, TypeOK', Footing, Funding, Handled, [Next]_vars
    PROVE  SubmitLife \/ \E a \in Actors : SubmitTurn(a)
<1>a. Workers \subseteq Actors /\ Callers \subseteq Actors /\ Boot \in Actors  BY DEF Actors
<1>1. ASSUME NEW w \in Workers, WorkerStep(w) \/ PollAgain(w) \/ \E j \in Jobs : Fetch(w, j)
      PROVE  SubmitTurn(w)
  BY <1>1, WorkerSubmits, FetchSubmits
<1>2. ASSUME NEW c \in Callers, CallerBegins(c) \/ CallerStep(c) PROVE SubmitTurn(c)
  BY <1>2, CallerSubmits, BeginSubmits
<1>3. CASE BootStep \/ Start \/ Stop \/ Halt \/ UNCHANGED vars  BY <1>a, <1>3, ProcessSubmits
<1> QED  BY <1>a, <1>1, <1>2, <1>3 DEF Next

LEMMA HandledStep ==
    ASSUME TypeOK, TypeOK', Handled, SubmitLife \/ \E a \in Actors : SubmitTurn(a)
    PROVE  Handled'
<1>1. ASSUME NEW a \in Actors, SubmitTurn(a) PROVE Handled'
  <2>1. /\ \A j \in Jobs : handle[j] # 0 => handle'[j] # 0
        /\ \A j \in Jobs : queue'[j]["resume"] > 0 => queue[j]["resume"] > 0 \/ handle[j] # 0
        /\ Resumes(a)' => handle[act'[a].job] # 0
        /\ Alone(a)
    BY <1>1 DEF SubmitTurn
  <2>2. \A b \in Actors : Resumes(b)' => act'[b].job \in Jobs
    BY DEF Resumes, TypeOK, ActTypeOK, At, JobOf
  <2>3. ASSUME NEW b \in Actors, Resumes(b)' PROVE handle'[act'[b].job] # 0
    <3>1. PICK j \in Jobs : act'[b].job = j  BY <2>2, <2>3
    <3>2. handle[j] # 0
      <4>1. CASE b = a  BY <2>1, <2>3, <3>1, <4>1
      <4>2. CASE b # a
        <5>1. Resumes(b) /\ JobOf(b) = j  BY <2>1, <2>3, <3>1, <4>2 DEF Alone, Resumes, JobOf
        <5> QED  BY <5>1 DEF Handled
      <4> QED  BY <4>1, <4>2
    <3> QED  BY <2>1, <3>1, <3>2
  <2> QED  BY <2>1, <2>3 DEF Handled, JobOf
<1>2. CASE SubmitLife
  <2>1. UNCHANGED handle /\ (UNCHANGED act \/ \A a \in Actors : act'[a] = Idle)  BY <1>2 DEF SubmitLife
  <2>2. \A a \in Actors : Resumes(a)' => handle'[act'[a].job] # 0
    BY <2>1, IdleType DEF Handled, Resumes, JobOf
  <2>3. \A j \in Jobs : queue'[j]["resume"] > 0 => handle'[j] # 0
    <3>1. CASE UNCHANGED queue  BY <2>1, <3>1 DEF Handled
    <3>2. CASE ~UNCHANGED queue
      <4>1. PICK i \in todo : /\ status[i] # "running" \/ handle[i] # 0
                              /\ SendKeyed(i, IF status[i] = "running" THEN "resume" ELSE "fresh")
        BY <1>2, <3>2 DEF SubmitLife
      <4>2. i \in Jobs /\ queue \in [Jobs -> [Kinds -> Nat]]  BY DEF TypeOK, StoreTypeOK
      <4>3. CASE status[i] = "running"
        <5>1. \A j \in Jobs : j # i => queue'[j] = queue[j]  BY <4>1, <4>2 DEF SendKeyed
        <5> QED  BY <2>1, <4>1, <4>3, <5>1 DEF Handled
      <4>4. CASE status[i] # "running"
        <5>1. queue' = [queue EXCEPT ![i]["fresh"] = @ + 1]  BY <3>2, <4>1, <4>4 DEF SendKeyed
        <5>2. \A j \in Jobs : queue'[j]["resume"] = queue[j]["resume"]  BY <4>2, <5>1
        <5> QED  BY <2>1, <5>2 DEF Handled
      <4> QED  BY <4>3, <4>4
    <3> QED  BY <3>1, <3>2
  <2> QED  BY <2>2, <2>3 DEF Handled, JobOf
<1> QED  BY <1>1, <1>2

LEMMA UnvisitedStep ==
    ASSUME TypeOK, TypeOK', Footing, Unvisited, SubmitLife \/ \E a \in Actors : SubmitTurn(a)
    PROVE  Unvisited'
<1>b. Boot \in Actors  BY DEF Actors
<1>1. ASSUME NEW a \in Actors, SubmitTurn(a), phase' = "recovering"
      PROVE  /\ todo' \subseteq Jobs /\ \A j \in todo' : status'[j] \in Active
             /\ ~At(Boot, "idle")' => act'[Boot].job \notin todo'
  <2>m. \/ UNCHANGED <<phase, todo>> /\ (At(a, "idle") => phase # "recovering")
        \/ UNCHANGED phase /\ At(a, "idle") /\ todo' = todo \ {act'[a].job}
    BY <1>1 DEF SubmitTurn
  <2>0. UNCHANGED phase /\ phase = "recovering"  BY <1>1, <2>m
  <2>1. UNCHANGED phase /\ a = Boot /\ phase = "recovering" /\ todo' \subseteq todo
    <3>1. a = Boot  BY <1>1, <2>0 DEF SubmitTurn
    <3>2. todo' \subseteq todo  BY <2>m
    <3> QED  BY <2>0, <3>1, <3>2
  <2>2. todo \subseteq Jobs /\ (\A j \in todo : status[j] \in Active) /\ (~At(Boot, "idle") => JobOf(Boot) \notin todo)
    BY <2>1 DEF Unvisited
  <2>3. \A j \in Jobs : status'[j] = status[j] \/ (~At(Boot, "idle") /\ JobOf(Boot) = j)
    BY <1>1, <2>1 DEF SubmitTurn
  <2>4. \A j \in todo' : status'[j] \in Active  BY <2>1, <2>2, <2>3
  <2>5. ~At(Boot, "idle")' => act'[Boot].job \notin todo'
    <3>1. CASE UNCHANGED todo /\ ~At(a, "idle")
      <4>1. At(a, "idle")' \/ act'[a].job = JobOf(a)  BY <1>1, <3>1 DEF SubmitTurn, At
      <4> QED  BY <2>1, <2>2, <3>1, <4>1 DEF At
    <3>2. CASE todo' = todo \ {act'[a].job}  BY <2>1, <3>2
    <3> QED  BY <2>0, <2>m, <3>1, <3>2
  <2> QED  BY <2>1, <2>2, <2>4, <2>5
<1>2. ASSUME SubmitLife, phase' = "recovering"
      PROVE  /\ todo' \subseteq Jobs /\ \A j \in todo' : status'[j] \in Active
             /\ ~At(Boot, "idle")' => act'[Boot].job \notin todo'
  BY <1>b, <1>2 DEF SubmitLife, Unvisited, Footing, At, JobOf
<1> QED  BY <1>1, <1>2 DEF Unvisited, JobOf

\* What a job has used of its confirmations: the submissions made, those about to be, the
\* rows that wait with an actor and the messages that wait in the queue.
Committed(j) == {a \in Actors : Commits(a, j)}
Waiters(j)   == {a \in Actors : Awaits(a, j)}
Budgeted(j) ==
    LET spent == Len(requests[j]) + Cardinality(Committed(j))
        paid  == confirmations[j] + resent[j]
    IN  /\ spent + Cardinality(Waiters(j)) + Queued(j) <= paid
        /\ status[j] = "queued" => spent + 1 <= paid
Budget == \A j \in Jobs : Budgeted(j)

LEMMA ActorsFinite == IsFiniteSet(Actors)
<1>1. IsFiniteSet({Boot})  BY FS_Singleton
<1>2. IsFiniteSet(Workers \cup Callers)  BY FiniteAssumption, FS_Union
<1> QED  BY <1>1, <1>2, FS_Union DEF Actors

LEMMA CountType ==
    ASSUME NEW j
    PROVE  /\ IsFiniteSet(Committed(j)) /\ IsFiniteSet(Waiters(j))
           /\ Cardinality(Committed(j)) \in Nat /\ Cardinality(Waiters(j)) \in Nat
<1>1. Committed(j) \subseteq Actors /\ Waiters(j) \subseteq Actors  BY DEF Committed, Waiters
<1>2. IsFiniteSet(Committed(j)) /\ IsFiniteSet(Waiters(j))  BY <1>1, ActorsFinite, FS_Subset
<1> QED  BY <1>2, FS_CardinalityType

LEMMA CountTypeNext ==
    ASSUME NEW j
    PROVE  /\ IsFiniteSet(Committed(j)') /\ IsFiniteSet(Waiters(j)')
           /\ Cardinality(Committed(j)') \in Nat /\ Cardinality(Waiters(j)') \in Nat
<1>1. Committed(j)' \subseteq Actors /\ Waiters(j)' \subseteq Actors  BY DEF Committed, Waiters
<1>2. IsFiniteSet(Committed(j)') /\ IsFiniteSet(Waiters(j)')  BY <1>1, ActorsFinite, FS_Subset
<1> QED  BY <1>2, FS_CardinalityType

\* Two sets that differ in one element at most.
LEMMA BitCount ==
    ASSUME NEW S, NEW T, NEW x, IsFiniteSet(S), IsFiniteSet(T), S \ {x} = T \ {x}
    PROVE  Cardinality(T) - Bit(x \in T) = Cardinality(S) - Bit(x \in S)
<1>1. ASSUME NEW U, IsFiniteSet(U) PROVE Cardinality(U) - Bit(x \in U) = Cardinality(U \ {x})
  <2>1. Cardinality(U) \in Nat  BY <1>1, FS_CardinalityType
  <2>2. CASE x \in U
    <3>1. Cardinality(U \ {x}) = Cardinality(U) - 1  BY <1>1, <2>2, FS_RemoveElement
    <3> QED  BY <2>1, <2>2, <3>1 DEF Bit
  <2>3. CASE x \notin U
    <3>1. Cardinality(U \ {x}) = Cardinality(U)  BY <1>1, <2>3, FS_RemoveElement
    <3> QED  BY <2>1, <2>3, <3>1 DEF Bit
  <2> QED  BY <2>2, <2>3
<1> QED  BY <1>1

\* What #recover resent.
LEMMA ResentGrows ==
    ASSUME MemoryTypeOK, Watch \/ UNCHANGED hvars, NEW j \in Jobs
    PROVE  /\ resent[j] \in Nat /\ resent'[j] \in Nat /\ resent[j] <= resent'[j]
           /\ Watch /\ Doubles(j) => resent'[j] = resent[j] + 1
<1>1. resent[j] \in Nat  BY DEF MemoryTypeOK
<1>2. CASE Watch
  <2>1. resent'[j] = resent[j] + IF Doubles(j) THEN 1 ELSE 0  BY <1>2 DEF Watch
  <2> QED  BY <1>1, <2>1
<1>3. CASE ~Watch  BY <1>1, <1>3 DEF hvars, memories
<1> QED  BY <1>2, <1>3

LEMMA BudgetTurn ==
    ASSUME TypeOK, TypeOK', MemoryTypeOK, Watch \/ UNCHANGED hvars, Budget, NEW a \in Actors, SubmitTurn(a)
    PROVE  Budget'
<1> SUFFICES ASSUME NEW j \in Jobs PROVE Budgeted(j)'  BY DEF Budget
<1>1. Alone(a) /\ Afford(a, j)  BY DEF SubmitTurn
<1>2. /\ Committed(j)' \ {a} = Committed(j) \ {a}
      /\ Waiters(j)' \ {a} = Waiters(j) \ {a}
  BY <1>1 DEF Committed, Waiters, Alone, Commits, Awaits
<1>3. (a \in Committed(j)' <=> Commits(a, j)') /\ (a \in Committed(j) <=> Commits(a, j))
      /\ (a \in Waiters(j)' <=> Awaits(a, j)') /\ (a \in Waiters(j) <=> Awaits(a, j))
  BY DEF Committed, Waiters
<1> DEFINE k == Cardinality(Committed(j))
           w == Cardinality(Waiters(j))
           kk == Cardinality(Committed(j)')
           ww == Cardinality(Waiters(j)')
           bk == Bit(Commits(a, j))
           bw == Bit(Awaits(a, j))
           bkk == Bit(Commits(a, j)')
           bww == Bit(Awaits(a, j)')
           n == Len(requests[j])
           nn == Len(requests'[j])
           c == confirmations[j]
           cc == confirmations'[j]
           q == Queued(j)
           qq == Queued(j)'
           r == resent[j]
           rr == resent'[j]
<1>4. k \in Nat /\ w \in Nat /\ kk \in Nat /\ ww \in Nat  BY CountType, CountTypeNext
<1>5. bk \in {0, 1} /\ bw \in {0, 1} /\ bkk \in {0, 1} /\ bww \in {0, 1}  BY DEF Bit
<1>6. kk - bkk = k - bk
  <2>1. kk - Bit(a \in Committed(j)') = k - Bit(a \in Committed(j))  BY <1>2, CountType, CountTypeNext, BitCount
  <2> QED  BY <1>3, <2>1 DEF Bit
<1>7. ww - bww = w - bw
  <2>1. ww - Bit(a \in Waiters(j)') = w - Bit(a \in Waiters(j))  BY <1>2, CountType, CountTypeNext, BitCount
  <2> QED  BY <1>3, <2>1 DEF Bit
<1>8. n \in Nat /\ nn \in Nat /\ c \in Nat /\ cc \in Nat /\ q \in Nat /\ qq \in Nat
  <2>1. n \in Nat /\ c \in Nat /\ q \in Nat  BY NumbersType
  <2>2. nn \in Nat /\ cc \in Nat /\ queue'[j] \in [Kinds -> Nat]  BY DEF TypeOK, StoreTypeOK
  <2>3. qq \in Nat  BY <2>2 DEF Queued, Kinds
  <2> QED  BY <2>1, <2>2, <2>3
<1>9. r \in Nat /\ rr \in Nat /\ r <= rr  BY ResentGrows
<1>10. nn + bkk + bww + qq - cc <= n + bk + bw + q - c  BY <1>1 DEF Afford
<1>11. status'[j] = "queued" => \/ status[j] = "queued" /\ nn + bkk - cc <= n + bk - c
                                \/ nn + bkk + 1 - cc <= n + bk - c
  BY <1>1 DEF Afford
<1>12. n + k + w + q <= c + r /\ (status[j] = "queued" => n + k + 1 <= c + r)
  BY DEF Budget, Budgeted
<1> HIDE DEF k, w, kk, ww, bk, bw, bkk, bww, n, nn, c, cc, q, qq, r, rr
<1>13. nn + kk + ww + qq <= cc + rr
  BY <1>4, <1>5, <1>6, <1>7, <1>8, <1>9, <1>10, <1>12
<1>14. nn + bkk - cc <= n + bk - c /\ n + k + 1 <= c + r => nn + kk + 1 <= cc + rr
  BY <1>4, <1>5, <1>6, <1>8, <1>9
<1>15. nn + bkk + 1 - cc <= n + bk - c => nn + kk + 1 <= cc + rr
  BY <1>4, <1>5, <1>6, <1>8, <1>9, <1>12
<1>16. status'[j] = "queued" => nn + kk + 1 <= cc + rr  BY <1>11, <1>12, <1>14, <1>15
<1> QED  BY <1>13, <1>16 DEF Budgeted, kk, ww, nn, cc, qq, rr

LEMMA BudgetLife ==
    ASSUME TypeOK, TypeOK', MemoryTypeOK, Footing, Unvisited, Watch, Budget, SubmitLife
    PROVE  Budget'
<1> SUFFICES ASSUME NEW j \in Jobs PROVE Budgeted(j)'  BY DEF Budget
<1> DEFINE k == Cardinality(Committed(j))
           w == Cardinality(Waiters(j))
           kk == Cardinality(Committed(j)')
           ww == Cardinality(Waiters(j)')
           n == Len(requests[j])
           c == confirmations[j]
           q == Queued(j)
           qq == Queued(j)'
           r == resent[j]
           rr == resent'[j]
<1>1. UNCHANGED <<requests, confirmations, handle, status>>  BY DEF SubmitLife
<1>2. k \in Nat /\ w \in Nat /\ kk \in Nat /\ ww \in Nat  BY CountType, CountTypeNext
<1>3. n \in Nat /\ c \in Nat /\ q \in Nat  BY NumbersType
<1>4. qq \in Nat
  <2>1. queue'[j] \in [Kinds -> Nat]  BY DEF TypeOK, StoreTypeOK
  <2> QED  BY <2>1 DEF Queued, Kinds
<1>5. r \in Nat /\ rr \in Nat /\ r <= rr /\ (Doubles(j) => rr = r + 1)  BY ResentGrows
<1>6. n + k + w + q <= c + r /\ (status[j] = "queued" => n + k + 1 <= c + r)
  BY DEF Budget, Budgeted
\* Enough to show, when the numbers are known.
<1>7. ASSUME kk <= k, ww <= w, qq <= q \/ (qq <= q + 1 /\ (Doubles(j) \/ n + kk + ww + qq <= c + r))
      PROVE  Budgeted(j)'
  <2>1. Len(requests'[j]) = n /\ confirmations'[j] = c /\ status'[j] = status[j]  BY <1>1
  <2> HIDE DEF k, w, kk, ww, n, c, q, qq, r, rr
  <2>2. n + kk + ww + qq <= c + rr  BY <1>2, <1>3, <1>4, <1>5, <1>6, <1>7
  <2>3. status[j] = "queued" => n + kk + 1 <= c + rr  BY <1>2, <1>3, <1>5, <1>6, <1>7
  <2> QED  BY <2>1, <2>2, <2>3 DEF Budgeted, kk, ww, qq, rr
<1>8. UNCHANGED queue => qq = q  BY DEF Queued
<1>9. UNCHANGED act => kk = k /\ ww = w
  <2>1. UNCHANGED act => Committed(j)' = Committed(j) /\ Waiters(j)' = Waiters(j)
    BY DEF Committed, Waiters, Commits, Awaits
  <2> QED  BY <2>1
<1>10. CASE UNCHANGED <<queue, act>>  BY <1>2, <1>3, <1>7, <1>8, <1>9, <1>10
<1>11. CASE UNCHANGED queue /\ act' = [a \in Actors |-> Idle]
  <2>1. Committed(j)' = {} /\ Waiters(j)' = {}
    BY <1>11, IdleType DEF Committed, Waiters, Commits, Awaits, Idle
  <2>2. kk = 0 /\ ww = 0  BY <2>1, FS_EmptySet
  <2> QED  BY <1>2, <1>3, <1>7, <1>8, <1>11, <2>2
<1>12. CASE ~UNCHANGED queue
  <2>1. PICK i \in todo : /\ status[i] # "running" \/ handle[i] # 0
                          /\ SendKeyed(i, IF status[i] = "running" THEN "resume" ELSE "fresh")
    BY <1>12 DEF SubmitLife
  <2>2. UNCHANGED act /\ phase = "recovering" /\ At(Boot, "idle")  BY <1>12 DEF SubmitLife
  <2>3. i \in Jobs /\ status[i] \in Active  BY <2>2 DEF Unvisited
  <2>4. Messages(i, IF status[i] = "running" THEN "resume" ELSE "fresh", 1)
    BY <1>12, <2>1 DEF SendKeyed, Messages
  <2>5. \A m \in Kinds : Messages(i, m, 1) =>
            /\ m # "resume" => Queued(i)' = Queued(i) + 1
            /\ m = "resume" => Queued(i)' = Queued(i)
            /\ i # j => Queued(j)' = Queued(j)
    <3>1. 1 \in Int  BY DEF Messages
    <3> QED  BY <2>3, <3>1, QueueWritten
  <2>6. CASE i # j \/ status[i] = "running"
    <3>1. qq = q  BY <2>4, <2>5, <2>6 DEF Kinds
    <3> QED  BY <1>2, <1>3, <1>7, <1>9, <2>2, <3>1
  <2>7. CASE i = j /\ status[i] # "running"
    <3>1. qq = q + 1 /\ queue' = [queue EXCEPT ![j]["fresh"] = @ + 1]
      BY <2>4, <2>5, <2>7 DEF Kinds, Messages
    <3>2. queue'[j]["fresh"] = queue[j]["fresh"] + 1 /\ queue[j]["fresh"] \in Nat /\ queue[j]["hold"] \in Nat
      BY <3>1, NumbersType DEF TypeOK, StoreTypeOK, Kinds
    <3>3. CASE q > 0
      <4>1. Doubles(j)  BY <2>2, <3>2, <3>3 DEF Doubles, Queued
      <4> QED  BY <1>2, <1>3, <1>7, <1>9, <2>2, <3>1, <4>1
    <3>4. CASE q = 0
      <4>1. \A a \in Actors : At(a, "idle")  BY <2>2 DEF Footing
      <4>2. Committed(j) = {} /\ Waiters(j) = {}  BY <4>1 DEF Committed, Waiters, Commits, Awaits, At
      <4>3. k = 0 /\ w = 0 /\ kk = k /\ ww = w  BY <1>9, <2>2, <4>2, FS_EmptySet
      <4>4. status[j] = "queued"  BY <2>3, <2>7 DEF Active
      <4>5. n + kk + ww + qq <= c + r  BY <1>3, <1>5, <1>6, <3>1, <3>4, <4>3, <4>4
      <4> QED  BY <1>2, <1>3, <1>7, <3>1, <4>3, <4>5
    <3> QED  BY <1>3, <3>3, <3>4
  <2> QED  BY <2>6, <2>7
<1> QED  BY <1>10, <1>11, <1>12 DEF SubmitLife

\* What the confirmations pay for.
Covered == Handled /\ Unvisited /\ Budget

LEMMA CoveredInit == HInit => Covered
<1> SUFFICES ASSUME HInit PROVE Covered  OBVIOUS
<1>1. \A a \in Actors : At(a, "idle")  BY IdleType DEF HInit, Init, At
<1>2. Handled
  BY <1>1 DEF HInit, Init, Handled, Resumes, At, Kinds
<1>3. Unvisited  BY DEF HInit, Init, Unvisited
<1>4. ASSUME NEW j \in Jobs PROVE Budgeted(j)
  <2>1. Committed(j) = {} /\ Waiters(j) = {}  BY <1>1 DEF Committed, Waiters, Commits, Awaits, At
  <2>2. Cardinality(Committed(j)) = 0 /\ Cardinality(Waiters(j)) = 0  BY <2>1, FS_EmptySet
  <2>3. Len(requests[j]) = 0 /\ Queued(j) = 0 /\ confirmations[j] = 0 /\ resent[j] = 0 /\ status[j] = "none"
    BY DEF HInit, Init, Queued, Kinds
  <2> QED  BY <2>2, <2>3 DEF Budgeted
<1> QED  BY <1>2, <1>3, <1>4 DEF Covered, Budget

LEMMA CoveredStep == Ground /\ Ground' /\ Funding /\ Covered /\ [HNext]_hvars => Covered'
<1> SUFFICES ASSUME Ground, Ground', Funding, Covered, [HNext]_hvars PROVE Covered'  OBVIOUS
<1>1. [Next]_vars /\ (Watch \/ UNCHANGED hvars)  BY HStep
<1>2. TypeOK /\ TypeOK' /\ Footing /\ MemoryTypeOK /\ Handled /\ Unvisited /\ Budget  BY DEF Ground, Covered
<1>3. SubmitLife \/ \E a \in Actors : SubmitTurn(a)  BY <1>1, <1>2, NextSubmits
<1>4. Handled' /\ Unvisited'  BY <1>2, <1>3, HandledStep, UnvisitedStep
<1>5. Budget'
  <2>1. CASE UNCHANGED hvars
    BY <1>2, <2>1 DEF hvars, vars, memories, counted, database, Budget, Budgeted, Committed, Waiters, Commits, Awaits,
                      Queued
  <2>2. CASE Watch  BY <1>1, <1>2, <1>3, <2>2, BudgetTurn, BudgetLife
  <2> QED  BY <1>1, <2>1, <2>2
<1> QED  BY <1>4, <1>5 DEF Covered

\* The provider never gets more submissions of a job than were confirmed, but for one more
\* per message the start-up pass put beside a queued one, whatever else happens to it.
THEOREM SubmissionsArePaid == HSpec => []SubmissionsAreConfirmed
<1>1. Ground /\ Budget => SubmissionsAreConfirmed
  <2> SUFFICES ASSUME Ground, Budget, NEW j \in Jobs PROVE Len(requests[j]) <= confirmations[j] + resent[j]
    BY DEF SubmissionsAreConfirmed
  <2>1. Cardinality(Committed(j)) \in Nat /\ Cardinality(Waiters(j)) \in Nat  BY CountType
  <2>2. Len(requests[j]) \in Nat /\ confirmations[j] \in Nat /\ Queued(j) \in Nat /\ resent[j] \in Nat
    BY NumbersType DEF Ground, MemoryTypeOK
  <2>3. Len(requests[j]) + Cardinality(Committed(j)) + Cardinality(Waiters(j)) + Queued(j) <= confirmations[j] + resent[j]
    BY DEF Budget, Budgeted
  <2> QED  BY <2>1, <2>2, <2>3
<1>2. HSpec => []Funding
  <2>1. HInit => Funding  BY FundingInit DEF HInit
  <2>2. Ground /\ Funding /\ [HNext]_hvars => Funding'  BY HStep, FundingStep DEF Ground
  <2> QED  BY <2>1, <2>2, AlwaysGround, PTL DEF HSpec
<1>3. HSpec => []Covered
  BY <1>2, CoveredInit, CoveredStep, AlwaysGround, PTL DEF HSpec
<1>4. Covered => Budget  BY DEF Covered
<1> QED  BY <1>1, <1>3, <1>4, AlwaysGround, PTL
=============================================================================
