-------------------------- MODULE DataDirLockProofs --------------------------
(***************************************************************************)
(* The data-directory lock, for any number of processes: it excludes and   *)
(* implements its abstract owner as long as they take over one at a time   *)
(* and do not stall, and always admits a process that is alone.            *)
(***************************************************************************)
EXTENDS DataDirLock, TLAPS

\* A process that is dead is nowhere in the code.
DeadIdle ==
    \A p \in Processes : p \notin live => pc[p] = "idle" /\ holds[p] = 0

\* Between the exclusive create and the write the file stays this process's own,
\* empty and young.
WriterOwns ==
    \A p \in Processes :
        pc[p] = "write" => file # NoFile /\ file.by = p /\ ~file.written /\ ~file.old

\* A record that names a live process is one that process answers for.
RecordBacked ==
    file # NoFile /\ file.written /\ file.by \in live =>
        holds[file.by] > 0 \/ pc[file.by] \in {"ours", "drop", "exit", "leave"}

\* Each step of a taker rests on what the one before it saw.
TakerJustified ==
    \A p \in Processes :
        /\ pc[p] = "judge" /\ seen[p] = p => holds[p] > 0
        /\ pc[p] = "judge" /\ seen[p] = Blank /\ file # NoFile => ~file.old \/ ~file.written
        /\ pc[p] = "reread" =>
              \/ seen[p] = Blank /\ file # NoFile /\ ~file.written /\ file.old
              \/ seen[p] \in Processes \ live
        /\ pc[p] = "remove" =>
              /\ file # NoFile
              /\ IF file.written THEN file.by \notin live ELSE pc[file.by] # "write"

\* removeIfOurs removes the process's own record, after its last hold.
DropperOwns ==
    \A p \in Processes :
        /\ pc[p] \in Releasing => holds[p] = 0
        /\ pc[p] \in {"drop", "leave"} => file # NoFile /\ file.written /\ file.by = p

LockInv ==
    /\ TypeOK
    /\ DeadIdle
    /\ WriterOwns
    /\ RecordBacked
    /\ HolderNamed
    /\ TakerJustified
    /\ DropperOwns
    /\ OneTakesOver
-----------------------------------------------------------------------------
(* Types.                                                                   *)

LEMMA LockTypeStep == TypeOK /\ [Next]_vars => TypeOK'
<1> SUFFICES ASSUME TypeOK, [Next]_vars PROVE TypeOK'
  OBVIOUS
<1> USE ProcessesAssumption, LimitsAssumption
<1>1. CASE Age
  BY <1>1 DEF TypeOK, Age, Files
<1>2. ASSUME NEW p \in Processes, Step(p) PROVE TypeOK'
  <2>1. CASE Open(p)
    BY <2>1 DEF TypeOK, Open, At, Goto, Acquiring, Releasing, Resting
  <2>2. CASE Create(p)
    <3>1. file' \in Files \cup {NoFile}
      <4>1. [by |-> p, written |-> FALSE, old |-> FALSE] \in Files
        BY DEF Files
      <4> QED
        BY <2>2, <4>1 DEF TypeOK, Create
    <3>2. pc' \in [Processes -> Acquiring \cup Releasing \cup Resting]
      BY <2>2 DEF TypeOK, Create, Goto, Acquiring
    <3> QED
      BY <2>2, <3>1, <3>2 DEF TypeOK, Create
  <2>3. CASE Write(p)
    BY <2>3 DEF TypeOK, Write, Files, At, Goto, Acquiring, Releasing, Resting
  <2>4. CASE WriteFails(p)
    BY <2>4 DEF TypeOK, WriteFails, At, Goto, Acquiring, Releasing, Resting
  <2>5. CASE Read(p)
    BY <2>5 DEF TypeOK, Read, Content, Files, At, Goto, Acquiring, Releasing, Resting, Again
  <2>6. CASE Judge(p)
    BY <2>6 DEF TypeOK, Judge, At, Goto, Acquiring, Releasing, Resting, Again
  <2>7. CASE Reread(p)
    BY <2>7 DEF TypeOK, Reread, At, Goto, Acquiring, Releasing, Resting, Again
  <2>8. CASE Remove(p)
    BY <2>8 DEF TypeOK, Remove, At, Goto, Acquiring, Releasing, Resting, Again
  <2>9. CASE Release(p)
    BY <2>9 DEF TypeOK, Release, At, Goto, Acquiring, Releasing, Resting
  <2>10. CASE Exit(p)
    BY <2>10 DEF TypeOK, Exit, At, Goto, Acquiring, Releasing, Resting
  <2>11. CASE Ours(p)
    BY <2>11 DEF TypeOK, Ours, At, Goto, Acquiring, Releasing, Resting
  <2>12. CASE Drop(p)
    BY <2>12 DEF TypeOK, Drop, At, Goto, Acquiring, Releasing, Resting
  <2>13. CASE Die(p)
    BY <2>13 DEF TypeOK, Die, Goto, Acquiring, Releasing, Resting
  <2> QED
    BY <1>2, <2>1, <2>2, <2>3, <2>4, <2>5, <2>6, <2>7, <2>8, <2>9, <2>10, <2>11, <2>12, <2>13 DEF Step
<1>3. CASE UNCHANGED vars
  BY <1>3 DEF TypeOK, vars
<1> QED
  BY <1>1, <1>2, <1>3 DEF Next

\* The state of the lock file, of every process and of its holds stays within its
\* type, however processes open, close, die and take over.
THEOREM LockTypes == Spec => []TypeOK
<1>1. Init => TypeOK
  BY ProcessesAssumption, LimitsAssumption
  DEF Init, TypeOK, Files, Acquiring, Releasing, Resting
<1> QED
  BY <1>1, LockTypeStep, PTL DEF Spec

-----------------------------------------------------------------------------
(* Mutual exclusion.                                                        *)

LEMMA LockInitially == Init => LockInv
BY ProcessesAssumption, LimitsAssumption
DEF Init, LockInv, TypeOK, Files, Acquiring, Releasing, Resting, DeadIdle, WriterOwns,
    RecordBacked, HolderNamed, TakerJustified, DropperOwns, OneTakesOver

LEMMA LockStep ==
  ASSUME ~Stalls, LockInv, [Next /\ OneTakesOver']_vars
  PROVE  LockInv'
<1> USE ProcessesAssumption, LimitsAssumption
<1>0. TypeOK' /\ OneTakesOver'
  <2>1. TypeOK'
    BY LockTypeStep DEF LockInv
  <2>2. OneTakesOver'
    BY DEF LockInv, OneTakesOver, vars
  <2> QED
    BY <2>1, <2>2
<1> USE DEF DeadIdle, WriterOwns, RecordBacked, HolderNamed, TakerJustified, DropperOwns, Releasing
<1>1. CASE Age
  <2>0. /\ file \in Files /\ file' # NoFile
        /\ file'.by = file.by /\ file'.written = file.written /\ file'.old
    <3>1. file \in Files /\ file' = [file EXCEPT !.old = TRUE]
      BY <1>1 DEF LockInv, TypeOK, Age
    <3> QED
      BY <3>1 DEF Files
  <2>1. DeadIdle'
    BY <1>0, <1>1, <2>0 DEF LockInv, TypeOK, Age
  <2>2. WriterOwns'
    BY <1>0, <1>1, <2>0 DEF LockInv, TypeOK, Age
  <2>3. RecordBacked'
    BY <1>0, <1>1, <2>0 DEF LockInv, TypeOK, Age
  <2>4. HolderNamed'
    BY <1>0, <1>1, <2>0 DEF LockInv, TypeOK, Age
  <2>5. TakerJustified'
    BY <1>0, <1>1, <2>0 DEF LockInv, TypeOK, Age
  <2>6. DropperOwns'
    BY <1>0, <1>1, <2>0 DEF LockInv, TypeOK, Age
  <2> QED
    BY <1>0, <2>1, <2>2, <2>3, <2>4, <2>5, <2>6 DEF LockInv
<1>2. ASSUME NEW p \in Processes, Step(p) PROVE LockInv'
  <2>1. CASE Open(p)
    BY <1>0, <2>1 DEF LockInv, TypeOK, Open, Files, At, Goto
  <2>2. CASE Create(p)
    <3>1. DeadIdle'
      BY <1>0, <2>2 DEF LockInv, TypeOK, Create, Files, At, Goto
    <3>2. WriterOwns'
      <4>1. CASE file = NoFile
        <5>1. file' = [by |-> p, written |-> FALSE, old |-> FALSE]
          BY <2>2, <4>1 DEF Create
        <5>2. file' \in Files
          BY <5>1 DEF Files
        <5>3. \A q \in Processes : pc'[q] = "write" => q = p
          BY <2>2, <4>1 DEF LockInv, TypeOK, Create, Goto
        <5> QED
          BY <5>1, <5>2, <5>3
      <4>2. CASE file # NoFile
        BY <2>2, <4>2 DEF LockInv, TypeOK, Create, Goto
      <4> QED
        BY <4>1, <4>2
    <3>3. RecordBacked'
      BY <1>0, <2>2 DEF LockInv, TypeOK, Create, Files, At, Goto
    <3>4. HolderNamed'
      BY <1>0, <2>2 DEF LockInv, TypeOK, Create, Files, At, Goto
    <3>5. TakerJustified'
      BY <1>0, <2>2 DEF LockInv, TypeOK, Create, Files, At, Goto
    <3>6. DropperOwns'
      BY <1>0, <2>2 DEF LockInv, TypeOK, Create, Files, At, Goto
    <3> QED
      BY <1>0, <3>1, <3>2, <3>3, <3>4, <3>5, <3>6 DEF LockInv
  <2>3. CASE Write(p)
    <3>1. DeadIdle'
      BY <1>0, <2>3 DEF LockInv, TypeOK, Write, Files, At, Goto
    <3>2. WriterOwns'
      BY <1>0, <2>3 DEF LockInv, TypeOK, Write, Files, At, Goto
    <3>3. RecordBacked'
      BY <1>0, <2>3 DEF LockInv, TypeOK, Write, Files, At, Goto
    <3>4. HolderNamed'
      <4>1. file # NoFile /\ file.by = p /\ ~file.written
        BY <2>3 DEF LockInv, Write, At
      <4>2. \A q \in Processes : q # p => holds'[q] = 0
        BY <2>3, <4>1 DEF LockInv, TypeOK, Write
      <4>3. file' \in Files /\ file'.written /\ file'.by = p
        BY <2>3, <4>1 DEF Write, Files
      <4> QED
        BY <4>2, <4>3
    <3>5. TakerJustified'
      BY <1>0, <2>3 DEF LockInv, TypeOK, Write, Files, At, Goto
    <3>6. DropperOwns'
      BY <1>0, <2>3 DEF LockInv, TypeOK, Write, Files, At, Goto
    <3> QED
      BY <1>0, <3>1, <3>2, <3>3, <3>4, <3>5, <3>6 DEF LockInv
  <2>4. CASE WriteFails(p)
    BY <1>0, <2>4 DEF LockInv, TypeOK, WriteFails, Files, At, Goto
  <2>5. CASE Read(p)
    BY <1>0, <2>5 DEF LockInv, TypeOK, Read, Files, Content, At, Goto, Again
  <2>6. CASE Judge(p)
    BY <1>0, <2>6 DEF LockInv, TypeOK, Judge, Files, At, Goto, Again
  <2>7. CASE Reread(p)
    BY <1>0, <2>7 DEF LockInv, TypeOK, Reread, Files, Content, At, Goto, Again
  <2>8. CASE Remove(p)
    BY <1>0, <2>8 DEF LockInv, TypeOK, Remove, Files, At, Goto, Again, OneTakesOver
  <2>9. CASE Release(p)
    BY <1>0, <2>9 DEF LockInv, TypeOK, Release, Files, At, Goto
  <2>10. CASE Exit(p)
    BY <1>0, <2>10 DEF LockInv, TypeOK, Exit, Files, At, Goto
  <2>11. CASE Ours(p)
    BY <1>0, <2>11 DEF LockInv, TypeOK, Ours, Files, Content, At, Goto
  <2>12. CASE Drop(p)
    <3>1. DeadIdle'
      BY <1>0, <2>12 DEF LockInv, TypeOK, Drop, Files, At, Goto
    <3>2. WriterOwns'
      BY <1>0, <2>12 DEF LockInv, TypeOK, Drop, Files, At, Goto
    <3>3. RecordBacked'
      BY <1>0, <2>12 DEF LockInv, TypeOK, Drop, Files, At, Goto
    <3>4. HolderNamed'
      BY <1>0, <2>12 DEF LockInv, TypeOK, Drop, Files, At, Goto
    <3>5. TakerJustified'
      BY <1>0, <2>12 DEF LockInv, TypeOK, Drop, Files, At, Goto
    <3>6. DropperOwns'
      BY <1>0, <2>12 DEF LockInv, TypeOK, Drop, Files, At, Goto
    <3> QED
      BY <1>0, <3>1, <3>2, <3>3, <3>4, <3>5, <3>6 DEF LockInv
  <2>13. CASE Die(p)
    BY <1>0, <2>13 DEF LockInv, TypeOK, Die, Files, Goto
  <2> QED
    BY <1>2, <2>1, <2>2, <2>3, <2>4, <2>5, <2>6, <2>7, <2>8, <2>9, <2>10, <2>11, <2>12, <2>13 DEF Step
<1>3. CASE UNCHANGED vars
  BY <1>0, <1>3 DEF LockInv, vars
<1> QED
  BY <1>1, <1>2, <1>3 DEF Next

\* While processes take over one at a time, and none stalls for the grace period,
\* no two of them have the directory open.
THEOREM LockExcludes == ASSUME ~Stalls PROVE LoneSpec => []MutualExclusion
<1>1. LockInv /\ [Next /\ OneTakesOver']_vars => LockInv'
  BY LockStep
<1>2. LockInv => MutualExclusion
  BY DEF LockInv, HolderNamed, MutualExclusion
<1> QED
  BY LockInitially, <1>1, <1>2, PTL DEF LoneSpec

\* Under the same conditions the lock file names the process that has the
\* directory open, as long as it has.
THEOREM LockNamesHolder == ASSUME ~Stalls PROVE LoneSpec => []HolderNamed
<1>1. LockInv /\ [Next /\ OneTakesOver']_vars => LockInv'
  BY LockStep
<1>2. LockInv => HolderNamed
  BY DEF LockInv
<1> QED
  BY LockInitially, <1>1, <1>2, PTL DEF LoneSpec

-----------------------------------------------------------------------------
(* A process that is alone.                                                 *)

\* Nobody but p was there when its call began, and nobody comes back: the file is what
\* the dead left until p removes it, in its first turn, and then there is none.
OnItsOwn(p) ==
    p \in live /\ ~company[p] /\ pc[p] \in Acquiring =>
        /\ live = {p}
        /\ pc[p] \in {"read", "judge", "reread", "remove"} => file # NoFile /\ attempt[p] = 1
        /\ pc[p] \in {"judge", "reread"} => seen[p] = Content
        /\ pc[p] = "create" => attempt[p] = 1 \/ file = NoFile

\* What a step of p itself makes of it, with a second turn to remove the file for.
LEMMA OwnStep ==
    ASSUME MaxAttempts > 1, TypeOK, NEW p \in Processes, OnItsOwn(p), Step(p)
    PROVE  /\ OnItsOwn(p)'
           /\ pc[p] \notin {"refused", "write"} /\ pc'[p] = "refused" =>
                 company[p] \/ (file # NoFile /\ ~file.old)
<1> USE ProcessesAssumption, LimitsAssumption DEF TypeOK, Acquiring
<1>1. CASE Open(p)
  BY <1>1 DEF OnItsOwn, Open, At, Goto
<1>2. CASE Create(p)
  BY <1>2 DEF OnItsOwn, Create, At, Goto
<1>3. CASE Write(p) \/ WriteFails(p)
  BY <1>3 DEF OnItsOwn, Write, WriteFails, At, Goto
<1>4. CASE Read(p)
  BY <1>4 DEF OnItsOwn, Read, At, Goto, Again, Content
<1>5. CASE Judge(p)
  BY <1>5 DEF OnItsOwn, Judge, At, Goto, Again, Content
<1>6. CASE Reread(p)
  BY <1>6 DEF OnItsOwn, Reread, At, Goto, Again, Content
<1>7. CASE Remove(p)
  BY <1>7 DEF OnItsOwn, Remove, At, Goto, Again
<1>8. CASE Release(p) \/ Exit(p)
  BY <1>8 DEF OnItsOwn, Release, Exit, At, Goto
<1>9. CASE Ours(p) \/ Drop(p)
  BY <1>9 DEF OnItsOwn, Ours, Drop, At, Goto
<1>10. CASE Die(p)
  BY <1>10 DEF OnItsOwn, Die, Goto
<1> QED
  BY <1>1, <1>2, <1>3, <1>4, <1>5, <1>6, <1>7, <1>8, <1>9, <1>10 DEF Step

\* A step of another leaves p where it is, and where p is alone there is none.
LEMMA OthersStep ==
    ASSUME TypeOK, NEW p \in Processes, NEW q \in Processes, q # p, OnItsOwn(p), Step(q)
    PROVE  OnItsOwn(p)' /\ pc'[p] = pc[p]
<1>1. q \in live /\ live' \subseteq live
  BY DEF Step, Open, Create, Write, WriteFails, Read, Judge, Reread, Remove, Release, Exit, Ours,
         Drop, Die, At
<1>2. pc'[p] = pc[p] /\ company'[p] = company[p]
  BY DEF TypeOK, Step, Open, Create, Write, WriteFails, Read, Judge, Reread, Remove, Release, Exit,
         Ours, Drop, Die, At, Goto, Again
<1> QED
  BY <1>1, <1>2 DEF OnItsOwn

\* A process that is alone from its call on opens the directory, whatever the dead left:
\* it is not refused for want of turns as long as it has two (lock.ts:111 gives it five),
\* nor for the name of a process that is gone. For any number of processes, whether they
\* stall or not, and however many took over at once before they died.
THEOREM NotRefusedAlone == ASSUME MaxAttempts > 1 PROVE Spec => NobodyRefusedAlone
<1> DEFINE Inv == TypeOK /\ \A p \in Processes : OnItsOwn(p)
           Fair(p) == pc[p] \notin {"refused", "write"} /\ pc'[p] = "refused" =>
                          company[p] \/ (file # NoFile /\ ~file.old)
<1>1. Init => Inv
  <2>1. Init => TypeOK
    BY ProcessesAssumption, LimitsAssumption
    DEF Init, TypeOK, Files, Acquiring, Releasing, Resting
  <2> QED
    BY <2>1 DEF Init, OnItsOwn, Acquiring
<1>2. Inv /\ [Next]_vars => Inv' /\ [\A p \in Processes : Fair(p)]_vars
  <2> SUFFICES ASSUME Inv, [Next]_vars
               PROVE  (\A p \in Processes : OnItsOwn(p)') /\ [\A p \in Processes : Fair(p)]_vars
    BY LockTypeStep
  <2>1. CASE UNCHANGED vars
    BY <2>1 DEF vars, OnItsOwn, Content
  <2>2. CASE Age
    <3>1. /\ file # NoFile /\ file' # NoFile /\ Content' = Content
          /\ UNCHANGED <<live, pc, seen, attempt, company>>
      BY <2>2, ProcessesAssumption DEF Age, Content, TypeOK, Files
    <3> QED
      BY <3>1 DEF OnItsOwn
  <2>3. ASSUME NEW q \in Processes, Step(q)
        PROVE  \A p \in Processes : OnItsOwn(p)' /\ Fair(p)
    <3> SUFFICES ASSUME NEW p \in Processes PROVE OnItsOwn(p)' /\ Fair(p)
      OBVIOUS
    <3>1. CASE p = q
      BY <2>3, <3>1, OwnStep
    <3>2. CASE p # q
      BY <2>3, <3>2, OthersStep
    <3> QED
      BY <3>1, <3>2
  <2> QED
    BY <2>1, <2>2, <2>3 DEF Next
<1> QED
  BY <1>1, <1>2, PTL DEF Spec, NobodyRefusedAlone

-----------------------------------------------------------------------------
(* The lock implements DirectoryOwner.                                      *)

\* A step that leaves the name, the holds and the living alone is a stutter.
LEMMA OwnerStutters ==
  ASSUME UNCHANGED <<live, holds>>, Owner' = Owner
  PROVE  UNCHANGED Directory!vars
BY DEF Directory!vars

LEMMA OwnerInitially == Init => Directory!Init
BY DEF Init, Directory!Init, Owner

\* The steps that change what a reader of the file takes for the owner, or the holds.
LEMMA OwnerStep ==
  ASSUME ~Stalls, LockInv, [Next /\ OneTakesOver']_vars
  PROVE  [Directory!Next]_(Directory!vars)
<1> USE ProcessesAssumption, LimitsAssumption
<1>1. CASE Age
  <2>1. file \in Files /\ file' = [file EXCEPT !.old = TRUE] /\ UNCHANGED <<live, holds>>
    BY <1>1 DEF LockInv, TypeOK, Age
  <2>2. file' \in Files /\ file'.by = file.by /\ file'.written = file.written
    BY <2>1 DEF Files
  <2> QED
    BY <2>1, <2>2, OwnerStutters DEF Owner, Content
<1>2. ASSUME NEW p \in Processes, Step(p) PROVE [Directory!Next]_(Directory!vars)
  <2>1. CASE Open(p)
    BY <2>1, OwnerStutters DEF Open, Owner, Content
  <2>2. CASE Create(p)
    <3>1. CASE file = NoFile
      <4>1. file' = [by |-> p, written |-> FALSE, old |-> FALSE] /\ UNCHANGED <<live, holds>>
        BY <2>2, <3>1 DEF Create
      <4> QED
        BY <3>1, <4>1, OwnerStutters DEF Owner, Content
    <3>2. CASE file # NoFile
      BY <2>2, <3>2, OwnerStutters DEF Create, Owner, Content
    <3> QED
      BY <3>1, <3>2
  <2>3. CASE Write(p)
    <3>1. p \in live /\ file # NoFile /\ file.by = p /\ ~file.written
      BY <2>3 DEF LockInv, WriterOwns, Write, At
    <3>2. file' = [by |-> p, written |-> TRUE, old |-> FALSE]
      BY <2>3, <3>1 DEF Write
    <3>3. Owner = Blank /\ Owner' = p
      <4>1. file' \in Files
        BY <3>2 DEF Files
      <4> QED
        BY <3>1, <3>2, <4>1 DEF Owner, Content
    <3>4. Directory!Take(p)
      BY <2>3, <3>1, <3>3 DEF Write, Directory!Take
    <3> QED
      BY <3>4 DEF Directory!Next
  <2>4. CASE WriteFails(p)
    BY <2>4, OwnerStutters DEF WriteFails, Owner, Content
  <2>5. CASE Read(p)
    BY <2>5, OwnerStutters DEF Read, Owner, Content
  <2>6. CASE Judge(p)
    <3>1. UNCHANGED <<file, live>>
      BY <2>6 DEF Judge
    <3>2. CASE seen[p] = p
      <4>1. p \in live /\ holds[p] > 0 /\ holds' = [holds EXCEPT ![p] = @ + 1]
        BY <2>6, <3>2 DEF LockInv, TypeOK, TakerJustified, Judge, At
      <4>2. Owner = p
        BY <4>1 DEF LockInv, HolderNamed, Owner, Content
      <4>3. Directory!Share(p)
        BY <3>1, <4>1, <4>2 DEF Directory!Share, Owner, Content
      <4> QED
        BY <4>3 DEF Directory!Next
    <3>3. CASE seen[p] # p
      <4>1. UNCHANGED holds
        BY <2>6, <3>3 DEF LockInv, TypeOK, Judge
      <4> QED
        BY <3>1, <4>1, OwnerStutters DEF Owner, Content
    <3> QED
      BY <3>2, <3>3
  <2>7. CASE Reread(p)
    BY <2>7, OwnerStutters DEF Reread, Owner, Content
  <2>8. CASE Remove(p)
    <3>1. file # NoFile /\ file' = NoFile /\ UNCHANGED <<live, holds>>
      BY <2>8 DEF LockInv, TakerJustified, Remove, At
    <3>2. CASE file.written
      <4>1. Owner \in Processes \ live /\ Owner' = Blank
        BY <2>8, <3>1, <3>2 DEF LockInv, TypeOK, Files, TakerJustified, Remove, At, Owner, Content
      <4>2. Directory!Evict
        BY <3>1, <4>1 DEF Directory!Evict
      <4> QED
        BY <4>2 DEF Directory!Next
    <3>3. CASE ~file.written
      BY <3>1, <3>3, OwnerStutters DEF Owner, Content
    <3> QED
      BY <3>2, <3>3
  <2>9. CASE Release(p)
    <3>1. /\ p \in live /\ holds[p] > 0 /\ Owner = p
          /\ holds' = [holds EXCEPT ![p] = holds[p] - 1] /\ UNCHANGED <<file, live>>
      BY <2>9 DEF LockInv, HolderNamed, Release, At, Owner, Content
    <3>2. Directory!Close(p)
      BY <3>1 DEF Directory!Close, Owner, Content
    <3> QED
      BY <3>2 DEF Directory!Next
  <2>10. CASE Exit(p)
    <3>1. /\ p \in live /\ holds[p] > 0 /\ Owner = p
          /\ holds' = [holds EXCEPT ![p] = 0] /\ UNCHANGED <<file, live>>
      BY <2>10 DEF LockInv, HolderNamed, Exit, At, Owner, Content
    <3>2. Directory!Close(p)
      BY <3>1 DEF Directory!Close, Owner, Content
    <3> QED
      BY <3>2 DEF Directory!Next
  <2>11. CASE Ours(p)
    BY <2>11, OwnerStutters DEF Ours, Owner, Content
  <2>12. CASE Drop(p)
    <3>1. /\ p \in live /\ holds[p] = 0 /\ Owner = p
          /\ file' = NoFile /\ UNCHANGED <<live, holds>>
      BY <2>12 DEF LockInv, DropperOwns, Releasing, Drop, At, Owner, Content
    <3>2. Directory!Leave(p)
      BY <3>1 DEF Directory!Leave, Owner
    <3> QED
      BY <3>2 DEF Directory!Next
  <2>13. CASE Die(p)
    <3>1. Directory!Die(p)
      BY <2>13 DEF Die, Directory!Die, Owner, Content
    <3> QED
      BY <3>1 DEF Directory!Next
  <2> QED
    BY <1>2, <2>1, <2>2, <2>3, <2>4, <2>5, <2>6, <2>7, <2>8, <2>9, <2>10, <2>11, <2>12, <2>13 DEF Step
<1>3. CASE UNCHANGED vars
  BY <1>3, OwnerStutters DEF vars, Owner, Content
<1> QED
  BY <1>1, <1>2, <1>3 DEF Next

\* Under the same conditions the lock file, with all its intermediate states, is an
\* owner's name that nobody takes from a process that has the directory open.
THEOREM LockImplementsOwner == ASSUME ~Stalls PROVE LoneSpec => OwnedByOne
<1>1. LockInv /\ [Next /\ OneTakesOver']_vars => LockInv'
  BY LockStep
<1>2. LockInv /\ [Next /\ OneTakesOver']_vars => [Directory!Next]_(Directory!vars)
  BY OwnerStep
<1> QED
  BY LockInitially, OwnerInitially, <1>1, <1>2, PTL DEF LoneSpec, OwnedByOne, Directory!Spec
=============================================================================
