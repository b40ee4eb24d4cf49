----------------------------- MODULE SpendProofs -----------------------------
(***************************************************************************)
(* Types of Spend, and what becomes of the holds of the calls outside the  *)
(* queue, for any jobs, calls, kinds, prices and caps.                     *)
(***************************************************************************)
EXTENDS Spend, FiniteSetTheorems, WellFoundedInduction, TLAPS

-----------------------------------------------------------------------------
(* Types.                                                                   *)

LEMMA RowsType ==
    ASSUME today \in 0 .. MaxDay
    PROVE  /\ NoRow \in Rows
           /\ \A n \in Nat : Row(n) \in Rows
           /\ \A n \in Nat : [state |-> "pending", amount |-> n, day |-> today] \in Rows
           /\ \A n \in Nat, r \in Rows, b \in BOOLEAN :
                [state |-> "final", amount |-> n, day |-> IF b THEN today ELSE r.day] \in Rows
  BY BoundsAssumption DEF Rows, NoRow, Row

LEMMA IdsType == Jobs \subseteq Ids /\ Calls \subseteq Ids
  BY DEF Ids

LEMMA PcTypes ==
    /\ {"new", "prepare", "request", "answered", "ambiguous", "release", "record", "settle",
        "audit", "rescue", "end"} \subseteq CallPcs
    /\ {"none", "done", "refused", "reported", "timeout", "broken", "unprepared", "database",
        "crash"} \subseteq Ends
  BY DEF CallPcs, Ends

LEMMA ToType ==
    ASSUME TypeOK, NEW c \in Calls, NEW p \in CallPcs, To(c, p)
    PROVE  call' \in [Calls -> CallRecords]
<1>1. [call[c] EXCEPT !.pc = p] \in CallRecords
  BY DEF TypeOK, CallRecords
<1> QED
  BY <1>1 DEF TypeOK, To

LEMMA EndType ==
    ASSUME TypeOK, NEW c \in Calls, NEW p \in CallPcs, NEW e \in Ends,
           call' = [call EXCEPT ![c].pc = p, ![c].end = e]
    PROVE  call' \in [Calls -> CallRecords]
<1>1. [call[c] EXCEPT !.pc = p, !.end = e] \in CallRecords
  BY DEF TypeOK, CallRecords
<1> QED
  BY <1>1 DEF TypeOK

LEMMA SettledType ==
    ASSUME TypeOK, NEW c \in Calls, NEW b \in BOOLEAN, Settled(c, b)
    PROVE  ledger' \in [Ids -> Rows] /\ waived' \in [Ids -> BOOLEAN]
<1>1. ledger[c] \in Rows /\ Quote[c] \in Nat
  BY IdsType, PricesAssumption DEF TypeOK
<1>2. [state |-> "final", amount |-> Quote[c], day |-> IF b THEN today ELSE ledger[c].day] \in Rows
  BY <1>1, RowsType DEF TypeOK
<1> QED
  BY <1>2 DEF TypeOK, Settled

LEMMA JobTypeStep == ASSUME TypeOK, NEW j \in Jobs, JobStep(j) PROVE TypeOK'
<1>1. CASE Create(j)
  BY <1>1 DEF TypeOK, Create, JobStatuses
<1>2. CASE Ask(j)
  BY <1>2, BoundsAssumption DEF TypeOK, Ask, Asks
<1>3. CASE Retry(j)
  BY <1>3 DEF TypeOK, Retry, JobStatuses, Asks
<1>4. CASE Check(j)
  BY <1>4 DEF TypeOK, Check, JobStatuses, Asks
<1>5. CASE CancelWrite(j)
  BY <1>5 DEF TypeOK, CancelWrite, JobStatuses, Asks
<1>6. CASE CancelRecord(j)
  <2>1. ledger' \in [Ids -> Rows]
    BY <1>6, RowsType DEF TypeOK, CancelRecord
  <2> QED
    BY <1>6, <2>1 DEF TypeOK, CancelRecord, Asks
<1>7. CASE Work(j)
  BY <1>7 DEF TypeOK, Work, Drives
<1>8. CASE Record(j)
  <2>1. PICK amount \in {0, Quote[j], Quote[j] + 1}, st \in {"failed", "settled"} :
          /\ ledger' = [ledger EXCEPT ![j] = Row(amount)]
          /\ drive' = [drive EXCEPT ![j] = st]
          /\ waived' = [waived EXCEPT ![j] = @ \/ ~(amount = 0 \/ Covered(j, amount))]
    BY <1>8 DEF Record
  <2>2. Row(amount) \in Rows
    BY IdsType, PricesAssumption, RowsType DEF TypeOK
  <2>3. waived' \in [Ids -> BOOLEAN]
    BY <2>1 DEF TypeOK
  <2> QED
    BY <1>8, <2>1, <2>2, <2>3 DEF TypeOK, Record, Drives
<1>9. CASE Finish(j)
  BY <1>9 DEF TypeOK, Finish, Drives, JobStatuses
<1> QED
  BY <1>1, <1>2, <1>3, <1>4, <1>5, <1>6, <1>7, <1>8, <1>9 DEF JobStep

LEMMA CallTypeStep == ASSUME TypeOK, NEW c \in Calls, CallStep(c) PROVE TypeOK'
<1>1. CASE Hold(c)
  <2>1. PICK kind \in Kinds[c] : call' = [call EXCEPT ![c].pc = "prepare", ![c].kind = kind]
    BY <1>1 DEF Hold
  <2>2. [call[c] EXCEPT !.pc = "prepare", !.kind = kind] \in CallRecords
    <3>1. kind \in AllKinds /\ call[c] \in CallRecords
      BY SpendersAssumption DEF TypeOK
    <3>2. \A r \in CallRecords : [r EXCEPT !.pc = "prepare", !.kind = kind] \in CallRecords
      BY <3>1 DEF CallRecords, CallPcs
    <3> QED
      BY <3>1, <3>2
  <2>3. call' \in [Calls -> CallRecords]
    BY <2>1, <2>2 DEF TypeOK
  <2>4. ledger' \in [Ids -> Rows]
    BY <1>1, IdsType, PricesAssumption, RowsType DEF TypeOK, Hold
  <2> QED
    BY <1>1, <2>3, <2>4 DEF TypeOK, Hold
<1>2. CASE Prepare(c)
  <2>1. call' \in [Calls -> CallRecords]
    BY <1>2, ToType, EndType, PcTypes DEF Prepare, Break
  <2> QED
    BY <1>2, <2>1 DEF TypeOK, Prepare
<1>3. CASE Accept(c) \/ Bill(c)
  BY <1>3 DEF TypeOK, Accept, Bill
<1>4. CASE Refuse(c)
  <2>1. call' \in [Calls -> CallRecords]
    BY <1>4, EndType, PcTypes DEF Refuse
  <2> QED
    BY <1>4, <2>1 DEF TypeOK, Refuse
<1>5. CASE TimesOut(c) \/ Breaks(c) \/ Answers(c)
  <2>1. call' \in [Calls -> CallRecords]
    BY <1>5, EndType, PcTypes DEF TimesOut, Breaks, Answers
  <2> QED
    BY <1>5, <2>1 DEF TypeOK, TimesOut, Breaks, Answers
<1>6. CASE Store(c)
  <2>1. call' \in [Calls -> CallRecords]
    BY <1>6, ToType, PcTypes DEF Store
  <2> QED
    BY <1>6, <2>1 DEF TypeOK, Store
<1>7. CASE Release(c)
  <2>1. call' \in [Calls -> CallRecords]
    BY <1>7, ToType, PcTypes DEF Release
  <2>2. ledger' \in [Ids -> Rows]
    BY <1>7, RowsType DEF TypeOK, Release
  <2> QED
    BY <1>7, <2>1, <2>2 DEF TypeOK, Release
<1>8. CASE SettleAmbiguous(c) \/ Settle(c)
  <2>1. call' \in [Calls -> CallRecords]
    BY <1>8, ToType, PcTypes DEF SettleAmbiguous, Settle
  <2>2. ledger' \in [Ids -> Rows] /\ waived' \in [Ids -> BOOLEAN]
    <3>1. CASE SettleAmbiguous(c)
      BY <3>1, SettledType DEF SettleAmbiguous
    <3>2. CASE Settle(c)
      <4>1. (Kind(c) \in Redates) \in BOOLEAN /\ Settled(c, Kind(c) \in Redates)
        BY <3>2 DEF Settle
      <4> QED
        BY <4>1, SettledType
    <3> QED
      BY <1>8, <3>1, <3>2
  <2> QED
    BY <1>8, <2>1, <2>2 DEF TypeOK, SettleAmbiguous, Settle
<1>9. CASE Audit(c)
  <2>1. call' \in [Calls -> CallRecords]
    BY <1>9, ToType, PcTypes DEF Audit
  <2> QED
    BY <1>9, <2>1 DEF TypeOK, Audit
<1>10. CASE Fails(c)
  <2>1. call' \in [Calls -> CallRecords]
    <3>1. Afterwards(Kind(c)) \in CallPcs
      BY DEF Afterwards, CallPcs
    <3> QED
      BY <1>10, <3>1, EndType, PcTypes DEF Fails, Break
  <2> QED
    BY <1>10, <2>1 DEF TypeOK, Fails
<1> QED
  BY <1>1, <1>2, <1>3, <1>4, <1>5, <1>6, <1>7, <1>8, <1>9, <1>10 DEF CallStep, Reply

\* Every variable of the budget keeps its type, for any jobs, calls, prices, caps and
\* bounds.
THEOREM SpendTypes == Spec => []TypeOK
<1>1. Init => TypeOK
  <2> SUFFICES ASSUME Init PROVE TypeOK
    OBVIOUS
  <2>1. NoRow \in Rows /\ NewCall \in CallRecords /\ 0 \in 0 .. MaxDay
    BY BoundsAssumption DEF NoRow, Rows, NewCall, CallRecords, CallPcs, AllKinds, Ends
  <2> QED
    BY <2>1, BoundsAssumption DEF Init, TypeOK, JobStatuses, Drives, Asks
<1>2. TypeOK /\ [Next]_vars => TypeOK'
  <2> SUFFICES ASSUME TypeOK, [Next]_vars PROVE TypeOK'
    OBVIOUS
  <2>1. CASE Crash
    <3>1. call' \in [Calls -> CallRecords]
      <4>1. \A r \in CallRecords : [r EXCEPT !.pc = "end", !.end = "crash"] \in CallRecords
        BY DEF CallRecords, CallPcs, Ends
      <4>2. \A c \in Calls : call[c] \in CallRecords
        BY DEF TypeOK
      <4> QED
        BY <2>1, <4>1, <4>2 DEF Crash
    <3>2. drive' \in [Jobs -> Drives] /\ ask' \in [Jobs -> Asks]
      BY <2>1 DEF Crash, Drives, Asks
    <3>3. crashes' \in 0 .. MaxCrashes
      <4>1. crashes \in 0 .. MaxCrashes
        BY DEF TypeOK
      <4>2. crashes < MaxCrashes /\ crashes' = crashes + 1
        BY <2>1 DEF Crash
      <4> QED
        BY <4>1, <4>2, BoundsAssumption
    <3> QED
      BY <2>1, <3>1, <3>2, <3>3 DEF TypeOK, Crash
  <2>2. CASE Midnight
    BY <2>2, BoundsAssumption DEF TypeOK, Midnight
  <2>3. CASE UNCHANGED vars
    BY <2>3 DEF TypeOK, vars
  <2> QED
    BY <2>1, <2>2, <2>3, JobTypeStep, CallTypeStep DEF Next
<1> QED
  BY <1>1, <1>2, PTL DEF Spec

-----------------------------------------------------------------------------
(* The holds.                                                               *)

Pending(c) == ledger[c].state = "pending"
Charged(c) == ledger[c].state = "final" /\ ledger[c].amount = Quote[c]

\* Nothing is billed, or nobody can know.
Excused(c) ==
    \/ provider[c] = "idle"
    \/ call[c].end = "broken"
    \/ call[c].end = "database" /\ Kind(c) = "analyze"

\* What the ledger says of a call at each point of its way: this is what neither
\* property says, since both only look at one end of it.
HoldAt(c) ==
    /\ Is(c, "new") => provider[c] = "idle" /\ ledger[c].state = "none"
    /\ Is(c, "prepare") => provider[c] = "idle" /\ Pending(c)
    /\ call[c].pc \in {"request", "ambiguous", "record", "settle", "answered"} => Pending(c)
    /\ Is(c, "audit") => Charged(c)
    /\ Is(c, "rescue") => Pending(c) \/ Charged(c)
    /\ Is(c, "release") => (Pending(c) \/ Charged(c)) /\ Excused(c)
    /\ Is(c, "end") =>
          \/ Pending(c) /\ call[c].end \in {"crash", "database", "unprepared"}
          \/ Charged(c)
          \/ ledger[c].state = "none" /\ Excused(c)

Holds == \A c \in Calls : HoldAt(c)

LEMMA OthersKept ==
    ASSUME TypeOK, NEW c \in Calls, HoldAt(c),
           ledger'[c] = ledger[c], call'[c] = call[c], provider'[c] = provider[c]
    PROVE  HoldAt(c)'
  BY DEF HoldAt, Pending, Charged, Excused, Is, Kind

LEMMA JobKeepsHolds == ASSUME TypeOK, Holds, NEW j \in Jobs, JobStep(j) PROVE Holds'
<1>1. \A c \in Calls : ledger'[c] = ledger[c] /\ UNCHANGED <<call, provider>>
  <2>1. ASSUME NEW c \in Calls PROVE c # j /\ c \in Ids
    BY SpendersAssumption DEF Ids
  <2> QED
    BY <2>1 DEF TypeOK, JobStep, Create, Ask, Retry, Check, CancelWrite, CancelRecord, Work, Record,
                Finish
<1> QED
  BY <1>1, OthersKept DEF Holds

LEMMA CallKeepsHolds == ASSUME TypeOK, Holds, NEW c \in Calls, CallStep(c) PROVE Holds'
<1>0. c \in Ids /\ HoldAt(c) /\ call[c] \in CallRecords
  BY IdsType DEF Holds, TypeOK
<1>1. ASSUME NEW d \in Calls, d # c
      PROVE  ledger'[d] = ledger[d] /\ call'[d] = call[d] /\ provider'[d] = provider[d]
  BY <1>1, IdsType DEF TypeOK, CallStep, Hold, Prepare, Reply, Accept, Bill, Refuse, TimesOut, Breaks,
       Answers, Store, Release, SettleAmbiguous, Settle, Settled, Audit, Fails, To, Break
<1>2. HoldAt(c)'
  <2>1. CASE Hold(c)
    BY <1>0, <2>1 DEF Hold, TypeOK, CallRecords, HoldAt, Pending, Is
  <2>2. CASE Prepare(c)
    BY <1>0, <2>2 DEF Prepare, To, Break, TypeOK, CallRecords, HoldAt, Pending, Is
  <2>3. CASE Accept(c) \/ Bill(c)
    BY <1>0, <2>3 DEF Accept, Bill, TypeOK, HoldAt, Pending, Charged, Excused, Is, Kind
  <2>4. CASE Refuse(c)
    BY <1>0, <2>4 DEF Refuse, TypeOK, CallRecords, HoldAt, Pending, Excused, Is
  <2>5. CASE TimesOut(c) \/ Breaks(c)
    BY <1>0, <2>5 DEF TimesOut, Breaks, TypeOK, CallRecords, HoldAt, Pending, Excused, Is
  <2>6. CASE Answers(c)
    BY <1>0, <2>6 DEF Answers, TypeOK, CallRecords, HoldAt, Pending, Is
  <2>7. CASE Store(c)
    BY <1>0, <2>7 DEF Store, To, TypeOK, CallRecords, HoldAt, Pending, Is
  <2>8. CASE Release(c)
    <3>1. ledger'[c].state = "none" /\ Excused(c)' /\ call'[c].pc = "end"
      BY <1>0, <2>8 DEF Release, To, TypeOK, CallRecords, HoldAt, Excused, Is, Kind, NoRow
    <3> QED
      BY <3>1 DEF HoldAt, Is
  <2>9. CASE SettleAmbiguous(c) \/ Settle(c)
    <3>1. Charged(c)' /\ call'[c].pc \in {"end", "audit"}
      BY <1>0, <2>9 DEF SettleAmbiguous, Settle, Settled, To, TypeOK, CallRecords, Charged
    <3> QED
      BY <3>1 DEF HoldAt, Is
  <2>10. CASE Audit(c)
    <3>1. Charged(c)' /\ call'[c].pc = "end"
      BY <1>0, <2>10 DEF Audit, To, TypeOK, CallRecords, HoldAt, Charged, Is
    <3> QED
      BY <3>1 DEF HoldAt, Is
  <2>11. CASE Fails(c)
    <3>1. /\ Pending(c)' = Pending(c) /\ Charged(c)' = Charged(c)
          /\ call'[c].end = "database" /\ Kind(c)' = Kind(c)
      BY <1>0, <2>11 DEF Fails, Break, TypeOK, CallRecords, Pending, Charged, Kind
    <3>2. CASE call[c].pc \in {"release", "ambiguous", "rescue"}
      <4>1. call'[c].pc = "end" /\ (Pending(c) \/ Charged(c))
        BY <1>0, <2>11, <3>2 DEF Fails, Break, TypeOK, CallRecords, HoldAt, Is
      <4> QED
        BY <3>1, <4>1 DEF HoldAt, Is
    <3>3. CASE call[c].pc \in {"record", "settle", "audit"}
      <4>1. call'[c].pc = Afterwards(Kind(c)) /\ (Pending(c) \/ Charged(c))
        BY <1>0, <2>11, <3>3 DEF Fails, TypeOK, CallRecords, HoldAt, Is
      <4>2. Kind(c) = "analyze" => Excused(c)'
        BY <3>1 DEF Excused
      <4> QED
        BY <3>1, <4>1, <4>2 DEF HoldAt, Is, Afterwards
    <3> QED
      BY <2>11, <3>2, <3>3 DEF Fails
  <2> QED
    BY <2>1, <2>2, <2>3, <2>4, <2>5, <2>6, <2>7, <2>8, <2>9, <2>10, <2>11 DEF CallStep, Reply
<1> QED
  BY <1>1, <1>2, OthersKept DEF Holds

LEMMA HoldsStep == TypeOK /\ Holds /\ [Next]_vars => Holds'
<1> SUFFICES ASSUME TypeOK, Holds, [Next]_vars PROVE Holds'
  OBVIOUS
<1>1. CASE Crash
  <2> SUFFICES ASSUME NEW c \in Calls PROVE HoldAt(c)'
    BY DEF Holds
  <2>1. HoldAt(c) /\ call[c] \in CallRecords /\ ledger' = ledger /\ provider' = provider
    BY <1>1 DEF Holds, TypeOK, Crash
  <2>2. CASE call[c].pc \in {"new", "end"}
    BY <1>1, <2>1, <2>2, OthersKept DEF Crash
  <2>3. CASE call[c].pc \notin {"new", "end"}
    <3>1. call'[c].pc = "end" /\ call'[c].end = "crash" /\ (Pending(c) \/ Charged(c))
      BY <1>1, <2>1, <2>3 DEF Crash, CallRecords, CallPcs, HoldAt, Is
    <3> QED
      BY <2>1, <3>1 DEF HoldAt, Pending, Charged, Is
  <2> QED
    BY <2>2, <2>3
<1>2. CASE Midnight \/ UNCHANGED vars
  BY <1>2, OthersKept DEF Holds, Midnight, vars
<1> QED
  BY <1>1, <1>2, JobKeepsHolds, CallKeepsHolds DEF Next

LEMMA HoldsAlways == Spec => []Holds
<1>1. Init => Holds
  BY IdsType DEF Init, Holds, HoldAt, Pending, Charged, Excused, Is, NewCall, NoRow
<1> QED
  BY <1>1, SpendTypes, HoldsStep, PTL DEF Spec

\* A call the provider billed is in the ledger unless a request broke without an answer
\* or the analyze tool lost a statement, whatever crashes or fails.
THEOREM BilledStaysCounted == Spec => []BilledIsCounted
<1>1. TypeOK /\ Holds => BilledIsCounted
  <2> SUFFICES ASSUME TypeOK, Holds, NEW c \in Calls, provider[c] = "billed",
                      ~(call[c].end = "broken"),
                      ~(call[c].end = "database" /\ Kind(c) = "analyze")
               PROVE  Pending(c) \/ Charged(c)
    BY DEF BilledIsCounted, Pending, Charged
  <2>1. call[c].pc \in CallPcs /\ HoldAt(c) /\ ~Excused(c)
    BY DEF TypeOK, CallRecords, Holds, Excused
  <2> QED
    BY <2>1 DEF HoldAt, Is, CallPcs
<1> QED
  BY <1>1, SpendTypes, HoldsAlways, PTL

\* A call that is over leaves a hold behind only after a crash, a failed statement, or
\* a throw between the hold and the request.
THEOREM HoldsAreResolved == Spec => []NoForgottenHold
<1>1. Holds => NoForgottenHold
  BY DEF Holds, HoldAt, NoForgottenHold, Pending, Charged, Is
<1> QED
  BY <1>1, HoldsAlways, PTL

-----------------------------------------------------------------------------
(* Sums over finite sets of numbers.  The induction is over the smallest     *)
(* set a claim fails for.                                                    *)

LEMMA Least ==
    ASSUME NEW B \in SUBSET Nat, B # {}
    PROVE  \E m \in B : \A n \in B : m <= n
<1> DEFINE R == {ss \in Nat \X Nat : ss[1] < ss[2]}
<1>1. IsWellFoundedOn(OpToRel(<, Nat), Nat)
  BY NatLessThanWellFounded
<1>2. OpToRel(<, Nat) = R
  BY DEF OpToRel
<1>3. IsWellFoundedOn(R, Nat)
  BY <1>1, <1>2
<1>4. ASSUME NEW m \in Nat, NEW n \in Nat, <<n, m>> \notin R PROVE m <= n
  BY <1>4
<1> HIDE DEF R
<1>5. PICK m \in B : \A n \in B : <<n, m>> \notin R
  BY <1>3, WFMin
<1> QED
  BY <1>4, <1>5

\* Of some sets of the elements of a finite set, one is smallest.
LEMMA SmallestSet ==
    ASSUME NEW S, IsFiniteSet(S), NEW B \in SUBSET SUBSET S, B # {}
    PROVE  \E T \in B : \A x \in T : T \ {x} \notin B
<1> DEFINE Sizes == {Cardinality(T) : T \in B}
<1>1. \A T \in B : IsFiniteSet(T) /\ Cardinality(T) \in Nat
  BY FS_Subset, FS_CardinalityType
<1>2. PICK m \in Sizes : \A n \in Sizes : m <= n
  <2>1. Sizes \in SUBSET Nat /\ Sizes # {}
    BY <1>1
  <2> HIDE DEF Sizes
  <2> QED
    BY <2>1, Least
<1>3. PICK T \in B : Cardinality(T) = m
  BY <1>2
<1>4. ASSUME NEW x \in T, T \ {x} \in B PROVE FALSE
  <2>1. Cardinality(T \ {x}) = m - 1
    BY <1>1, <1>3, FS_RemoveElement
  <2> QED
    BY <2>1, <1>1, <1>2, <1>3, <1>4
<1> QED
  BY <1>4

Pick(s) == CHOOSE x \in s : TRUE
\* How SumFunctionOnSet computes the sum of f over s, from those of smaller sets.
Rec(f, g, s) == IF s = {} THEN 0 ELSE f[Pick(s)] + g[s \ {Pick(s)}]
Sums(f, g, S) == \A s \in SUBSET S : g[s] = Rec(f, g, s)

LEMMA PickIn == ASSUME NEW s, s # {} PROVE Pick(s) \in s
  BY DEF Pick

LEMMA SumsAgree ==
    ASSUME NEW S, IsFiniteSet(S), NEW f, NEW g, NEW h, Sums(f, g, S), Sums(f, h, S)
    PROVE  \A s \in SUBSET S : g[s] = h[s]
<1> DEFINE B == {s \in SUBSET S : g[s] # h[s]}
<1> SUFFICES ASSUME B # {} PROVE FALSE
  OBVIOUS
<1>1. PICK T \in B : \A x \in T : T \ {x} \notin B
  BY SmallestSet
<1>2. CASE T = {}
  BY <1>1, <1>2 DEF Sums, Rec
<1>3. CASE T # {}
  <2>1. Pick(T) \in T /\ T \ {Pick(T)} \in SUBSET S
    BY <1>3, PickIn
  <2>2. g[T \ {Pick(T)}] = h[T \ {Pick(T)}]
    BY <2>1, <1>1
  <2> QED
    BY <2>2, <1>1, <1>3 DEF Sums, Rec
<1> QED
  BY <1>2, <1>3

LEMMA SumsExist ==
    ASSUME NEW S, IsFiniteSet(S), NEW f, \A x \in S : f[x] \in Nat
    PROVE  \E g \in [SUBSET S -> Nat] : Sums(f, g, S)
<1> DEFINE Upto(g, n) == \A s \in SUBSET S : Cardinality(s) <= n => g[s] = Rec(f, g, s)
           G == [SUBSET S -> Nat]
           B == {n \in Nat : \A g \in G : ~Upto(g, n)}
<1>1. \A s \in SUBSET S : IsFiniteSet(s) /\ Cardinality(s) \in Nat
  BY FS_Subset, FS_CardinalityType
<1>2. ASSUME NEW s \in SUBSET S, s # {}
      PROVE  /\ s \ {Pick(s)} \in SUBSET S /\ Pick(s) \in S
             /\ Cardinality(s \ {Pick(s)}) = Cardinality(s) - 1
  BY <1>1, <1>2, PickIn, FS_RemoveElement
<1>3. ASSUME NEW g \in G, NEW s \in SUBSET S PROVE Rec(f, g, s) \in Nat
  <2>1. CASE s = {}
    BY <2>1 DEF Rec
  <2>2. CASE s # {}
    <3>1. f[Pick(s)] \in Nat /\ g[s \ {Pick(s)}] \in Nat
      BY <1>2, <2>2
    <3> QED
      BY <2>2, <3>1 DEF Rec
  <2> QED
    BY <2>1, <2>2
<1>4. B = {}
  <2> SUFFICES ASSUME B # {} PROVE FALSE
    OBVIOUS
  <2>1. PICK m \in B : \A n \in B : m <= n
    BY Least
  <2>2. CASE m = 0
    <3> DEFINE g == [s \in SUBSET S |-> 0]
    <3>1. \A s \in SUBSET S : Cardinality(s) <= 0 => s = {}
      BY <1>1, FS_EmptySet
    <3>2. g \in G /\ Upto(g, 0)
      BY <3>1 DEF Rec
    <3> QED
      BY <3>2, <2>1, <2>2
  <2>3. CASE m # 0
    <3>1. m - 1 \in Nat /\ m - 1 \notin B
      <4>1. m \in Nat
        OBVIOUS
      <4> HIDE DEF B
      <4> QED
        BY <4>1, <2>1, <2>3
    <3>2. PICK g \in G : Upto(g, m - 1)
      BY <3>1
    <3> DEFINE h == [s \in SUBSET S |-> IF Cardinality(s) <= m - 1 THEN g[s] ELSE Rec(f, g, s)]
    <3>3. h \in G
      BY <1>3
    <3>4. ASSUME NEW s \in SUBSET S, Cardinality(s) <= m PROVE h[s] = Rec(f, h, s)
      <4>1. h[s] = Rec(f, g, s)
        BY <3>2
      <4>2. CASE s = {}
        BY <4>1, <4>2 DEF Rec
      <4>3. CASE s # {}
        <5>1. h[s \ {Pick(s)}] = g[s \ {Pick(s)}]
          BY <1>1, <1>2, <3>4, <4>3, <2>1
        <5> QED
          BY <4>1, <4>3, <5>1 DEF Rec
      <4> QED
        BY <4>2, <4>3
    <3> QED
      BY <3>3, <3>4, <2>1
  <2> QED
    BY <2>2, <2>3
<1>5. Cardinality(S) \in Nat /\ \A s \in SUBSET S : Cardinality(s) <= Cardinality(S)
  BY FS_Subset, FS_CardinalityType
<1>6. PICK g \in G : Upto(g, Cardinality(S))
  BY <1>4, <1>5
<1> QED
  BY <1>5, <1>6 DEF Sums

LEMMA SumIsOne ==
    ASSUME NEW S, IsFiniteSet(S), NEW f, NEW g \in [SUBSET S -> Nat], Sums(f, g, S)
    PROVE  SumFunctionOnSet(f, S) = g[S]
<1>1. g = [s \in SUBSET S |-> Rec(f, g, s)]
  BY DEF Sums
<1>2. PICK h : h = [s \in SUBSET S |-> Rec(f, h, s)] /\ SumFunctionOnSet(f, S) = h[S]
  BY <1>1 DEF SumFunctionOnSet, FoldFunctionOnSet, MapThenFoldSet, Rec, Pick
<1>3. Sums(f, h, S)
  BY <1>2 DEF Sums
<1> QED
  BY <1>2, <1>3, SumsAgree

\* The sums over all sets of the elements of S.
Summable(f, S) == \A x \in S : f[x] \in Nat
Tells(f, g, S) == /\ g \in [SUBSET S -> Nat] /\ Sums(f, g, S)
                  /\ \A s \in SUBSET S : SumFunctionOnSet(f, s) = g[s]

LEMMA SumsOf ==
    ASSUME NEW S, IsFiniteSet(S), NEW f, Summable(f, S)
    PROVE  \E g : Tells(f, g, S)
<1>0. \A x \in S : f[x] \in Nat
  BY DEF Summable
<1>1. PICK g \in [SUBSET S -> Nat] : Sums(f, g, S)
  BY <1>0, SumsExist
<1>2. ASSUME NEW s \in SUBSET S PROVE SumFunctionOnSet(f, s) = g[s]
  <2> DEFINE h == [t \in SUBSET s |-> g[t]]
  <2>1. IsFiniteSet(s)
    BY FS_Subset
  <2>2. h \in [SUBSET s -> Nat]
    OBVIOUS
  <2>3. Sums(f, h, s)
    BY <1>1 DEF Sums, Rec
  <2>4. h[s] = g[s]
    OBVIOUS
  <2> HIDE DEF h
  <2> QED
    BY <2>1, <2>2, <2>3, <2>4, SumIsOne
<1> QED
  BY <1>1, <1>2 DEF Tells

LEMMA SumEmpty == ASSUME NEW f PROVE SumFunctionOnSet(f, {}) = 0
<1>1. IsFiniteSet({}) /\ Summable(f, {})
  BY FS_EmptySet DEF Summable
<1>2. PICK g : Tells(f, g, {})
  BY <1>1, SumsOf
<1> QED
  BY <1>2 DEF Tells, Sums, Rec

LEMMA SumNat ==
    ASSUME NEW S, IsFiniteSet(S), NEW f, Summable(f, S)
    PROVE  SumFunctionOnSet(f, S) \in Nat
<1>1. PICK g : Tells(f, g, S)
  BY SumsOf
<1> QED
  BY <1>1 DEF Tells

\* The sum does not depend on the order.
LEMMA SumWithout ==
    ASSUME NEW S, IsFiniteSet(S), NEW f, Summable(f, S), NEW x \in S
    PROVE  SumFunctionOnSet(f, S) = f[x] + SumFunctionOnSet(f, S \ {x})
<1>0. PICK g : Tells(f, g, S)
  BY SumsOf
<1>1. /\ g \in [SUBSET S -> Nat] /\ Sums(f, g, S)
      /\ \A s \in SUBSET S : SumFunctionOnSet(f, s) = g[s]
      /\ \A y \in S : f[y] \in Nat
  BY <1>0 DEF Tells, Summable
<1> DEFINE B == {s \in SUBSET S : \E y \in s : g[s] # f[y] + g[s \ {y}]}
<1>2. B = {}
  <2> SUFFICES ASSUME B # {} PROVE FALSE
    OBVIOUS
  <2>1. PICK T \in B : \A y \in T : T \ {y} \notin B
    BY SmallestSet
  <2>2. PICK y \in T : g[T] # f[y] + g[T \ {y}]
    OBVIOUS
  <2> DEFINE z == Pick(T)
  <2>3. z \in T /\ T \in SUBSET S
    BY PickIn
  <2>4. g[T] = f[z] + g[T \ {z}]
    BY <1>1, <2>3 DEF Sums, Rec
  <2> HIDE DEF z
  <2>5. y # z
    BY <2>2, <2>4
  <2>6. T \ {z} \notin B /\ T \ {y} \notin B
    BY <2>1, <2>3
  <2>7. y \in T \ {z} /\ z \in T \ {y} /\ T \ {z} \in SUBSET S /\ T \ {y} \in SUBSET S
    BY <2>3, <2>5
  <2>8. g[T \ {z}] = f[y] + g[(T \ {z}) \ {y}] /\ g[T \ {y}] = f[z] + g[(T \ {y}) \ {z}]
    BY <2>6, <2>7
  <2>9. (T \ {z}) \ {y} = (T \ {y}) \ {z} /\ (T \ {y}) \ {z} \in SUBSET S
    BY <2>3
  <2>10. f[y] \in Nat /\ f[z] \in Nat /\ g[(T \ {y}) \ {z}] \in Nat
    BY <1>1, <2>3, <2>9
  <2>11. g[T \ {z}] = f[y] + g[(T \ {y}) \ {z}]
    BY <2>8, <2>9
  <2> HIDE DEF B
  <2> DEFINE r == g[(T \ {y}) \ {z}]
             p == g[T \ {y}]
             q == g[T \ {z}]
             t == g[T]
  <2>12. /\ t # f[y] + p /\ t = f[z] + q /\ q = f[y] + r /\ p = f[z] + r
         /\ f[y] \in Nat /\ f[z] \in Nat /\ r \in Nat
    BY <2>2, <2>4, <2>8, <2>10, <2>11
  <2> HIDE DEF r, p, q, t
  <2> QED
    BY <2>12
<1>3. g[S] = f[x] + g[S \ {x}]
  <2>1. S \in SUBSET S /\ S \notin B
    BY <1>2
  <2> QED
    BY <2>1
<1>4. SumFunctionOnSet(f, S) = g[S] /\ SumFunctionOnSet(f, S \ {x}) = g[S \ {x}]
  BY <1>1
<1> QED
  BY <1>3, <1>4

\* More summands, each at least as large, give at least the same sum.
LEMMA SumGrows ==
    ASSUME NEW S, IsFiniteSet(S), NEW T \in SUBSET S, NEW f, NEW g,
           Summable(g, S), Summable(f, T), \A x \in T : f[x] <= g[x]
    PROVE  SumFunctionOnSet(f, T) <= SumFunctionOnSet(g, S)
<1> DEFINE F(s) == SumFunctionOnSet(f, s)
           G(s) == SumFunctionOnSet(g, s)
           B == {s \in SUBSET S : ~(F(s \cap T) <= G(s))}
<1>0. (\A x \in S : g[x] \in Nat) /\ (\A x \in T : f[x] \in Nat)
  BY DEF Summable
<1>1. \A s \in SUBSET S : /\ IsFiniteSet(s) /\ IsFiniteSet(s \cap T)
                          /\ Summable(g, s) /\ Summable(f, s \cap T)
  BY <1>0, FS_Subset DEF Summable
<1>2. \A s \in SUBSET S : F(s \cap T) \in Nat /\ G(s) \in Nat
  BY <1>1, SumNat
<1>3. ASSUME NEW s \in SUBSET S, NEW x \in s PROVE G(s) = g[x] + G(s \ {x})
  BY <1>1, SumWithout
<1>4. ASSUME NEW s \in SUBSET S, NEW x \in s \cap T
      PROVE F(s \cap T) = f[x] + F((s \cap T) \ {x})
  <2>1. IsFiniteSet(s \cap T) /\ Summable(f, s \cap T)
    BY <1>1
  <2> QED
    BY <2>1, SumWithout
<1>5. F({}) = 0 /\ G({}) = 0
  BY SumEmpty
<1> HIDE DEF F, G
<1>6. B = {}
  <2> SUFFICES ASSUME B # {} PROVE FALSE
    OBVIOUS
  <2>1. PICK s \in B : \A y \in s : s \ {y} \notin B
    BY SmallestSet
  <2>2. CASE s = {}
    <3>1. s \cap T = {}
      BY <2>2
    <3> QED
      BY <3>1, <2>2, <1>5
  <2>3. CASE s # {}
    <3>1. PICK x \in s : TRUE
      BY <2>3
    <3>2. s \ {x} \in SUBSET S /\ F((s \ {x}) \cap T) <= G(s \ {x})
      BY <2>1
    <3>3. G(s) = g[x] + G(s \ {x}) /\ g[x] \in Nat /\ G(s \ {x}) \in Nat /\ F((s \ {x}) \cap T) \in Nat
      BY <1>0, <1>2, <1>3, <3>2
    <3>4. CASE x \in T
      <4>1. (s \cap T) \ {x} = (s \ {x}) \cap T /\ x \in s \cap T
        BY <3>4
      <4>2. F(s \cap T) = f[x] + F((s \ {x}) \cap T)
        BY <1>4, <4>1
      <4>3. f[x] \in Nat /\ f[x] <= g[x]
        BY <1>0, <3>4
      <4>4. F(s \cap T) <= G(s)
        BY <3>2, <3>3, <4>2, <4>3
      <4> QED
        BY <4>4
    <3>5. CASE x \notin T
      <4>1. s \cap T = (s \ {x}) \cap T
        BY <3>5
      <4>2. F(s \cap T) = F((s \ {x}) \cap T)
        BY <4>1
      <4>3. F(s \cap T) <= G(s)
        BY <3>2, <3>3, <4>2
      <4> QED
        BY <4>3
    <3> QED
      BY <3>4, <3>5
  <2> QED
    BY <2>2, <2>3
<1>7. S \cap T = T
  OBVIOUS
<1>8. F(T) <= G(S)
  BY <1>6, <1>7
<1> QED
  BY <1>8 DEF F, G

LEMMA SumZero ==
    ASSUME NEW S, IsFiniteSet(S), NEW f, \A x \in S : f[x] = 0
    PROVE  SumFunctionOnSet(f, S) = 0
<1>1. Summable(f, S)
  BY DEF Summable
<1>2. PICK g : Tells(f, g, S)
  BY <1>1, SumsOf
<1> DEFINE B == {s \in SUBSET S : g[s] # 0}
<1>3. B = {}
  <2> SUFFICES ASSUME B # {} PROVE FALSE
    OBVIOUS
  <2>1. PICK T \in B : \A y \in T : T \ {y} \notin B
    BY SmallestSet
  <2>2. CASE T = {}
    BY <1>2, <2>2 DEF Tells, Sums, Rec
  <2>3. CASE T # {}
    <3>1. Pick(T) \in T /\ T \ {Pick(T)} \in SUBSET S
      BY <2>3, PickIn
    <3>2. g[T] = f[Pick(T)] + g[T \ {Pick(T)}] /\ f[Pick(T)] = 0 /\ g[T \ {Pick(T)}] = 0
      BY <1>2, <2>1, <2>3, <3>1 DEF Tells, Sums, Rec
    <3> QED
      BY <3>2
  <2> QED
    BY <2>2, <2>3
<1> QED
  BY <1>2, <1>3 DEF Tells

-----------------------------------------------------------------------------
(* The caps.                                                                *)

\* What a job was admitted for, and what it or a call takes of a cap.
Agreed(i) == IF Quote[i] < Estimate[i] THEN Quote[i] ELSE Estimate[i]
Counted(k, i) ==
    IF waived[i] THEN 0
    ELSE IF Reserved(i) > 0 /\ Spent(k, i) < Agreed(i) THEN Agreed(i) ELSE Spent(k, i)

\* No row is of a later day, and a hold is of the price it was admitted for.
Dated  == \A i \in Ids : ledger[i].day <= today
Priced == \A c \in Calls : Pending(c) => ledger[c].amount = Estimate[c]
Fits   == \A k \in Caps : SumFunctionOnSet([i \in Ids |-> Counted(k, i)], k.counts) <= k.limit

LEMMA CapFacts ==
    ASSUME NEW k \in Caps
    PROVE  /\ k.counts \in SUBSET Ids /\ k.counts \subseteq k.asks /\ k.limit \in Nat
           /\ IsFiniteSet(k.counts)
<1>1. k \in CapRecords /\ k.counts \subseteq k.asks
  BY CapsAssumption
<1>2. k.counts \in SUBSET Ids /\ k.limit \in Nat
  BY <1>1 DEF CapRecords
<1> QED
  BY <1>1, <1>2, SpendersAssumption, FS_Subset

LEMMA MeasureTypes ==
    ASSUME TypeOK, NEW k \in Caps, NEW i \in Ids
    PROVE  /\ Spent(k, i) \in Nat /\ Reserved(i) \in Nat /\ Agreed(i) \in Nat /\ Counted(k, i) \in Nat
           /\ Agreed(i) <= Quote[i] /\ Agreed(i) <= Estimate[i]
           /\ Counted(k, i) <= Spent(k, i) + Reserved(i)
<1>1. Quote[i] \in Nat /\ Estimate[i] \in Nat /\ ledger[i] \in Rows
  BY PricesAssumption DEF TypeOK
<1>2. Spent(k, i) \in Nat /\ Reserved(i) \in Nat /\ (Reserved(i) > 0 => Reserved(i) = Estimate[i])
  BY <1>1 DEF Spent, Reserved, Rows
<1>3. Agreed(i) \in Nat /\ Agreed(i) <= Quote[i] /\ Agreed(i) <= Estimate[i]
  BY <1>1 DEF Agreed
<1>4. Counted(k, i) \in Nat /\ Counted(k, i) <= Spent(k, i) + Reserved(i)
  BY <1>2, <1>3 DEF Counted
<1> QED
  BY <1>2, <1>3, <1>4

LEMMA CountedNext ==
    ASSUME TypeOK', NEW k \in Caps, NEW i \in Ids
    PROVE  Counted(k, i)' \in Nat
<1>1. Quote[i] \in Nat /\ Estimate[i] \in Nat /\ ledger'[i] \in Rows
  BY PricesAssumption DEF TypeOK
<1>2. Spent(k, i)' \in Nat /\ Agreed(i) \in Nat
  BY <1>1 DEF Spent, Agreed, Rows
<1> QED
  BY <1>2 DEF Counted, Agreed

\* Nothing takes more than before.
LEMMA FitsStill ==
    ASSUME TypeOK, TypeOK', Fits,
           \A k \in Caps : \A i \in k.counts : Counted(k, i)' <= Counted(k, i)
    PROVE  Fits'
<1> SUFFICES ASSUME NEW k \in Caps
             PROVE  SumFunctionOnSet([i \in Ids |-> Counted(k, i)'], k.counts) <= k.limit
  BY DEF Fits
<1> DEFINE S == k.counts
           f == [i \in Ids |-> Counted(k, i)']
           g == [i \in Ids |-> Counted(k, i)]
<1>1. \A i \in Ids : Counted(k, i) \in Nat /\ Counted(k, i)' \in Nat
  BY MeasureTypes, CountedNext
<1>2. IsFiniteSet(S) /\ S \in SUBSET S /\ S \subseteq Ids /\ k.limit \in Nat
  BY CapFacts
<1>3. Summable(f, S) /\ Summable(g, S)
  BY <1>1, <1>2 DEF Summable
<1>4. \A i \in S : f[i] <= g[i]
  BY <1>2
<1>5. SumFunctionOnSet(g, S) <= k.limit
  BY DEF Fits
<1> HIDE DEF f, g, S
<1>6. SumFunctionOnSet(f, S) <= SumFunctionOnSet(g, S)
  BY <1>2, <1>3, <1>4, SumGrows
<1>7. SumFunctionOnSet(f, S) \in Nat /\ SumFunctionOnSet(g, S) \in Nat
  BY <1>2, <1>3, SumNat
<1>8. SumFunctionOnSet(f, S) <= k.limit
  BY <1>2, <1>5, <1>6, <1>7
<1> QED
  BY <1>8 DEF f, S

\* One more takes what every cap that is asked had room for.
LEMMA FitsAdmitted ==
    ASSUME TypeOK, TypeOK', Fits, NEW x \in Ids, NEW price \in Nat, Admitted(x, price),
           \A k \in Caps : \A i \in k.counts \ {x} : Counted(k, i)' <= Counted(k, i),
           \A k \in Caps : Counted(k, x)' <= Spent(k, x) + Reserved(x) + price
    PROVE  Fits'
<1> SUFFICES ASSUME NEW k \in Caps
             PROVE  SumFunctionOnSet([i \in Ids |-> Counted(k, i)'], k.counts) <= k.limit
  BY DEF Fits
<1> DEFINE S == k.counts
           f == [i \in Ids |-> Counted(k, i)']
           g == [i \in Ids |-> Counted(k, i)]
           h == [i \in Ids |-> Spent(k, i) + Reserved(i)]
<1>1. ASSUME NEW i \in Ids
      PROVE  f[i] \in Nat /\ g[i] \in Nat /\ h[i] \in Nat /\ g[i] <= h[i]
  <2>1. Counted(k, i)' \in Nat
    BY CountedNext
  <2>2. /\ Counted(k, i) \in Nat /\ Spent(k, i) + Reserved(i) \in Nat
        /\ Counted(k, i) <= Spent(k, i) + Reserved(i)
    BY MeasureTypes
  <2> QED
    BY <2>1, <2>2
<1>2. IsFiniteSet(S) /\ S \in SUBSET Ids /\ S \subseteq k.asks /\ k.limit \in Nat
  BY CapFacts
<1>3. Summable(f, S) /\ Summable(g, S) /\ Summable(h, S)
  BY <1>1, <1>2 DEF Summable
<1>4. CASE x \notin S
  <2>1. \A i \in S : f[i] <= g[i]
    BY <1>2, <1>4
  <2>2. SumFunctionOnSet(g, S) <= k.limit
    BY DEF Fits
  <2> HIDE DEF f, g, h, S
  <2>3. SumFunctionOnSet(f, S) <= SumFunctionOnSet(g, S)
    BY <1>2, <1>3, <2>1, SumGrows
  <2>4. SumFunctionOnSet(f, S) \in Nat /\ SumFunctionOnSet(g, S) \in Nat
    BY <1>2, <1>3, SumNat
  <2>5. SumFunctionOnSet(f, S) <= k.limit
    BY <1>2, <2>2, <2>3, <2>4
  <2> QED
    BY <2>5 DEF f, S
<1>5. CASE x \in S
  <2> DEFINE R == S \ {x}
  <2>1. f[x] <= h[x] + price
    BY <1>5
  <2>2. \A i \in R : f[i] <= h[i]
    <3>1. ASSUME NEW i \in R PROVE f[i] <= h[i]
      <4>1. i \in Ids /\ f[i] <= g[i]
        BY <1>2
      <4> HIDE DEF f, g, h
      <4> QED
        BY <1>1, <4>1
    <3> QED
      BY <3>1
  <2>3. SumFunctionOnSet(h, S) + price <= k.limit
    BY <1>2, <1>5 DEF Admitted, Total
  <2> HIDE DEF f, g, h, S
  <2>4. IsFiniteSet(R) /\ R \in SUBSET R /\ Summable(f, R) /\ Summable(h, R)
    BY <1>2, <1>3, FS_Subset DEF Summable
  <2>5. SumFunctionOnSet(f, S) = f[x] + SumFunctionOnSet(f, R)
    BY <1>2, <1>3, <1>5, SumWithout
  <2>6. SumFunctionOnSet(h, S) = h[x] + SumFunctionOnSet(h, R)
    BY <1>2, <1>3, <1>5, SumWithout
  <2> HIDE DEF R
  <2>7. SumFunctionOnSet(f, R) <= SumFunctionOnSet(h, R)
    BY <2>2, <2>4, SumGrows
  <2>8. SumFunctionOnSet(f, R) \in Nat /\ SumFunctionOnSet(h, R) \in Nat
    BY <2>4, SumNat
  <2>9. f[x] \in Nat /\ h[x] \in Nat
    BY <1>1
  <2>10. SumFunctionOnSet(f, S) <= k.limit
    BY <1>2, <2>1, <2>3, <2>5, <2>6, <2>7, <2>8, <2>9
  <2> QED
    BY <2>10 DEF f, S
<1> QED
  BY <1>4, <1>5

CapsInv == Dated /\ Priced /\ Fits

LEMMA CapsInit == Init => CapsInv
<1> SUFFICES ASSUME Init PROVE CapsInv
  OBVIOUS
<1>1. Dated /\ Priced
  BY IdsType DEF Init, Dated, Priced, Pending, NoRow
<1>2. Fits
  <2> SUFFICES ASSUME NEW k \in Caps
               PROVE  SumFunctionOnSet([i \in Ids |-> Counted(k, i)], k.counts) <= k.limit
    BY DEF Fits
  <2>1. \A i \in Ids : Counted(k, i) = 0
    BY PricesAssumption DEF Init, Counted, Spent, Reserved, NoRow
  <2> DEFINE f == [i \in Ids |-> Counted(k, i)]
  <2>2. IsFiniteSet(k.counts) /\ k.limit \in Nat /\ \A i \in k.counts : f[i] = 0
    BY <2>1, CapFacts
  <2> HIDE DEF f
  <2>3. SumFunctionOnSet(f, k.counts) <= k.limit
    BY <2>2, SumZero
  <2> QED
    BY <2>3 DEF f
<1> QED
  BY <1>1, <1>2 DEF CapsInv


\* Whose row, status and waiver stay as they are takes what it took.
LEMMA CountedSame ==
    ASSUME NEW k \in Caps, NEW i \in Ids, today' = today, ledger'[i] = ledger[i],
           waived'[i] = waived[i], i \in Jobs => status'[i] = status[i]
    PROVE  Counted(k, i)' = Counted(k, i)
<1>1. Spent(k, i)' = Spent(k, i) /\ Reserved(i)' = Reserved(i)
  BY DEF Spent, Reserved, InWindow
<1> QED
  BY <1>1 DEF Counted, Agreed

\* A step of x that adds nothing.
LEMMA FitsAfter ==
    ASSUME TypeOK, TypeOK', Fits, NEW x \in Ids, today' = today,
           \A i \in Ids \ {x} : /\ ledger'[i] = ledger[i] /\ waived'[i] = waived[i]
                                /\ i \in Jobs => status'[i] = status[i],
           \A k \in Caps : Counted(k, x)' <= Counted(k, x)
    PROVE  Fits'
<1>1. ASSUME NEW k \in Caps, NEW i \in k.counts PROVE Counted(k, i)' <= Counted(k, i)
  <2>1. i \in Ids
    BY CapFacts
  <2>2. CASE i # x
    <3>1. Counted(k, i)' = Counted(k, i)
      BY <2>1, <2>2, CountedSame
    <3> QED
      BY <2>1, <3>1, MeasureTypes
  <2> QED
    BY <2>2
<1> QED
  BY <1>1, FitsStill

\* A step of x that the caps admitted.
LEMMA FitsTogether ==
    ASSUME TypeOK, TypeOK', Fits, NEW x \in Ids, NEW price \in Nat, Admitted(x, price), today' = today,
           \A i \in Ids \ {x} : /\ ledger'[i] = ledger[i] /\ waived'[i] = waived[i]
                                /\ i \in Jobs => status'[i] = status[i],
           \A k \in Caps : Counted(k, x)' <= Spent(k, x) + Reserved(x) + price
    PROVE  Fits'
<1>1. ASSUME NEW k \in Caps, NEW i \in k.counts \ {x} PROVE Counted(k, i)' <= Counted(k, i)
  <2>1. i \in Ids
    BY CapFacts
  <2>2. Counted(k, i)' = Counted(k, i)
    BY <2>1, CountedSame
  <2> QED
    BY <2>1, <2>2, MeasureTypes
<1> QED
  BY <1>1, FitsAdmitted

LEMMA JobKeepsFits ==
    ASSUME TypeOK, TypeOK', Fits, NEW j \in Jobs, JobStep(j) PROVE Fits'
<1>0. j \in Ids /\ Quote[j] \in Nat /\ Estimate[j] \in Nat
  BY IdsType, PricesAssumption
<1>1. /\ today' = today
      /\ \A i \in Ids \ {j} : /\ ledger'[i] = ledger[i] /\ waived'[i] = waived[i]
                              /\ i \in Jobs => status'[i] = status[i]
  BY DEF TypeOK, JobStep, Create, Ask, Retry, Check, CancelWrite, CancelRecord, Work, Record, Finish
<1>2. ASSUME NEW k \in Caps
      PROVE  /\ Spent(k, j) \in Nat /\ Reserved(j) \in Nat /\ Agreed(j) \in Nat /\ Counted(k, j) \in Nat
             /\ Agreed(j) <= Quote[j] /\ Agreed(j) <= Estimate[j]
  BY <1>0, MeasureTypes
<1>3. CASE waived'[j]
  <2>1. \A k \in Caps : Counted(k, j)' = 0
    BY <1>3 DEF Counted
  <2>2. \A k \in Caps : Counted(k, j)' <= Counted(k, j)
    BY <1>2, <2>1
  <2> QED
    BY <1>0, <1>1, <2>2, FitsAfter
<1>4. CASE Create(j) \/ Retry(j)
  <2>1. CASE ledger' = ledger /\ ~waived'[j] /\ Admitted(j, Quote[j])
    <3>1. ASSUME NEW k \in Caps PROVE Counted(k, j)' <= Spent(k, j) + Reserved(j) + Quote[j]
      <4>1. Spent(k, j)' = Spent(k, j)
        BY <1>1, <2>1 DEF Spent, InWindow
      <4>2. Counted(k, j)' = Agreed(j) \/ Counted(k, j)' = Spent(k, j)
        BY <2>1, <4>1 DEF Counted, Agreed
      <4> QED
        BY <1>0, <1>2, <4>2
    <3> QED
      BY <1>0, <1>1, <2>1, <3>1, FitsTogether
  <2>2. CASE UNCHANGED <<ledger, status, waived>>
    <3>1. \A k \in Caps : Counted(k, j)' = Counted(k, j)
      BY <1>0, <1>1, <2>2, CountedSame
    <3>2. \A k \in Caps : Counted(k, j)' <= Counted(k, j)
      BY <1>2, <3>1
    <3> QED
      BY <1>0, <1>1, <3>2, FitsAfter
  <2> QED
    BY <1>0, <1>3, <1>4, <2>1, <2>2 DEF Create, Retry, TypeOK
<1>5. CASE ~waived'[j] /\ (Ask(j) \/ Work(j) \/ Check(j))
  <2>1. UNCHANGED <<ledger, status, waived>>
    BY <1>0, <1>5 DEF Ask, Work, Check, TypeOK
  <2>2. \A k \in Caps : Counted(k, j)' = Counted(k, j)
    BY <1>0, <1>1, <2>1, CountedSame
  <2>3. \A k \in Caps : Counted(k, j)' <= Counted(k, j)
    BY <1>2, <2>2
  <2> QED
    BY <1>0, <1>1, <2>3, FitsAfter
<1>6. CASE ~waived'[j] /\ (CancelWrite(j) \/ Finish(j))
  <2>1. ledger' = ledger /\ waived' = waived /\ status'[j] # "open"
    BY <1>6 DEF CancelWrite, Finish, TypeOK
  <2>2. ASSUME NEW k \in Caps PROVE Counted(k, j)' <= Counted(k, j)
    <3>1. Spent(k, j)' = Spent(k, j) /\ Reserved(j)' = 0
      BY <1>1, <2>1 DEF Spent, InWindow, Reserved
    <3>2. Counted(k, j)' = Spent(k, j)
      BY <1>6, <3>1 DEF Counted
    <3> QED
      BY <1>2, <1>6, <2>1, <3>2 DEF Counted
  <2> QED
    BY <1>0, <1>1, <2>2, FitsAfter
<1>7. CASE ~waived'[j] /\ (CancelRecord(j) \/ Record(j))
  <2>1. PICK amount \in Nat : /\ ledger'[j] = Row(amount) /\ status' = status /\ ~waived[j]
                              /\ amount = 0 \/ (status[j] = "open" /\ amount <= Agreed(j))
    <3>1. CASE CancelRecord(j)
      <4>1. ledger'[j] = Row(0) /\ status' = status /\ ~waived[j]
        BY <1>0, <1>7, <3>1 DEF CancelRecord, TypeOK
      <4> QED
        BY <4>1
    <3>2. CASE Record(j)
      <4>1. PICK amount \in {0, Quote[j], Quote[j] + 1} :
              /\ ledger' = [ledger EXCEPT ![j] = Row(amount)]
              /\ waived' = [waived EXCEPT ![j] = @ \/ ~(amount = 0 \/ Covered(j, amount))]
        BY <3>2 DEF Record
      <4>2. amount \in Nat /\ ledger'[j] = Row(amount) /\ status' = status
        BY <1>0, <3>2, <4>1 DEF Record, TypeOK
      <4>3. waived'[j] = (waived[j] \/ ~(amount = 0 \/ Covered(j, amount)))
        BY <1>0, <4>1 DEF TypeOK
      <4>4. ~waived[j] /\ (amount = 0 \/ Covered(j, amount))
        BY <1>7, <4>3
      <4> QED
        BY <1>0, <4>2, <4>4 DEF Covered, Agreed
    <3> QED
      BY <1>7, <3>1, <3>2
  <2>2. ASSUME NEW k \in Caps PROVE Counted(k, j)' <= Counted(k, j)
    <3>1. Reserved(j)' = Reserved(j) /\ Spent(k, j)' = amount
      BY <1>1, <2>1 DEF Reserved, Spent, InWindow, Row
    <3>2. status[j] = "open" => Reserved(j) = Estimate[j]
      BY DEF Reserved
    <3>3. Counted(k, j)' = IF Reserved(j) > 0 /\ amount < Agreed(j) THEN Agreed(j) ELSE amount
      BY <1>7, <3>1 DEF Counted, Agreed
    <3>4. Counted(k, j) = IF Reserved(j) > 0 /\ Spent(k, j) < Agreed(j) THEN Agreed(j) ELSE Spent(k, j)
      BY <2>1 DEF Counted
    <3> QED
      BY <1>0, <1>2, <2>1, <3>2, <3>3, <3>4
  <2> QED
    BY <1>0, <1>1, <2>2, FitsAfter
<1> QED
  BY <1>3, <1>4, <1>5, <1>6, <1>7 DEF JobStep

\* A settlement that is not waived costs no more than the hold, on the day of the hold.
LEMMA SettledFacts ==
    ASSUME TypeOK, NEW c \in Calls, NEW b \in BOOLEAN, Settled(c, b), ~waived'[c]
    PROVE  /\ ~waived[c] /\ Quote[c] <= Estimate[c]
           /\ ledger'[c] = [state |-> "final", amount |-> Quote[c], day |-> ledger[c].day]
<1>0. c \in Ids /\ Quote[c] \in Nat /\ Estimate[c] \in Nat
  BY IdsType, PricesAssumption
<1>1. waived'[c] = (waived[c] \/ Quote[c] > Estimate[c] \/ (b /\ ledger[c].day # today))
  BY <1>0 DEF Settled, TypeOK
<1>2. ~waived[c] /\ ~(Quote[c] > Estimate[c]) /\ ~(b /\ ledger[c].day # today)
  BY <1>1
<1>3. ledger'[c] = [state |-> "final", amount |-> Quote[c], day |-> IF b THEN today ELSE ledger[c].day]
  BY <1>0 DEF Settled, TypeOK
<1>4. (IF b THEN today ELSE ledger[c].day) = ledger[c].day
  BY <1>2
<1> QED
  BY <1>0, <1>2, <1>3, <1>4

LEMMA SettlesEither ==
    ASSUME NEW c \in Calls, SettleAmbiguous(c) \/ Settle(c)
    PROVE  \E b \in BOOLEAN : Settled(c, b)
<1>1. CASE SettleAmbiguous(c)
  BY <1>1 DEF SettleAmbiguous
<1>2. CASE Settle(c)
  <2>1. CASE Kind(c) \in Redates
    <3>1. Settled(c, TRUE)
      BY <1>2, <2>1 DEF Settle, Settled
    <3> QED
      BY <3>1
  <2>2. CASE Kind(c) \notin Redates
    <3>1. Settled(c, FALSE)
      BY <1>2, <2>2 DEF Settle, Settled
    <3> QED
      BY <3>1
  <2> QED
    BY <2>1, <2>2
<1> QED
  BY <1>1, <1>2

LEMMA CallKeepsFits ==
    ASSUME TypeOK, TypeOK', Fits, Holds, Priced, NEW c \in Calls, CallStep(c) PROVE Fits'
<1>0. c \in Ids /\ c \notin Jobs /\ Quote[c] \in Nat /\ Estimate[c] \in Nat /\ ledger[c] \in Rows
  BY IdsType, PricesAssumption, SpendersAssumption DEF TypeOK
<1>1. /\ today' = today /\ status' = status
      /\ \A i \in Ids \ {c} : ledger'[i] = ledger[i] /\ waived'[i] = waived[i]
  BY DEF TypeOK, CallStep, Hold, Prepare, Reply, Accept, Bill, Refuse, TimesOut, Breaks, Answers, Store,
         Release, SettleAmbiguous, Settle, Settled, Audit, Fails, To, Break
<1>2. ASSUME NEW k \in Caps
      PROVE  /\ Spent(k, c) \in Nat /\ Reserved(c) = 0 /\ Reserved(c)' = 0 /\ Counted(k, c) \in Nat
             /\ Counted(k, c) = IF waived[c] THEN 0 ELSE Spent(k, c)
             /\ Counted(k, c)' = IF waived'[c] THEN 0 ELSE Spent(k, c)'
  <2>1. Spent(k, c) \in Nat /\ Counted(k, c) \in Nat
    BY <1>0, MeasureTypes
  <2>2. Reserved(c) = 0 /\ Reserved(c)' = 0
    BY <1>0 DEF Reserved
  <2> QED
    BY <2>1, <2>2 DEF Counted
<1>3. CASE Hold(c)
  <2>1. ASSUME NEW k \in Caps PROVE Counted(k, c)' <= Spent(k, c) + Reserved(c) + Estimate[c]
    <3>1. Spent(k, c)' \in {0, Estimate[c]}
      BY <1>0, <1>3 DEF Hold, Spent, TypeOK
    <3> QED
      BY <1>0, <1>2, <3>1
  <2> QED
    BY <1>0, <1>1, <1>3, <2>1, FitsTogether DEF Hold
<1>4. CASE Release(c)
  <2>1. ASSUME NEW k \in Caps PROVE Counted(k, c)' <= Counted(k, c)
    <3>1. Spent(k, c)' = 0 /\ waived' = waived
      BY <1>0, <1>4 DEF Release, Spent, NoRow, TypeOK
    <3> QED
      BY <1>2, <3>1
  <2> QED
    BY <1>0, <1>1, <2>1, FitsAfter
<1>5. CASE SettleAmbiguous(c) \/ Settle(c)
  <2>1. Pending(c) \/ Charged(c)
    BY <1>5 DEF SettleAmbiguous, Settle, Holds, HoldAt, Is
  <2>2. \E b \in BOOLEAN : Settled(c, b)
    BY <1>5, SettlesEither
  <2>3. CASE waived'[c]
    <3>1. \A k \in Caps : Counted(k, c)' <= Counted(k, c)
      BY <1>2, <2>3
    <3> QED
      BY <1>0, <1>1, <3>1, FitsAfter
  <2>4. CASE ~waived'[c]
    <3>1. /\ ~waived[c] /\ Quote[c] <= Estimate[c]
          /\ ledger'[c] = [state |-> "final", amount |-> Quote[c], day |-> ledger[c].day]
      BY <2>2, <2>4, SettledFacts
    <3>2. Quote[c] <= ledger[c].amount /\ ledger[c].state # "none"
      BY <1>0, <2>1, <3>1 DEF Pending, Charged, Priced
    <3>3. ASSUME NEW k \in Caps PROVE Counted(k, c)' <= Counted(k, c)
      <4>1. /\ ledger'[c].state # "none" /\ ledger'[c].day = ledger[c].day
            /\ ledger'[c].amount = Quote[c] /\ ledger[c].amount \in Nat
        BY <1>0, <3>1 DEF Rows
      <4>2. CASE InWindow(k, ledger[c].day)
        <5>1. Spent(k, c) = ledger[c].amount /\ Spent(k, c)' = Quote[c]
          BY <1>1, <3>2, <4>1, <4>2 DEF Spent, InWindow
        <5> QED
          BY <1>0, <1>2, <2>4, <3>1, <3>2, <4>1, <5>1
      <4>3. CASE ~InWindow(k, ledger[c].day)
        <5>1. Spent(k, c)' = 0
          BY <1>1, <4>1, <4>3 DEF Spent, InWindow
        <5> QED
          BY <1>2, <2>4, <5>1
      <4> QED
        BY <4>2, <4>3
    <3> QED
      BY <1>0, <1>1, <3>3, FitsAfter
  <2> QED
    BY <2>3, <2>4
<1>6. CASE ledger' = ledger /\ waived' = waived
  <2>1. \A k \in Caps : Counted(k, c)' = Counted(k, c)
    BY <1>0, <1>1, <1>6, CountedSame
  <2>2. \A k \in Caps : Counted(k, c)' <= Counted(k, c)
    BY <1>2, <2>1
  <2> QED
    BY <1>0, <1>1, <2>2, FitsAfter
<1> QED
  BY <1>3, <1>4, <1>5, <1>6
  DEF CallStep, Prepare, Reply, Accept, Bill, Refuse, TimesOut, Breaks, Answers, Store, Audit, Fails


LEMMA RowsKept ==
    ASSUME TypeOK, Dated, Priced, [Next]_vars PROVE Dated' /\ Priced'
<1>1. today \in Nat /\ today' \in Nat /\ today <= today'
  <2>1. today \in Nat
    BY BoundsAssumption DEF TypeOK
  <2>2. CASE Midnight
    BY <2>1, <2>2 DEF Midnight
  <2>3. ASSUME NEW j \in Jobs, JobStep(j) PROVE today' = today
    BY <2>3 DEF JobStep, Create, Ask, Retry, Check, CancelWrite, CancelRecord, Work, Record, Finish
  <2>4. ASSUME NEW c \in Calls, CallStep(c) PROVE today' = today
    BY <2>4 DEF CallStep, Hold, Prepare, Reply, Accept, Bill, Refuse, TimesOut, Breaks, Answers, Store,
         Release, SettleAmbiguous, Settle, Settled, Audit, Fails, To, Break
  <2>5. Midnight \/ today' = today
    BY <2>3, <2>4 DEF Next, Crash, vars
  <2> QED
    BY <2>1, <2>2, <2>5
<1>2. ASSUME NEW i \in Ids
      PROVE  /\ ledger'[i].day <= today'
             /\ i \in Calls /\ Pending(i)' => ledger'[i].amount = Estimate[i]
  <2>0. ledger[i] \in Rows /\ ledger[i].day <= today /\ (i \in Calls /\ Pending(i) => ledger[i].amount = Estimate[i])
    BY DEF TypeOK, Dated, Priced
  <2>1. CASE ledger'[i] = ledger[i]
    BY <1>1, <2>0, <2>1 DEF Rows, Pending
  <2>2. CASE ledger'[i] # ledger[i]
    <3>1. CASE \E j \in Jobs : JobStep(j)
      <4>1. PICK j \in Jobs : JobStep(j)
        BY <3>1
      <4>2. CancelRecord(j) \/ Record(j)
        BY <2>2, <4>1 DEF JobStep, Create, Ask, Retry, Check, CancelWrite, Work, Finish
      <4>3. ledger'[i].day = today /\ i \notin Calls
        BY <2>2, <4>2, IdsType, SpendersAssumption DEF CancelRecord, Record, Row, TypeOK
      <4> QED
        BY <1>1, <4>3
    <3>2. CASE \E c \in Calls : CallStep(c)
      <4>1. PICK c \in Calls : CallStep(c)
        BY <3>2
      <4>2. Hold(c) \/ Release(c) \/ \E b \in BOOLEAN : Settled(c, b)
        <5>1. Hold(c) \/ Release(c) \/ SettleAmbiguous(c) \/ Settle(c)
          BY <2>2, <4>1 DEF CallStep, Prepare, Reply, Accept, Bill, Refuse, TimesOut, Breaks, Answers, Store,
                            Audit, Fails
        <5> QED
          BY <5>1, SettlesEither
      <4>3. i = c
        BY <2>2, <4>2 DEF Hold, Release, Settled, TypeOK
      <4>4. CASE Hold(c)
        <5>1. ledger'[i] = [state |-> "pending", amount |-> Estimate[c], day |-> today]
          BY <4>3, <4>4, IdsType DEF Hold, TypeOK
        <5> QED
          BY <1>1, <4>3, <5>1
      <4>5. CASE Release(c)
        <5>1. ledger'[i] = NoRow
          BY <4>3, <4>5, IdsType DEF Release, TypeOK
        <5> QED
          BY <1>1, <5>1 DEF NoRow, Pending
      <4>6. ASSUME NEW b \in BOOLEAN, Settled(c, b)
            PROVE  ledger'[i].day \in {today, ledger[i].day} /\ ledger'[i].state = "final"
        BY <4>3, <4>6, IdsType DEF Settled, TypeOK
      <4>7. ledger[i].day \in Nat
        BY <2>0 DEF Rows
      <4> QED
        BY <1>1, <2>0, <4>2, <4>4, <4>5, <4>6, <4>7 DEF Pending
    <3>3. CASE Crash \/ Midnight \/ UNCHANGED vars
      BY <2>2, <3>3 DEF Crash, Midnight, vars
    <3> QED
      BY <3>1, <3>2, <3>3 DEF Next
  <2> QED
    BY <2>1, <2>2
<1> QED
  BY <1>2, IdsType DEF Dated, Priced

LEMMA Earlier ==
    ASSUME NEW d \in Nat, NEW t \in Nat, d <= t, d \div DaysPerMonth = (t + 1) \div DaysPerMonth
    PROVE  d \div DaysPerMonth = t \div DaysPerMonth
<1>1. ASSUME NEW a \in Nat, NEW b \in Nat, a <= b
      PROVE  a \div DaysPerMonth \in Nat /\ a \div DaysPerMonth <= b \div DaysPerMonth
  BY <1>1, BoundsAssumption, SMTT(30)
<1>2. t + 1 \in Nat /\ t <= t + 1
  OBVIOUS
<1> QED
  BY <1>1, <1>2

LEMMA MidnightFits == ASSUME TypeOK, TypeOK', Fits, Dated, Midnight PROVE Fits'
<1>1. ASSUME NEW k \in Caps, NEW i \in k.counts PROVE Counted(k, i)' <= Counted(k, i)
  <2>1. i \in Ids
    BY CapFacts
  <2>2. /\ today \in Nat /\ today' = today + 1 /\ ledger[i] \in Rows /\ ledger[i].day <= today
        /\ ledger' = ledger /\ status' = status /\ waived' = waived
    BY <2>1 DEF TypeOK, Dated, Midnight
  <2>3. InWindow(k, ledger[i].day)' => InWindow(k, ledger[i].day)
    <3>1. ledger[i].day \in Nat
      BY <2>2 DEF Rows
    <3>2. ledger[i].day # today'
      BY <2>2, <3>1
    <3> QED
      BY <2>2, <3>1, <3>2, Earlier DEF InWindow
  <2>4. Spent(k, i)' = Spent(k, i) \/ Spent(k, i)' = 0
    BY <2>2, <2>3 DEF Spent
  <2>5. Reserved(i)' = Reserved(i)
    BY <2>2 DEF Reserved
  <2>6. Spent(k, i) \in Nat /\ Agreed(i) \in Nat /\ Counted(k, i) \in Nat
    BY <2>1, MeasureTypes
  <2>7. Counted(k, i)' = IF waived[i] THEN 0
                         ELSE IF Reserved(i) > 0 /\ Spent(k, i)' < Agreed(i) THEN Agreed(i) ELSE Spent(k, i)'
    BY <2>2, <2>5 DEF Counted, Agreed
  <2> QED
    BY <2>4, <2>6, <2>7 DEF Counted
<1> QED
  BY <1>1, FitsStill

LEMMA CapsStep == TypeOK /\ TypeOK' /\ Holds /\ CapsInv /\ [Next]_vars => CapsInv'
<1> SUFFICES ASSUME TypeOK, TypeOK', Holds, CapsInv, [Next]_vars PROVE CapsInv'
  OBVIOUS
<1>1. Dated' /\ Priced'
  BY RowsKept DEF CapsInv
<1>2. CASE Crash \/ UNCHANGED vars
  <2>1. ASSUME NEW k \in Caps, NEW i \in k.counts PROVE Counted(k, i)' <= Counted(k, i)
    <3>1. i \in Ids
      BY CapFacts
    <3>2. Counted(k, i)' = Counted(k, i)
      BY <1>2, <3>1, CountedSame DEF Crash, vars
    <3> QED
      BY <3>1, <3>2, MeasureTypes
  <2> QED
    BY <1>1, <2>1, FitsStill DEF CapsInv
<1>3. Fits'
  BY <1>2, JobKeepsFits, CallKeepsFits, MidnightFits DEF CapsInv, Next
<1> QED
  BY <1>1, <1>3 DEF CapsInv

\* However jobs and calls outside the queue interleave, crash, fail and cross midnight,
\* the spend that went through a cap fits it.
THEOREM CapsAreKept == Spec => []CapsHold
<1>1. TypeOK /\ CapsInv => CapsHold
  <2> SUFFICES ASSUME TypeOK, CapsInv, NEW k \in Caps
               PROVE  SumFunctionOnSet([i \in Ids |-> Committed(k, i)], {i \in k.counts : ~waived[i]}) <= k.limit
    BY DEF CapsHold
  <2> DEFINE S == k.counts
             T == {i \in k.counts : ~waived[i]}
             f == [i \in Ids |-> Committed(k, i)]
             g == [i \in Ids |-> Counted(k, i)]
  <2>1. IsFiniteSet(S) /\ S \subseteq Ids /\ k.limit \in Nat /\ T \in SUBSET S
    BY CapFacts
  <2>2. ASSUME NEW i \in Ids PROVE g[i] \in Nat
    BY MeasureTypes
  <2>3. ASSUME NEW i \in T PROVE f[i] \in Nat /\ f[i] <= g[i]
    <3>1. i \in Ids /\ ~waived[i]
      BY <2>1
    <3>2. Spent(k, i) \in Nat /\ Agreed(i) \in Nat
      BY <3>1, MeasureTypes
    <3>3. Committed(k, i) \in Nat /\ Committed(k, i) <= Counted(k, i)
      BY <3>1, <3>2 DEF Committed, Counted, Agreed
    <3> QED
      BY <3>1, <3>3
  <2>4. Summable(g, S) /\ Summable(f, T)
    BY <2>1, <2>2, <2>3 DEF Summable
  <2>5. SumFunctionOnSet(g, S) <= k.limit
    BY DEF CapsInv, Fits
  <2>6. \A i \in T : f[i] <= g[i]
    BY <2>3
  <2> HIDE DEF f, g, S, T
  <2>7. IsFiniteSet(T)
    BY <2>1, FS_Subset
  <2>8. SumFunctionOnSet(f, T) <= SumFunctionOnSet(g, S)
    BY <2>1, <2>4, <2>6, SumGrows
  <2>9. SumFunctionOnSet(f, T) \in Nat /\ SumFunctionOnSet(g, S) \in Nat
    BY <2>1, <2>4, <2>7, SumNat
  <2>10. SumFunctionOnSet(f, T) <= k.limit
    BY <2>1, <2>5, <2>8, <2>9
  <2> QED
    BY <2>10 DEF f, T
<1> QED
  BY <1>1, CapsInit, CapsStep, SpendTypes, HoldsAlways, PTL DEF Spec

=============================================================================
