-------------------------- MODULE CharactersProofs --------------------------
(* Proofs about Characters, for any callers, operations and bounds.         *)
EXTENDS Characters, SequenceTheorems, FiniteSetTheorems, TLAPS

(***************************************************************************)
(* Types.                                                                  *)

\* TypeOK in parts.
StoreTyped ==
    /\ look \in Seq(Looks) /\ refs \in Seq(SUBSET Rows) /\ disk \in Seq(Marks)
    /\ Len(refs) = Len(look) /\ Len(disk) = Len(look)
    /\ current \in Versions /\ frozen \subseteq Versions
    /\ crowded \subseteq Versions /\ torn \subseteq Versions

CallsTyped == call \in [Callers -> Calls] /\ \A c \in Callers : call[c].at \in Versions

FlagsTyped == consent \in BOOLEAN /\ switched \in BOOLEAN

MadeTyped == jobs \in Seq(Jobs) /\ identities \subseteq Identities

RestTyped ==
    /\ young \subseteq Marks /\ calls \in Marks /\ crashes \in Nat
    /\ overtaken \subseteq Nat /\ mixed \subseteq Callers /\ moved \subseteq Callers
    /\ refused \subseteq Marks

LEMMA MarksAreNumbers == 0 \in Marks /\ Marks \subseteq Nat
  BY BoundsAssumption DEF Marks

LEMMA CountTyped ==
    ASSUME TypeOK, Count PROVE calls + 1 \in Marks /\ calls' \in Marks
  BY BoundsAssumption DEF TypeOK, Count, Marks

LEMMA IdleTyped == ASSUME TypeOK PROVE Idle \in Calls /\ Idle.at \in Versions
<1>1. 1 \in Versions  BY DEF TypeOK, Versions
<1>2. 0 \in Marks  BY MarksAreNumbers
<1> QED  BY <1>1, <1>2 DEF Idle, Calls, Pcs, Looks, Fields, Edits

\* What a request adds is rows of its own.
LEMMA BatchTyped ==
    ASSUME NEW n \in Marks, NEW b \in Batches(n)
    PROVE  b \in SUBSET Rows /\ \A r \in b : r.by = n
<1>1. PICK p \in (0 .. MaxRefs) \X (0 .. MaxRefs) :
        b = Some(n, "anchor", p[1]) \cup Some(n, "other", p[2])
  BY DEF Batches
<1>2. p[1] \in 0 .. MaxRefs /\ p[2] \in 0 .. MaxRefs  OBVIOUS
<1>3. ASSUME NEW role \in {"anchor", "other"}, NEW k \in 0 .. MaxRefs
      PROVE  Some(n, role, k) \in SUBSET Rows /\ \A r \in Some(n, role, k) : r.by = n
  BY <1>3, BoundsAssumption DEF Some, Rows
<1> QED  BY <1>1, <1>2, <1>3

\* The version a request is about exists.
LEMMA AtTyped ==
    ASSUME TypeOK, NEW c \in Callers
    PROVE  /\ call[c] \in Calls /\ call[c].n \in Marks /\ call[c].id \in Marks
           /\ call[c].seen \in Looks /\ call[c].refs \in SUBSET Rows
           /\ call[c].rows \in SUBSET Rows /\ call[c].todo \in SUBSET Rows
           /\ call[c].at \in 1 .. Len(look) /\ call[c].field \in Fields
           /\ look[call[c].at] \in Looks /\ refs[call[c].at] \in SUBSET Rows
<1>1. call[c] \in Calls /\ call[c].at \in 1 .. Len(look)  BY DEF TypeOK, Versions
<1>2. look \in Seq(Looks) /\ refs \in Seq(SUBSET Rows) /\ Len(refs) = Len(look)  BY DEF TypeOK
<1>3. look[call[c].at] \in Looks /\ refs[call[c].at] \in SUBSET Rows  BY <1>1, <1>2, ElementOfSeq
<1> QED  BY <1>1, <1>3 DEF Calls

\* A request goes on while no version disappears.
LEMMA MoveTyped ==
    ASSUME TypeOK, NEW c \in Callers, Len(look') = Len(look) \/ Len(look') = Len(look) + 1,
           \E k \in Calls : call' = [call EXCEPT ![c] = k] /\ k.at \in 1 .. Len(look')
    PROVE  CallsTyped'
<1>0. PICK k \in Calls : call' = [call EXCEPT ![c] = k] /\ k.at \in 1 .. Len(look')  OBVIOUS
<1>1. call' \in [Callers -> Calls]  BY <1>0 DEF TypeOK
<1>2. ASSUME NEW d \in Callers PROVE call'[d].at \in 1 .. Len(look')
  <2>1. Len(look) \in Nat /\ call[d].at \in 1 .. Len(look)  BY DEF TypeOK, Versions
  <2>2. call[d].at \in 1 .. Len(look')  BY <2>1
  <2>3. call'[d] = IF d = c THEN k ELSE call[d]  BY <1>0 DEF TypeOK
  <2> QED  BY <1>0, <2>2, <2>3
<1> QED  BY <1>1, <1>2 DEF CallsTyped, Versions

LEMMA PcTyped ==
    ASSUME TypeOK, NEW c \in Callers, NEW p \in Pcs, call' = [call EXCEPT ![c].pc = p],
           Len(look') = Len(look)
    PROVE  CallsTyped'
<1> DEFINE k == [call[c] EXCEPT !.pc = p]
<1>1. k \in Calls /\ k.at \in 1 .. Len(look)  BY AtTyped DEF Calls
<1>2. call' = [call EXCEPT ![c] = k]  OBVIOUS
<1>3. Len(look) \in Nat  BY DEF TypeOK
<1> HIDE DEF k
<1>4. \E x \in Calls : call' = [call EXCEPT ![c] = x] /\ x.at \in 1 .. Len(look')  BY <1>1, <1>2
<1> QED  BY <1>4, MoveTyped

LEMMA AskTyped ==
    ASSUME TypeOK, Count, NEW op \in Edits \cup {"generate", "train"}, NEW p \in Pcs
    PROVE  Ask(op, p) \in Calls /\ Ask(op, p).at = current /\ current \in 1 .. Len(look)
<1>1. calls + 1 \in Marks /\ current \in 1 .. Len(look) /\ Len(look) \in Nat
  BY CountTyped DEF TypeOK, Versions
<1>2. current \in Nat  BY <1>1
<1>3. Idle \in Calls  BY IdleTyped
<1> HIDE DEF Idle
<1> QED  BY <1>1, <1>2, <1>3 DEF Ask, Calls

LEMMA EndTyped ==
    ASSUME TypeOK, NEW c \in Callers, End(c), Len(look') = Len(look)
    PROVE  CallsTyped'
<1>1. Idle \in Calls /\ Idle.at \in 1 .. Len(look')  BY IdleTyped DEF Versions, TypeOK
<1> HIDE DEF Idle
<1>2. \E x \in Calls : call' = [call EXCEPT ![c] = x] /\ x.at \in 1 .. Len(look')  BY <1>1 DEF End
<1> QED  BY <1>2, MoveTyped

LEMMA TypeStep == ASSUME TypeOK, [Next]_vars PROVE TypeOK'
<1>l. Len(look) \in Nat /\ 0 \in Marks /\ Marks \subseteq Nat  BY MarksAreNumbers DEF TypeOK
<1>1. ASSUME NEW c \in Callers, NEW op \in Edits, AskEdit(c, op) PROVE TypeOK'
  <2>1. StoreTyped'
    BY <1>1 DEF TypeOK, StoreTyped, AskEdit, store, people, made, ghosts, Versions
  <2>2. CallsTyped'
    <3>1. PICK f \in Fields, rows \in CASE op = "add"    -> Batches(calls + 1)
                                         [] op = "remove" -> {{r} : r \in refs[current]}
                                         [] OTHER         -> {{}} :
             Begin(c, [Ask(op, "check") EXCEPT !.field = f, !.rows = rows, !.todo = rows])
      BY <1>1 DEF AskEdit
    <3> DEFINE k == [Ask(op, "check") EXCEPT !.field = f, !.rows = rows, !.todo = rows]
    <3>2. Ask(op, "check") \in Calls /\ Ask(op, "check").at = current /\ current \in 1 .. Len(look)
      BY <3>1, AskTyped DEF Begin, Pcs
    <3>3. refs[current] \in SUBSET Rows  BY <3>2, ElementOfSeq DEF TypeOK
    <3>4. rows \in SUBSET Rows
      <4>1. calls + 1 \in Marks  BY <3>1, CountTyped DEF Begin
      <4>2. CASE op = "add"  BY <4>1, <4>2, BatchTyped
      <4>3. CASE op = "remove"  BY <3>3, <4>3
      <4>4. CASE op # "add" /\ op # "remove"  BY <4>4
      <4> QED  BY <4>2, <4>3, <4>4
    <3>5. k \in Calls /\ k.at = current  BY <3>2, <3>4 DEF Calls
    <3>6. call' = [call EXCEPT ![c] = k] /\ Len(look') = Len(look)  BY <3>1, <1>1 DEF Begin, AskEdit, store
    <3> HIDE DEF k
    <3>8. \E x \in Calls : call' = [call EXCEPT ![c] = x] /\ x.at \in 1 .. Len(look')  BY <3>2, <3>5, <3>6
    <3> QED  BY <3>6, <3>8, MoveTyped
  <2>3. FlagsTyped'
    BY <1>1 DEF TypeOK, FlagsTyped, AskEdit, store, people, made, ghosts
  <2>4. MadeTyped'
    BY <1>1 DEF TypeOK, MadeTyped, AskEdit, store, people, made, ghosts
  <2>5. RestTyped'
    <3>1. Count  BY <1>1 DEF AskEdit, Begin
    <3>2. calls' \in Marks /\ calls + 1 \in Marks  BY <3>1, CountTyped
    <3> QED  BY <3>2, <1>1 DEF TypeOK, RestTyped, AskEdit, ghosts
  <2> QED  BY <2>1, <2>2, <2>3, <2>4, <2>5 DEF StoreTyped, CallsTyped, FlagsTyped, MadeTyped, RestTyped, TypeOK
<1>2. ASSUME NEW c \in Callers, AskTraining(c) PROVE TypeOK'
  <2>1. StoreTyped'
    BY <1>2 DEF TypeOK, StoreTyped, AskTraining, store, people, made, ghosts, Versions
  <2>2. CallsTyped'
    <3> DEFINE k == Ask("train", "minor")
    <3>1. Begin(c, k)  BY <1>2 DEF AskTraining
    <3>2. k \in Calls /\ k.at = current /\ current \in 1 .. Len(look)
      BY <3>1, AskTyped DEF Begin, Pcs
    <3>6. call' = [call EXCEPT ![c] = k] /\ Len(look') = Len(look)  BY <3>1, <1>2 DEF Begin, AskTraining, store
    <3> HIDE DEF k
    <3>8. \E x \in Calls : call' = [call EXCEPT ![c] = x] /\ x.at \in 1 .. Len(look')  BY <3>2, <3>6
    <3> QED  BY <3>6, <3>8, MoveTyped
  <2>3. FlagsTyped'
    BY <1>2 DEF TypeOK, FlagsTyped, AskTraining, store, people, made, ghosts
  <2>4. MadeTyped'
    BY <1>2 DEF TypeOK, MadeTyped, AskTraining, store, people, made, ghosts
  <2>5. RestTyped'
    <3>1. Count  BY <1>2 DEF AskTraining, Begin
    <3>2. calls' \in Marks  BY <3>1, CountTyped
    <3> QED  BY <3>2, <1>2 DEF TypeOK, RestTyped, AskTraining, people, ghosts
  <2> QED  BY <2>1, <2>2, <2>3, <2>4, <2>5 DEF StoreTyped, CallsTyped, FlagsTyped, MadeTyped, RestTyped, TypeOK
<1>3. ASSUME NEW c \in Callers, NEW v \in Versions, Resolve(c, v) PROVE TypeOK'
  <2>1. StoreTyped'
    BY <1>3 DEF TypeOK, StoreTyped, Resolve, store, people, made, ghosts, Versions
  <2>2. CallsTyped'
    <3> DEFINE k == [Ask("generate", "accept") EXCEPT !.at = v, !.seen = look[v], !.refs = refs[v]]
    <3>1. Begin(c, k)  BY <1>3 DEF Resolve
    <3>2. Ask("generate", "accept") \in Calls /\ v \in 1 .. Len(look) /\ v \in Nat
      BY <3>1, <1>l, AskTyped DEF Begin, Versions, Pcs
    <3>3. look[v] \in Looks /\ refs[v] \in SUBSET Rows  BY <3>2, ElementOfSeq DEF TypeOK
    <3>5. k \in Calls /\ k.at = v  BY <3>2, <3>3 DEF Calls
    <3>6. call' = [call EXCEPT ![c] = k] /\ Len(look') = Len(look)  BY <3>1, <1>3 DEF Begin, Resolve, store
    <3> HIDE DEF k
    <3>8. \E x \in Calls : call' = [call EXCEPT ![c] = x] /\ x.at \in 1 .. Len(look')  BY <3>2, <3>5, <3>6
    <3> QED  BY <3>6, <3>8, MoveTyped
  <2>3. FlagsTyped'
    BY <1>3 DEF TypeOK, FlagsTyped, Resolve, store, people, made, ghosts
  <2>4. MadeTyped'
    BY <1>3 DEF TypeOK, MadeTyped, Resolve, store, people, made, ghosts
  <2>5. RestTyped'
    <3>1. Count  BY <1>3 DEF Resolve, Begin
    <3>2. calls' \in Marks  BY <3>1, CountTyped
    <3> QED  BY <3>2, <1>3 DEF TypeOK, RestTyped, Resolve, people, ghosts
  <2> QED  BY <2>1, <2>2, <2>3, <2>4, <2>5 DEF StoreTyped, CallsTyped, FlagsTyped, MadeTyped, RestTyped, TypeOK
<1>4. ASSUME NEW c \in Callers, Check(c) PROVE TypeOK'
  <2>1. StoreTyped'
    BY <1>4 DEF TypeOK, StoreTyped, Check, store, people, made, ghosts, Versions
  <2>2. CallsTyped'
    <3>1. PICK p \in {"fork", "edit"} : call' = [call EXCEPT ![c].pc = p]  BY <1>4 DEF Check, Goto
    <3>2. Len(look') = Len(look)  BY <1>4 DEF Check, store
    <3> QED  BY <3>1, <3>2, PcTyped DEF Pcs
  <2>3. FlagsTyped'
    BY <1>4 DEF TypeOK, FlagsTyped, Check, store, people, made, ghosts
  <2>4. MadeTyped'
    BY <1>4 DEF TypeOK, MadeTyped, Check, store, people, made, ghosts
  <2>5. RestTyped'
    BY <1>4 DEF TypeOK, RestTyped, Check, store, people, made, ghosts
  <2> QED  BY <2>1, <2>2, <2>3, <2>4, <2>5 DEF StoreTyped, CallsTyped, FlagsTyped, MadeTyped, RestTyped, TypeOK
<1>5. ASSUME NEW c \in Callers, Fork(c) PROVE TypeOK'
  <2>1. StoreTyped'
    <3>1. CASE current < Newest
      <4>1. UNCHANGED <<store, disk, crowded, torn>>  BY <3>1, <1>5 DEF Fork
      <4> QED  BY <4>1 DEF TypeOK, StoreTyped, store, Versions
    <3>2. CASE ~(current < Newest)
      <4>1. current \in 1 .. Len(look)  BY DEF TypeOK, Versions
      <4>2. look[current] \in Looks /\ refs[current] \in SUBSET Rows  BY <4>1, ElementOfSeq DEF TypeOK
      <4>3. /\ look' = Append(look, look[current]) /\ refs' = Append(refs, refs[current])
            /\ disk' = Append(disk, 0) /\ current' = current + 1 /\ frozen' = frozen /\ torn' = torn
            /\ crowded' \subseteq crowded \cup {current + 1}
        BY <3>2, <1>5 DEF Fork
      <4>4. look' \in Seq(Looks) /\ Len(look') = Len(look) + 1
        BY <4>2, <4>3, AppendProperties DEF TypeOK
      <4>5. refs' \in Seq(SUBSET Rows) /\ Len(refs') = Len(refs) + 1
        BY <4>2, <4>3, AppendProperties DEF TypeOK
      <4>6. disk' \in Seq(Marks) /\ Len(disk') = Len(disk) + 1
        BY <4>3, <1>l, AppendProperties DEF TypeOK
      <4> QED  BY <4>1, <4>3, <4>4, <4>5, <4>6, <1>l DEF TypeOK, StoreTyped, Versions
    <3> QED  BY <3>1, <3>2
  <2>2. CallsTyped'
    <3>1. CASE current < Newest
      <4>1. End(c) /\ look' = look  BY <3>1, <1>5 DEF Fork, store
      <4> QED  BY <4>1, EndTyped
    <3>2. CASE ~(current < Newest)
      <4> DEFINE k == [call[c] EXCEPT !.pc = "edit", !.at = current + 1, !.forked = TRUE]
      <4>1. current \in 1 .. Len(look)  BY DEF TypeOK, Versions
      <4>2. Len(look') = Len(look) + 1  BY <3>2, <1>5, <4>1, ElementOfSeq, AppendProperties DEF TypeOK, Fork
      <4>3. call[c] \in Calls /\ current + 1 \in Nat /\ "edit" \in Pcs  BY <4>1, <1>l, AtTyped DEF Pcs
      <4>6. k \in Calls /\ k.at = current + 1  BY <4>3 DEF Calls
      <4>4. call' = [call EXCEPT ![c] = k]  BY <3>2, <1>5 DEF Fork
      <4>7. current + 1 \in 1 .. Len(look')  BY <4>1, <4>2, <1>l
      <4> HIDE DEF k
      <4>8. \E x \in Calls : call' = [call EXCEPT ![c] = x] /\ x.at \in 1 .. Len(look')  BY <4>4, <4>6, <4>7
      <4> QED  BY <4>8, <4>2, MoveTyped
    <3> QED  BY <3>1, <3>2
  <2>3. FlagsTyped'
    BY <1>5 DEF TypeOK, FlagsTyped, Fork, store, people, made, ghosts
  <2>4. MadeTyped'
    BY <1>5 DEF TypeOK, MadeTyped, Fork, store, people, made, ghosts
  <2>5. RestTyped'
    <3>1. refused' \subseteq refused \cup {call[c].n} /\ moved' \subseteq moved \cup Callers
      BY <1>5 DEF Fork, Trainers
    <3> QED  BY <3>1, <1>5, AtTyped DEF TypeOK, RestTyped, Fork, people
  <2> QED  BY <2>1, <2>2, <2>3, <2>4, <2>5 DEF StoreTyped, CallsTyped, FlagsTyped, MadeTyped, RestTyped, TypeOK
<1>6. ASSUME NEW c \in Callers, ReadLook(c) PROVE TypeOK'
  <2>1. StoreTyped'
    BY <1>6 DEF TypeOK, StoreTyped, ReadLook, store, people, made, ghosts, Versions
  <2>2. CallsTyped'
    <3> DEFINE k == [call[c] EXCEPT !.pc = "write", !.seen = look[call[c].at]]
    <3>1. k \in Calls /\ k.at \in 1 .. Len(look)  BY <1>6, <1>l, AtTyped DEF Calls, Pcs
    <3>2. call' = [call EXCEPT ![c] = k] /\ Len(look') = Len(look)  BY <1>6 DEF ReadLook, store
    <3> HIDE DEF k
    <3>x. \E x \in Calls : call' = [call EXCEPT ![c] = x] /\ x.at \in 1 .. Len(look')  BY <3>1, <3>2, <1>l
    <3> QED  BY <3>2, <3>x, MoveTyped
  <2>3. FlagsTyped'
    BY <1>6 DEF TypeOK, FlagsTyped, ReadLook, store, people, made, ghosts
  <2>4. MadeTyped'
    BY <1>6 DEF TypeOK, MadeTyped, ReadLook, store, people, made, ghosts
  <2>5. RestTyped'
    BY <1>6 DEF TypeOK, RestTyped, ReadLook, store, people, made, ghosts
  <2> QED  BY <2>1, <2>2, <2>3, <2>4, <2>5 DEF StoreTyped, CallsTyped, FlagsTyped, MadeTyped, RestTyped, TypeOK
<1>7. ASSUME NEW c \in Callers, WriteLook(c) PROVE TypeOK'
  <2>1. StoreTyped'
    <3> DEFINE e == [call[c].seen EXCEPT ![call[c].field] = call[c].n]
    <3>1. look' = [look EXCEPT ![call[c].at] = e]  BY <1>7 DEF WriteLook
    <3>2. e \in Looks  BY AtTyped DEF Looks
    <3> HIDE DEF e
    <3>3. look' \in Seq(Looks) /\ Len(look') = Len(look)  BY <3>1, <3>2, AtTyped, ExceptSeq DEF TypeOK
    <3> QED  BY <3>3, <1>7 DEF TypeOK, StoreTyped, WriteLook, made, ghosts, Versions
  <2>2. CallsTyped'
    <3> DEFINE e == [call[c].seen EXCEPT ![call[c].field] = call[c].n]
    <3>1. look' = [look EXCEPT ![call[c].at] = e] /\ End(c)  BY <1>7 DEF WriteLook
    <3>2. e \in Looks  BY AtTyped DEF Looks
    <3> HIDE DEF e
    <3>3. Len(look') = Len(look)  BY <3>1, <3>2, AtTyped, ExceptSeq DEF TypeOK
    <3> QED  BY <3>1, <3>3, EndTyped
  <2>3. FlagsTyped'
    BY <1>7 DEF TypeOK, FlagsTyped, WriteLook, store, people, made, ghosts
  <2>4. MadeTyped'
    BY <1>7 DEF TypeOK, MadeTyped, WriteLook, store, people, made, ghosts
  <2>5. RestTyped'
    BY <1>7 DEF TypeOK, RestTyped, WriteLook, Trainers, people, ghosts
  <2> QED  BY <2>1, <2>2, <2>3, <2>4, <2>5 DEF StoreTyped, CallsTyped, FlagsTyped, MadeTyped, RestTyped, TypeOK
<1>8. ASSUME NEW c \in Callers, ClearAnchor(c) PROVE TypeOK'
  <2>1. StoreTyped'
    <3> DEFINE e == refs[call[c].at] \ Anchors(refs[call[c].at])
    <3>1. refs' = refs \/ refs' = [refs EXCEPT ![call[c].at] = e]  BY <1>8, AtTyped DEF ClearAnchor, TypeOK
    <3>2. e \in SUBSET Rows  BY AtTyped
    <3> HIDE DEF e
    <3>a. refs \in Seq(SUBSET Rows) /\ call[c].at \in DOMAIN refs  BY AtTyped DEF TypeOK
    <3>b. ASSUME refs' = refs
          PROVE  refs' \in Seq(SUBSET Rows) /\ Len(refs') = Len(refs)
      BY <3>a, <3>b
    <3>c. ASSUME refs' = [refs EXCEPT ![call[c].at] = e]
          PROVE  refs' \in Seq(SUBSET Rows) /\ Len(refs') = Len(refs)
      BY <3>a, <3>c, <3>2, ExceptSeq
    <3>3. refs' \in Seq(SUBSET Rows) /\ Len(refs') = Len(refs)  BY <3>1, <3>a, <3>b, <3>c
    <3>4. crowded' \subseteq crowded \cup {call[c].at}  BY <1>8 DEF ClearAnchor
    <3> QED  BY <3>3, <3>4, <1>8, AtTyped DEF TypeOK, StoreTyped, ClearAnchor, made, Versions
  <2>2. CallsTyped'
    <3>1. PICK p \in {"insert"} : call' = [call EXCEPT ![c].pc = p]  BY <1>8 DEF ClearAnchor, Goto
    <3>2. Len(look') = Len(look)  BY <1>8 DEF ClearAnchor, store
    <3> QED  BY <3>1, <3>2, PcTyped DEF Pcs
  <2>3. FlagsTyped'
    BY <1>8 DEF TypeOK, FlagsTyped, ClearAnchor, store, people, made, ghosts
  <2>4. MadeTyped'
    BY <1>8 DEF TypeOK, MadeTyped, ClearAnchor, store, people, made, ghosts
  <2>5. RestTyped'
    BY <1>8 DEF TypeOK, RestTyped, ClearAnchor, store, people, made, ghosts
  <2> QED  BY <2>1, <2>2, <2>3, <2>4, <2>5 DEF StoreTyped, CallsTyped, FlagsTyped, MadeTyped, RestTyped, TypeOK
<1>9. ASSUME NEW c \in Callers, Insert(c) PROVE TypeOK'
  <2>1. StoreTyped'
    <3>0. PICK r \in call[c].todo : refs' = [refs EXCEPT ![call[c].at] = @ \cup {r}]
      BY <1>9 DEF Insert
    <3> DEFINE e == refs[call[c].at] \cup {r}
    <3>1. refs' = [refs EXCEPT ![call[c].at] = e]  BY <3>0, AtTyped DEF TypeOK
    <3>2. e \in SUBSET Rows  BY AtTyped
    <3> HIDE DEF e
    <3>3. refs' \in Seq(SUBSET Rows) /\ Len(refs') = Len(refs)  BY <3>1, <3>2, AtTyped, ExceptSeq DEF TypeOK
    <3> QED  BY <3>3, <1>9 DEF TypeOK, StoreTyped, Insert, made, ghosts, Versions
  <2>2. CallsTyped'
    <3>1. Len(look') = Len(look)  BY <1>9 DEF Insert
    <3>2. CASE End(c)  BY <3>1, <3>2, EndTyped
    <3>3. ASSUME NEW r, call' = [call EXCEPT ![c].todo = @ \ {r}] PROVE CallsTyped'
      <4> DEFINE k == [call[c] EXCEPT !.todo = @ \ {r}]
      <4>1. k \in Calls /\ k.at \in 1 .. Len(look)  BY AtTyped DEF Calls
      <4>2. call' = [call EXCEPT ![c] = k]  BY <3>3
      <4> HIDE DEF k
      <4>3. \E x \in Calls : call' = [call EXCEPT ![c] = x] /\ x.at \in 1 .. Len(look')
        BY <3>1, <4>1, <4>2, <1>l
      <4> QED  BY <3>1, <4>3, MoveTyped
    <3> QED  BY <3>2, <3>3, <1>9 DEF Insert
  <2>3. FlagsTyped'
    BY <1>9 DEF TypeOK, FlagsTyped, Insert, store, people, made, ghosts
  <2>4. MadeTyped'
    BY <1>9 DEF TypeOK, MadeTyped, Insert, store, people, made, ghosts
  <2>5. RestTyped'
    BY <1>9 DEF TypeOK, RestTyped, Insert, store, people, made, ghosts
  <2> QED  BY <2>1, <2>2, <2>3, <2>4, <2>5 DEF StoreTyped, CallsTyped, FlagsTyped, MadeTyped, RestTyped, TypeOK
<1>10. ASSUME NEW c \in Callers, Remove(c) PROVE TypeOK'
  <2>1. StoreTyped'
    <3> DEFINE e == refs[call[c].at] \ call[c].rows
    <3>1. refs' = refs \/ refs' = [refs EXCEPT ![call[c].at] = e]  BY <1>10, AtTyped DEF Remove, TypeOK
    <3>2. e \in SUBSET Rows  BY AtTyped
    <3> HIDE DEF e
    <3>a. refs \in Seq(SUBSET Rows) /\ call[c].at \in DOMAIN refs  BY AtTyped DEF TypeOK
    <3>b. ASSUME refs' = refs
          PROVE  refs' \in Seq(SUBSET Rows) /\ Len(refs') = Len(refs)
      BY <3>a, <3>b
    <3>c. ASSUME refs' = [refs EXCEPT ![call[c].at] = e]
          PROVE  refs' \in Seq(SUBSET Rows) /\ Len(refs') = Len(refs)
      BY <3>a, <3>c, <3>2, ExceptSeq
    <3>3. refs' \in Seq(SUBSET Rows) /\ Len(refs') = Len(refs)  BY <3>1, <3>a, <3>b, <3>c
    <3> QED  BY <3>3, <1>10 DEF TypeOK, StoreTyped, Remove, made, ghosts, Versions
  <2>2. CallsTyped'
    <3>1. End(c) /\ look' = look  BY <1>10 DEF Remove
    <3> QED  BY <3>1, EndTyped
  <2>3. FlagsTyped'
    BY <1>10 DEF TypeOK, FlagsTyped, Remove, store, people, made, ghosts
  <2>4. MadeTyped'
    BY <1>10 DEF TypeOK, MadeTyped, Remove, store, people, made, ghosts
  <2>5. RestTyped'
    BY <1>10 DEF TypeOK, RestTyped, Remove, store, people, made, ghosts
  <2> QED  BY <2>1, <2>2, <2>3, <2>4, <2>5 DEF StoreTyped, CallsTyped, FlagsTyped, MadeTyped, RestTyped, TypeOK
<1>11. ASSUME NEW c \in Callers, Accept(c) PROVE TypeOK'
  <2>1. StoreTyped'  BY <1>11, AtTyped DEF TypeOK, StoreTyped, Accept, Versions
  <2>2. CallsTyped'
    <3>1. End(c) /\ look' = look  BY <1>11 DEF Accept
    <3> QED  BY <3>1, EndTyped
  <2>3. FlagsTyped'
    BY <1>11 DEF TypeOK, FlagsTyped, Accept, store, people, made, ghosts
  <2>4. MadeTyped'
    <3> DEFINE j == [version |-> call[c].at, look |-> call[c].seen, refs |-> call[c].refs]
    <3>1. j \in Jobs  BY AtTyped DEF Jobs
    <3>2. jobs' = Append(jobs, j) /\ identities' = identities  BY <1>11 DEF Accept
    <3> HIDE DEF j
    <3> QED  BY <3>1, <3>2, AppendProperties DEF TypeOK, MadeTyped
  <2>5. RestTyped'
    <3>1. Len(jobs) + 1 \in Nat  BY DEF TypeOK
    <3>2. overtaken' \subseteq overtaken \cup {Len(jobs) + 1}  BY <1>11 DEF Accept
    <3> QED  BY <3>1, <3>2, <1>11 DEF TypeOK, RestTyped, Accept, people
  <2> QED  BY <2>1, <2>2, <2>3, <2>4, <2>5 DEF StoreTyped, CallsTyped, FlagsTyped, MadeTyped, RestTyped, TypeOK
<1>12. ASSUME NEW c \in Callers, AssertNotMinor(c) PROVE TypeOK'
  <2>1. StoreTyped'
    BY <1>12 DEF TypeOK, StoreTyped, AssertNotMinor, store, people, made, ghosts, Versions
  <2>2. CallsTyped'
    <3>1. End(c) \/ call' = [call EXCEPT ![c].pc = "consent"]  BY <1>12 DEF AssertNotMinor, Goto
    <3>2. Len(look') = Len(look)  BY <1>12 DEF AssertNotMinor, store
    <3>3. "consent" \in Pcs  BY DEF Pcs
    <3> QED  BY <3>1, <3>2, <3>3, EndTyped, PcTyped
  <2>3. FlagsTyped'
    BY <1>12 DEF TypeOK, FlagsTyped, AssertNotMinor, store, people, made, ghosts
  <2>4. MadeTyped'
    BY <1>12 DEF TypeOK, MadeTyped, AssertNotMinor, store, people, made, ghosts
  <2>5. RestTyped'
    BY <1>12 DEF TypeOK, RestTyped, AssertNotMinor, store, people, made, ghosts
  <2> QED  BY <2>1, <2>2, <2>3, <2>4, <2>5 DEF StoreTyped, CallsTyped, FlagsTyped, MadeTyped, RestTyped, TypeOK
<1>13. ASSUME NEW c \in Callers, AssertConsent(c) PROVE TypeOK'
  <2>1. StoreTyped'
    BY <1>13 DEF TypeOK, StoreTyped, AssertConsent, store, people, made, ghosts, Versions
  <2>2. CallsTyped'
    <3>1. End(c) \/ call' = [call EXCEPT ![c].pc = "load"]  BY <1>13 DEF AssertConsent, Goto
    <3>2. Len(look') = Len(look)  BY <1>13 DEF AssertConsent, store
    <3>3. "load" \in Pcs  BY DEF Pcs
    <3> QED  BY <3>1, <3>2, <3>3, EndTyped, PcTyped
  <2>3. FlagsTyped'
    BY <1>13 DEF TypeOK, FlagsTyped, AssertConsent, store, people, made, ghosts
  <2>4. MadeTyped'
    BY <1>13 DEF TypeOK, MadeTyped, AssertConsent, store, people, made, ghosts
  <2>5. RestTyped'
    BY <1>13 DEF TypeOK, RestTyped, AssertConsent, store, people, made, ghosts
  <2> QED  BY <2>1, <2>2, <2>3, <2>4, <2>5 DEF StoreTyped, CallsTyped, FlagsTyped, MadeTyped, RestTyped, TypeOK
<1>14. ASSUME NEW c \in Callers, LoadSources(c) PROVE TypeOK'
  <2>1. StoreTyped'
    BY <1>14 DEF TypeOK, StoreTyped, LoadSources, store, people, made, ghosts, Versions
  <2>2. CallsTyped'
    <3>1. End(c) \/ call' = [call EXCEPT ![c].pc = "submit"]  BY <1>14 DEF LoadSources, Goto
    <3>2. Len(look') = Len(look)  BY <1>14 DEF LoadSources, store
    <3>3. "submit" \in Pcs  BY DEF Pcs
    <3> QED  BY <3>1, <3>2, <3>3, EndTyped, PcTyped
  <2>3. FlagsTyped'
    BY <1>14 DEF TypeOK, FlagsTyped, LoadSources, store, people, made, ghosts
  <2>4. MadeTyped'
    BY <1>14 DEF TypeOK, MadeTyped, LoadSources, store, people, made, ghosts
  <2>5. RestTyped'
    BY <1>14 DEF TypeOK, RestTyped, LoadSources, store, people, made, ghosts
  <2> QED  BY <2>1, <2>2, <2>3, <2>4, <2>5 DEF StoreTyped, CallsTyped, FlagsTyped, MadeTyped, RestTyped, TypeOK
<1>15. ASSUME NEW c \in Callers, NEW result \in {"ready", "failed"}, Train(c, result) PROVE TypeOK'
  <2>1. StoreTyped'
    <3>1. torn' \subseteq torn \cup {call[c].at}  BY <1>15 DEF Train
    <3> QED  BY <3>1, <1>15, AtTyped DEF TypeOK, StoreTyped, Train, store, made, Versions
  <2>2. CallsTyped'
    <3>1. PICK p \in Pcs : call' = [call EXCEPT ![c].pc = p, ![c].result = result]  BY <1>15 DEF Train, Pcs
    <3> DEFINE k == [call[c] EXCEPT !.pc = p, !.result = result]
    <3>2. k \in Calls /\ k.at \in 1 .. Len(look)  BY AtTyped DEF Calls
    <3>3. call' = [call EXCEPT ![c] = k] /\ Len(look') = Len(look)  BY <3>1, <1>15 DEF Train, store
    <3> HIDE DEF k
    <3>8. \E x \in Calls : call' = [call EXCEPT ![c] = x] /\ x.at \in 1 .. Len(look')  BY <3>2, <3>3
    <3> QED  BY <3>3, <3>8, MoveTyped
  <2>3. FlagsTyped'
    BY <1>15 DEF TypeOK, FlagsTyped, Train, store, people, made, ghosts
  <2>4. MadeTyped'
    BY <1>15 DEF TypeOK, MadeTyped, Train, store, people, made, ghosts
  <2>5. RestTyped'
    BY <1>15 DEF TypeOK, RestTyped, Train, store, people, made, ghosts
  <2> QED  BY <2>1, <2>2, <2>3, <2>4, <2>5 DEF StoreTyped, CallsTyped, FlagsTyped, MadeTyped, RestTyped, TypeOK
<1>16. ASSUME NEW c \in Callers, NEW result \in {"ready", "failed"}, WriteFile(c, result) PROVE TypeOK'
  <2>1. StoreTyped'
    <3>1. disk' \in Seq(Marks) /\ Len(disk') = Len(disk)
      BY <1>16, AtTyped, ExceptSeq DEF WriteFile, TypeOK
    <3> QED  BY <3>1, <1>16 DEF TypeOK, StoreTyped, WriteFile, store, ghosts, Versions
  <2>2. CallsTyped'
    <3> DEFINE k == [call[c] EXCEPT !.pc = "select", !.result = result]
    <3>2. k \in Calls /\ k.at \in 1 .. Len(look)  BY AtTyped DEF Calls, Pcs
    <3>3. call' = [call EXCEPT ![c] = k] /\ Len(look') = Len(look)  BY <1>16 DEF WriteFile, store
    <3> HIDE DEF k
    <3>8. \E x \in Calls : call' = [call EXCEPT ![c] = x] /\ x.at \in 1 .. Len(look')  BY <3>2, <3>3
    <3> QED  BY <3>3, <3>8, MoveTyped
  <2>3. FlagsTyped'
    BY <1>16 DEF TypeOK, FlagsTyped, WriteFile, store, people, made, ghosts
  <2>4. MadeTyped'
    BY <1>16 DEF TypeOK, MadeTyped, WriteFile, store, people, made, ghosts
  <2>5. RestTyped'
    BY <1>16 DEF TypeOK, RestTyped, WriteFile, store, people, made, ghosts
  <2> QED  BY <2>1, <2>2, <2>3, <2>4, <2>5 DEF StoreTyped, CallsTyped, FlagsTyped, MadeTyped, RestTyped, TypeOK
<1>17. ASSUME NEW c \in Callers, SelectIdentity(c) PROVE TypeOK'
  <2>1. StoreTyped'
    BY <1>17 DEF TypeOK, StoreTyped, SelectIdentity, store, people, made, ghosts, Versions
  <2>2. CallsTyped'
    <3>0. \A r \in identities : r.id \in Marks  BY DEF TypeOK, Identities
    <3>1. PICK id \in Marks : call' = [call EXCEPT ![c].pc = "row", ![c].id = id]
      BY <3>0, <1>17, <1>l DEF SelectIdentity
    <3> DEFINE k == [call[c] EXCEPT !.pc = "row", !.id = id]
    <3>2. k \in Calls /\ k.at \in 1 .. Len(look)  BY AtTyped DEF Calls, Pcs
    <3>3. call' = [call EXCEPT ![c] = k] /\ Len(look') = Len(look)  BY <3>1, <1>17 DEF SelectIdentity, store
    <3> HIDE DEF k
    <3>8. \E x \in Calls : call' = [call EXCEPT ![c] = x] /\ x.at \in 1 .. Len(look')  BY <3>2, <3>3
    <3> QED  BY <3>3, <3>8, MoveTyped
  <2>3. FlagsTyped'
    BY <1>17 DEF TypeOK, FlagsTyped, SelectIdentity, store, people, made, ghosts
  <2>4. MadeTyped'
    BY <1>17 DEF TypeOK, MadeTyped, SelectIdentity, store, people, made, ghosts
  <2>5. RestTyped'
    BY <1>17 DEF TypeOK, RestTyped, SelectIdentity, store, people, made, ghosts
  <2> QED  BY <2>1, <2>2, <2>3, <2>4, <2>5 DEF StoreTyped, CallsTyped, FlagsTyped, MadeTyped, RestTyped, TypeOK
<1>18. ASSUME NEW c \in Callers, WriteIdentity(c) PROVE TypeOK'
  <2>1. StoreTyped'
    BY <1>18 DEF TypeOK, StoreTyped, WriteIdentity, store, people, made, ghosts, Versions
  <2>2. CallsTyped'
    <3>1. End(c) /\ look' = look  BY <1>18 DEF WriteIdentity, store
    <3> QED  BY <3>1, EndTyped
  <2>3. FlagsTyped'
    BY <1>18 DEF TypeOK, FlagsTyped, WriteIdentity, store, people, made, ghosts
  <2>4. MadeTyped'
    <3> DEFINE r == [id |-> IF call[c].id = 0 THEN call[c].n ELSE call[c].id, version |-> call[c].at,
                     status |-> call[c].result, file |-> IF call[c].result = "ready" THEN call[c].n ELSE 0]
    <3>1. r \in Identities  BY AtTyped, <1>l DEF Identities, Calls
    <3>2. identities' \subseteq identities \cup {r} /\ jobs' = jobs  BY <1>18 DEF WriteIdentity
    <3> HIDE DEF r
    <3> QED  BY <3>1, <3>2 DEF TypeOK, MadeTyped
  <2>5. RestTyped'
    BY <1>18 DEF TypeOK, RestTyped, WriteIdentity, store, people, made, ghosts
  <2> QED  BY <2>1, <2>2, <2>3, <2>4, <2>5 DEF StoreTyped, CallsTyped, FlagsTyped, MadeTyped, RestTyped, TypeOK
<1>19. ASSUME NEW v \in Versions, Switch(v) PROVE TypeOK'
  <2>1. StoreTyped'
    BY <1>19 DEF TypeOK, StoreTyped, Switch, store, people, made, ghosts, Versions
  <2>2. CallsTyped'
    BY <1>19 DEF TypeOK, CallsTyped, Switch, store, people, made, ghosts, Versions
  <2>3. FlagsTyped'  BY <1>19 DEF TypeOK, FlagsTyped, Switch
  <2>4. MadeTyped'
    BY <1>19 DEF TypeOK, MadeTyped, Switch, store, people, made, ghosts
  <2>5. RestTyped'
    <3>1. calls' \in Marks  BY <1>19, CountTyped DEF Switch
    <3> QED  BY <3>1, <1>19 DEF TypeOK, RestTyped, Switch, Trainers, ghosts
  <2> QED  BY <2>1, <2>2, <2>3, <2>4, <2>5 DEF StoreTyped, CallsTyped, FlagsTyped, MadeTyped, RestTyped, TypeOK
<1>20. ASSUME SetConsent PROVE TypeOK'
  <2>1. StoreTyped'
    BY <1>20 DEF TypeOK, StoreTyped, SetConsent, store, people, made, ghosts, Versions
  <2>2. CallsTyped'
    BY <1>20 DEF TypeOK, CallsTyped, SetConsent, store, people, made, ghosts, Versions
  <2>3. FlagsTyped'
    BY <1>20 DEF TypeOK, FlagsTyped, SetConsent, store, people, made, ghosts
  <2>4. MadeTyped'
    BY <1>20 DEF TypeOK, MadeTyped, SetConsent, store, people, made, ghosts
  <2>5. RestTyped'
    <3>1. calls' \in Marks  BY <1>20, CountTyped DEF SetConsent
    <3> QED  BY <3>1, <1>20 DEF TypeOK, RestTyped, SetConsent, Trainers, ghosts
  <2> QED  BY <2>1, <2>2, <2>3, <2>4, <2>5 DEF StoreTyped, CallsTyped, FlagsTyped, MadeTyped, RestTyped, TypeOK
<1>21. ASSUME Crash PROVE TypeOK'
  <2>1. StoreTyped'
    <3>1. torn' \subseteq torn \cup Versions  BY <1>21 DEF Crash, TypeOK
    <3> QED  BY <3>1, <1>21 DEF TypeOK, StoreTyped, Crash, store, made, Versions
  <2>2. CallsTyped'
    <3>1. call' = [c \in Callers |-> Idle] /\ look' = look  BY <1>21 DEF Crash, store
    <3>2. Idle \in Calls /\ Idle.at \in 1 .. Len(look)  BY IdleTyped DEF Versions
    <3> HIDE DEF Idle
    <3> QED  BY <3>1, <3>2 DEF CallsTyped, Versions
  <2>3. FlagsTyped'
    BY <1>21 DEF TypeOK, FlagsTyped, Crash, store, people, made, ghosts
  <2>4. MadeTyped'
    BY <1>21 DEF TypeOK, MadeTyped, Crash, store, people, made, ghosts
  <2>5. RestTyped'
    BY <1>21 DEF TypeOK, RestTyped, Crash, store, people, made, ghosts
  <2> QED  BY <2>1, <2>2, <2>3, <2>4, <2>5 DEF StoreTyped, CallsTyped, FlagsTyped, MadeTyped, RestTyped, TypeOK
<1>22. CASE UNCHANGED vars
  BY <1>22 DEF TypeOK, vars, store, people, made, ghosts, Versions
<1> QED
  BY <1>1, <1>2, <1>3, <1>4, <1>5, <1>6, <1>7, <1>8, <1>9, <1>10, <1>11, <1>12, <1>13, <1>14, <1>15, <1>16, <1>17, <1>18, <1>19, <1>20, <1>21, <1>22 DEF Next, EditStep, TrainStep

\* Every reachable state is well typed.
THEOREM CharactersTypes == Spec => []TypeOK
<1>1. Init => TypeOK
  <2> SUFFICES ASSUME Init PROVE TypeOK  OBVIOUS
  <2>0. 0 \in Marks  BY MarksAreNumbers
  <2>1. look \in Seq(Looks) /\ Len(look) = 1  BY <2>0 DEF Init, Looks, Fields
  <2>2. refs \in Seq(SUBSET Rows) /\ Len(refs) = 1
    <3>1. \A rows \in {{}} \cup Batches(0) : rows \in SUBSET Rows  BY <2>0, BatchTyped
    <3> QED  BY <3>1 DEF Init
  <2>3. disk \in Seq(Marks) /\ Len(disk) = 1  BY <2>0 DEF Init
  <2>4. 1 \in Versions  BY <2>1 DEF Versions
  <2>5. Idle \in Calls /\ Idle.at = 1
    BY <2>0 DEF Idle, Calls, Pcs, Looks, Fields, Edits
  <2>6. call \in [Callers -> Calls] /\ \A c \in Callers : call[c].at \in Versions
    BY <2>4, <2>5 DEF Init
  <2>7. jobs \in Seq(Jobs)  BY DEF Init
  <2>8. consent \in BOOLEAN /\ switched \in BOOLEAN  BY DEF Init
  <2>9. young \subseteq Marks  BY <2>0 DEF Init
  <2> QED  BY <2>0, <2>1, <2>2, <2>3, <2>4, <2>6, <2>7, <2>8, <2>9 DEF Init, TypeOK
<1>2. TypeOK /\ [Next]_vars => TypeOK'  BY TypeStep
<1> QED  BY <1>1, <1>2, PTL DEF Spec

(***************************************************************************)
(* Looks.                                                                  *)

\* The version of a job is frozen.
Named == \A k \in DOMAIN jobs : jobs[k].version \in frozen

\* Whoever may still change the version of a job is known since its acceptance.
Bystanders ==
    \A c \in Callers, k \in DOMAIN jobs : Reaches(c, jobs[k].version) => k \in overtaken

LooksInv == Named /\ Bystanders /\ LookIsKept

\* A step that lets nobody reach a version, and leaves versions and jobs alone.
LEMMA LooksStay ==
    ASSUME LooksInv, UNCHANGED <<look, refs, jobs, frozen, overtaken>>,
           \A c \in Callers : call'[c].pc \in {"edit", "write", "insert"} =>
               call[c].pc \in {"edit", "write", "insert"} /\ call'[c].at = call[c].at
    PROVE  LooksInv'
  BY DEF LooksInv, Named, Bystanders, LookIsKept, Reaches

\* A step that changes the version its own request reaches.
LEMMA LooksChange ==
    ASSUME TypeOK, LooksInv, NEW c \in Callers, NEW v, Reaches(c, v),
           UNCHANGED <<jobs, frozen, overtaken>>,
           \A w \in Versions \ {v} : look'[w] = look[w] /\ refs'[w] = refs[w],
           \A d \in Callers : call'[d].pc \in {"edit", "write", "insert"} =>
               call[d].pc \in {"edit", "write", "insert"} /\ call'[d].at = call[d].at
    PROVE  LooksInv'
<1>1. ASSUME NEW k \in DOMAIN jobs, k \notin overtaken PROVE jobs[k].version \in Versions \ {v}
  BY <1>1 DEF LooksInv, Named, Bystanders, TypeOK
<1>2. LookIsKept'  BY <1>1 DEF LooksInv, LookIsKept
<1> QED  BY <1>2 DEF LooksInv, Named, Bystanders, Reaches

\* The version a job names keeps the look the job was resolved with.
THEOREM LooksAreKept == Spec => []LookIsKept
<1>1. Init => LooksInv
  BY DEF Init, LooksInv, Named, Bystanders, LookIsKept
<1>2. TypeOK /\ LooksInv /\ [Next]_vars => LooksInv'
  <2> SUFFICES ASSUME TypeOK, LooksInv, [Next]_vars PROVE LooksInv'  OBVIOUS
  <2>0. call \in [Callers -> Calls]  BY DEF TypeOK
  <2>1. ASSUME NEW c \in Callers, NEW op \in Edits, AskEdit(c, op) PROVE LooksInv'
    <3>1. call'[c].pc = "check" /\ \A d \in Callers \ {c} : call'[d] = call[d]
      BY <2>0, <2>1 DEF AskEdit, Begin, Ask, Idle
    <3> QED  BY <3>1, <2>1, LooksStay DEF AskEdit, store, made, ghosts
  <2>2. ASSUME NEW c \in Callers, AskTraining(c) PROVE LooksInv'
    <3>1. call'[c].pc = "minor" /\ \A d \in Callers \ {c} : call'[d] = call[d]
      BY <2>0, <2>2 DEF AskTraining, Begin, Ask, Idle
    <3> QED  BY <3>1, <2>2, LooksStay DEF AskTraining, store, made, ghosts
  <2>3. ASSUME NEW c \in Callers, NEW v \in Versions, Resolve(c, v) PROVE LooksInv'
    <3>1. call'[c].pc = "accept" /\ \A d \in Callers \ {c} : call'[d] = call[d]
      BY <2>0, <2>3 DEF Resolve, Begin, Ask, Idle
    <3> QED  BY <3>1, <2>3, LooksStay DEF Resolve, store, made, ghosts
  <2>4. ASSUME NEW c \in Callers, Check(c) PROVE LooksInv'
    <3>1. /\ call'[c].pc = (IF call[c].at \in frozen THEN "fork" ELSE "edit")
          /\ call'[c].at = call[c].at
          /\ \A d \in Callers \ {c} : call'[d] = call[d]
      BY <2>0, <2>4 DEF Check, Goto, Calls
    <3>2. UNCHANGED <<look, refs, jobs, frozen, overtaken>>  BY <2>4 DEF Check, store, made, ghosts
    <3>3. Bystanders'
      BY <3>1, <3>2 DEF LooksInv, Named, Bystanders, Reaches
    <3> QED  BY <3>2, <3>3 DEF LooksInv, Named, LookIsKept
  <2>5. ASSUME NEW c \in Callers, Fork(c) PROVE LooksInv'
    <3>1. CASE current < Newest
      <4>1. call'[c].pc = "idle" /\ \A d \in Callers \ {c} : call'[d] = call[d]
        BY <2>0, <2>5, <3>1 DEF Fork, End, Idle
      <4> QED  BY <4>1, <2>5, <3>1, LooksStay DEF Fork, store
    <3>2. CASE ~(current < Newest)
      <4>1. current \in 1 .. Len(look) /\ Len(look) \in Nat /\ current = Len(look)
        BY <3>2 DEF TypeOK, Versions, Newest
      <4>2. \A w \in Versions : look'[w] = look[w] /\ refs'[w] = refs[w]
        <5>1. look[current] \in Looks /\ refs[current] \in SUBSET Rows
          BY <4>1, ElementOfSeq DEF TypeOK
        <5> QED  BY <5>1, <2>5, <3>2, AppendProperties DEF Fork, TypeOK, Versions
      <4>3. UNCHANGED <<jobs, frozen, overtaken>>  BY <2>5, <3>2 DEF Fork
      <4>4. call'[c].at = Len(look) + 1 /\ \A d \in Callers \ {c} : call'[d] = call[d]
        BY <2>0, <2>5, <3>2, <4>1 DEF Fork, Calls
      <4>5. \A k \in DOMAIN jobs : jobs[k].version \in 1 .. Len(look)
        BY DEF LooksInv, Named, TypeOK, Versions
      <4>6. Bystanders'
        BY <4>1, <4>3, <4>4, <4>5 DEF LooksInv, Bystanders, Reaches
      <4>7. LookIsKept'  BY <4>2, <4>3, <4>5 DEF LooksInv, LookIsKept, Versions
      <4> QED  BY <4>3, <4>6, <4>7 DEF LooksInv, Named
    <3> QED  BY <3>1, <3>2
  <2>6. ASSUME NEW c \in Callers, ReadLook(c) PROVE LooksInv'
    <3>1. call[c].pc = "edit" /\ call'[c].at = call[c].at /\ \A d \in Callers \ {c} : call'[d] = call[d]
      BY <2>0, <2>6 DEF ReadLook, At, Calls
    <3> QED  BY <3>1, <2>6, LooksStay DEF ReadLook, store, made, ghosts
  <2>7. ASSUME NEW c \in Callers, WriteLook(c) PROVE LooksInv'
    <3>1. call'[c].pc = "idle" /\ \A d \in Callers \ {c} : call'[d] = call[d]
      BY <2>0, <2>7 DEF WriteLook, End, Idle
    <3>2. \A w \in Versions \ {call[c].at} : look'[w] = look[w] /\ refs'[w] = refs[w]
      BY <2>7 DEF WriteLook, TypeOK, Versions
    <3>3. Reaches(c, call[c].at)  BY <2>7 DEF WriteLook, At, Reaches
    <3> QED  BY <3>1, <3>2, <3>3, <2>7, LooksChange DEF WriteLook, made, ghosts
  <2>8. ASSUME NEW c \in Callers, ClearAnchor(c) PROVE LooksInv'
    <3>1. call'[c].at = call[c].at /\ \A d \in Callers \ {c} : call'[d] = call[d]
      BY <2>0, <2>8 DEF ClearAnchor, Goto, Calls
    <3>2. \A w \in Versions \ {call[c].at} : look'[w] = look[w] /\ refs'[w] = refs[w]
      BY <2>8 DEF ClearAnchor, TypeOK, Versions
    <3>3. Reaches(c, call[c].at)  BY <2>8 DEF ClearAnchor, At, Reaches
    <3> QED  BY <3>1, <3>2, <3>3, <2>8, LooksChange DEF ClearAnchor, made, Reaches
  <2>9. ASSUME NEW c \in Callers, Insert(c) PROVE LooksInv'
    <3>1. /\ call'[c].pc = "idle" \/ call'[c].at = call[c].at
          /\ \A d \in Callers \ {c} : call'[d] = call[d]
      BY <2>0, <2>9 DEF Insert, End, Idle, Calls
    <3>2. \A w \in Versions \ {call[c].at} : look'[w] = look[w] /\ refs'[w] = refs[w]
      BY <2>9 DEF Insert, TypeOK, Versions
    <3>3. Reaches(c, call[c].at)  BY <2>9 DEF Insert, At, Reaches
    <3> QED  BY <3>1, <3>2, <3>3, <2>9, LooksChange DEF Insert, made, ghosts, Reaches
  <2>10. ASSUME NEW c \in Callers, Remove(c) PROVE LooksInv'
    <3>1. call'[c].pc = "idle" /\ \A d \in Callers \ {c} : call'[d] = call[d]
      BY <2>0, <2>10 DEF Remove, End, Idle
    <3>2. \A w \in Versions \ {call[c].at} : look'[w] = look[w] /\ refs'[w] = refs[w]
      BY <2>10 DEF Remove, TypeOK, Versions
    <3>3. Reaches(c, call[c].at)  BY <2>10 DEF Remove, At, Reaches
    <3> QED  BY <3>1, <3>2, <3>3, <2>10, LooksChange DEF Remove, made, ghosts
  <2>11. ASSUME NEW c \in Callers, Accept(c) PROVE LooksInv'
    <3> DEFINE new == Len(jobs) + 1
               job == [version |-> call[c].at, look |-> call[c].seen, refs |-> call[c].refs]
    <3>1. job \in Jobs  BY AtTyped DEF Jobs
    <3>2. jobs' = Append(jobs, job) /\ frozen' = frozen \cup {call[c].at} /\ look' = look /\ refs' = refs
      BY <2>11 DEF Accept
    <3>3. Len(jobs) \in Nat /\ DOMAIN jobs = 1 .. Len(jobs)  BY DEF TypeOK
    <3>4. /\ DOMAIN jobs' = 1 .. Len(jobs) + 1 /\ jobs'[new] = job
          /\ \A k \in DOMAIN jobs : jobs'[k] = jobs[k]
      BY <3>1, <3>2, <3>3, AppendProperties DEF TypeOK
    <3>5. \A k \in DOMAIN jobs' : k \in DOMAIN jobs \/ k = new  BY <3>3, <3>4
    <3>6. /\ overtaken \subseteq overtaken'
          /\ look[call[c].at] # call[c].seen \/ refs[call[c].at] # call[c].refs
               \/ (\E d \in Callers : Reaches(d, call[c].at)) => new \in overtaken'
      BY <2>11 DEF Accept
    <3>7. call'[c].pc = "idle" /\ \A d \in Callers \ {c} : call'[d] = call[d]
      BY <2>0, <2>11 DEF Accept, End, Idle
    <3>8. Named'  BY <3>2, <3>4, <3>5 DEF LooksInv, Named
    <3>9. Bystanders'
      BY <3>4, <3>5, <3>6, <3>7 DEF LooksInv, Bystanders, Reaches
    <3>10. LookIsKept'  BY <3>2, <3>4, <3>5, <3>6 DEF LooksInv, LookIsKept
    <3> QED  BY <3>8, <3>9, <3>10 DEF LooksInv
  <2>12. ASSUME NEW c \in Callers, TrainStep(c) PROVE LooksInv'
    <3>1. UNCHANGED <<look, refs, jobs, frozen, overtaken>>
      BY <2>12 DEF TrainStep, AssertNotMinor, AssertConsent, LoadSources, Train, WriteFile, SelectIdentity,
                   WriteIdentity, store, made, ghosts
    <3>2. /\ call'[c].pc \notin {"edit", "write", "insert"}
          /\ \A d \in Callers \ {c} : call'[d] = call[d]
      BY <2>0, <2>12 DEF TrainStep, AssertNotMinor, AssertConsent, LoadSources, Train, WriteFile,
                         SelectIdentity, WriteIdentity, Goto, End, Idle, Calls
    <3> QED  BY <3>1, <3>2, LooksStay
  <2>13. ASSUME NEW v \in Versions, Switch(v) PROVE LooksInv'
    BY <2>13, LooksStay DEF Switch, made, ghosts
  <2>14. CASE SetConsent
    BY <2>14, LooksStay DEF SetConsent, store, made, ghosts
  <2>15. CASE Crash
    <3>1. \A c \in Callers : call'[c].pc = "idle"  BY <2>15 DEF Crash, Idle
    <3> QED  BY <3>1, <2>15, LooksStay DEF Crash, store, made
  <2>16. CASE UNCHANGED vars
    BY <2>16, LooksStay DEF vars, store, made, ghosts
  <2> QED
    BY <2>1, <2>2, <2>3, <2>4, <2>5, <2>6, <2>7, <2>8, <2>9, <2>10, <2>11, <2>12, <2>13, <2>14, <2>15, <2>16
       DEF Next, EditStep
<1>3. LooksInv => LookIsKept  BY DEF LooksInv
<1> QED  BY <1>1, <1>2, <1>3, CharactersTypes, PTL DEF Spec

(***************************************************************************)
(* References.                                                             *)

\* What a request attaches is its own, and what it has yet to attach is part of it.
Own(k) ==
    /\ k.todo \subseteq k.rows
    /\ k.op = "add" => \A r \in k.rows : r.by = k.n
    /\ k.pc \in {"check", "fork", "edit"} => k.todo = k.rows
    /\ k.pc = "insert" => k.op = "add"

OwnRows == \A c \in Callers : Own(call[c])

LEMMA RowsAreOwned == Spec => []OwnRows
<1>1. Init => OwnRows
  BY DEF Init, OwnRows, Own, Idle
<1>2. TypeOK /\ OwnRows /\ [Next]_vars => OwnRows'
  <2> SUFFICES ASSUME TypeOK, OwnRows, [Next]_vars PROVE OwnRows'  OBVIOUS
  <2>0. call \in [Callers -> Calls] /\ Own(Idle)  BY DEF TypeOK, Own, Idle
  <2> HIDE DEF Idle
  <2>1. ASSUME NEW c \in Callers, NEW op \in Edits, AskEdit(c, op) PROVE OwnRows'
    <3>1. PICK f \in Fields, rows \in CASE op = "add"    -> Batches(calls + 1)
                                         [] op = "remove" -> {{r} : r \in refs[current]}
                                         [] OTHER         -> {{}} :
             Begin(c, [Ask(op, "check") EXCEPT !.field = f, !.rows = rows, !.todo = rows])
      BY <2>1 DEF AskEdit
    <3>2. calls + 1 \in Marks  BY <3>1, CountTyped DEF Begin
    <3>3. op = "add" => \A r \in rows : r.by = calls + 1  BY <3>2, BatchTyped
    <3>4. /\ call'[c].pc = "check" /\ call'[c].op = op /\ call'[c].n = calls + 1
          /\ call'[c].rows = rows /\ call'[c].todo = rows
          /\ \A d \in Callers \ {c} : call'[d] = call[d]
      BY <2>0, <3>1 DEF Begin, Ask, Idle
    <3> QED  BY <3>3, <3>4 DEF OwnRows, Own
  <2>2. ASSUME NEW c \in Callers, AskTraining(c) PROVE OwnRows'
    <3>1. /\ call'[c].pc = "minor" /\ call'[c].op = "train" /\ call'[c].todo = {}
          /\ \A d \in Callers \ {c} : call'[d] = call[d]
      BY <2>0, <2>2 DEF AskTraining, Begin, Ask, Idle
    <3> QED  BY <3>1 DEF OwnRows, Own
  <2>3. ASSUME NEW c \in Callers, NEW v \in Versions, Resolve(c, v) PROVE OwnRows'
    <3>1. /\ call'[c].pc = "accept" /\ call'[c].op = "generate" /\ call'[c].todo = {}
          /\ \A d \in Callers \ {c} : call'[d] = call[d]
      BY <2>0, <2>3 DEF Resolve, Begin, Ask, Idle
    <3> QED  BY <3>1 DEF OwnRows, Own
  <2>4. ASSUME NEW c \in Callers, EditStep(c) PROVE OwnRows'
    <3>0. call[c] \in Calls /\ Own(call[c])  BY <2>0 DEF OwnRows
    <3>1. \A d \in Callers \ {c} : call'[d] = call[d]
      BY <2>0, <2>4 DEF EditStep, Check, Fork, ReadLook, WriteLook, ClearAnchor, Insert, Remove, Goto, End
    <3>2. CASE call'[c] = Idle  BY <2>0, <3>1, <3>2 DEF OwnRows
    <3>3. CASE call'[c] # Idle
      <4>1. ASSUME Check(c) PROVE Own(call'[c])
        BY <2>0, <3>0, <4>1 DEF Check, Goto, At, Own, Calls
      <4>2. ASSUME Fork(c) PROVE Own(call'[c])
        <5>1. call[c].pc = "fork"  BY <4>2 DEF Fork, At
        <5>2. call' = [call EXCEPT ![c].pc = "edit", ![c].at = current + 1, ![c].forked = TRUE]
          BY <2>0, <3>3, <4>2 DEF Fork, End
        <5>3. /\ call'[c].pc = "edit" /\ call'[c].op = call[c].op /\ call'[c].n = call[c].n
              /\ call'[c].rows = call[c].rows /\ call'[c].todo = call[c].todo
          BY <2>0, <3>0, <5>2 DEF Calls
        <5> QED  BY <3>0, <5>1, <5>3 DEF Own
      <4>3. ASSUME ReadLook(c) PROVE Own(call'[c])
        BY <2>0, <3>0, <4>3 DEF ReadLook, At, Own, Calls
      <4>4. ASSUME ClearAnchor(c) PROVE Own(call'[c])
        BY <2>0, <3>0, <4>4 DEF ClearAnchor, Goto, At, Own, Calls
      <4>5. ASSUME Insert(c) PROVE Own(call'[c])
        BY <2>0, <3>0, <3>3, <4>5 DEF Insert, End, At, Own, Calls
      <4>6. ASSUME WriteLook(c) \/ Remove(c) PROVE Own(call'[c])
        BY <2>0, <3>3, <4>6 DEF WriteLook, Remove, End
      <4>7. Own(call'[c])  BY <2>4, <4>1, <4>2, <4>3, <4>4, <4>5, <4>6 DEF EditStep, Own
      <4> QED  BY <3>1, <4>7 DEF OwnRows
    <3> QED  BY <3>2, <3>3
  <2>5. ASSUME NEW c \in Callers, Accept(c) \/ TrainStep(c) PROVE OwnRows'
    <3>0. call[c] \in Calls /\ Own(call[c])  BY <2>0 DEF OwnRows
    <3>1. /\ \A d \in Callers \ {c} : call'[d] = call[d]
          /\ \/ call'[c] = Idle
             \/ /\ call'[c].todo = call[c].todo /\ call'[c].rows = call[c].rows
                /\ call'[c].op = call[c].op /\ call'[c].n = call[c].n
                /\ call'[c].pc \notin {"check", "fork", "edit", "insert"}
      BY <2>0, <2>5, <3>0 DEF Accept, TrainStep, AssertNotMinor, AssertConsent, LoadSources, Train, WriteFile,
         SelectIdentity, WriteIdentity, Goto, End, Calls
    <3>2. Own(call'[c])  BY <2>0, <3>0, <3>1 DEF Own
    <3> QED  BY <3>1, <3>2 DEF OwnRows
  <2>6. CASE UNCHANGED call  BY <2>6 DEF OwnRows
  <2>7. CASE Crash
    <3>1. \A c \in Callers : call'[c] = Idle  BY <2>7 DEF Crash
    <3> QED  BY <2>0, <3>1 DEF OwnRows
  <2> QED  BY <2>1, <2>2, <2>3, <2>4, <2>5, <2>6, <2>7 DEF Next, Switch, SetConsent, vars
<1> QED  BY <1>1, <1>2, CharactersTypes, PTL DEF Spec

(***************************************************************************)
(* Anchors.                                                                *)

\* Between the deletion and the last insertion the anchors are those of the one request
\* that attaches some.
Replacing ==
    \A c \in Callers : \A v \in Versions \ crowded : Attaches(c, v) =>
        /\ \A r \in Anchors(refs[v]) : r.by = call[c].n
        /\ \A d \in Callers : Attaches(d, v) => d = c

AnchorInv == Replacing /\ AnchorsReplaced

\* A step that lets nobody attach and leaves the references alone.
LEMMA AnchorStays ==
    ASSUME AnchorInv, UNCHANGED <<look, refs, crowded>>,
           \A c \in Callers : call'[c].pc = "insert" => call'[c] = call[c]
    PROVE  AnchorInv'
<1>1. \A c \in Callers, v \in Versions : Attaches(c, v)' => Attaches(c, v) /\ call'[c] = call[c]
  BY DEF Attaches, At
<1>2. UNCHANGED Versions  BY DEF Versions
<1> QED  BY <1>1, <1>2 DEF AnchorInv, Replacing, AnchorsReplaced

\* A step that takes references away, if it changes them, and lets nobody new attach.
LEMMA AnchorsThin ==
    ASSUME AnchorInv, UNCHANGED <<look, crowded>>,
           \A v \in Versions : Anchors(refs'[v]) \subseteq Anchors(refs[v]),
           \A c \in Callers : call'[c].pc = "insert" => call'[c] = call[c]
    PROVE  AnchorInv'
<1>1. \A c \in Callers, v \in Versions : Attaches(c, v)' => Attaches(c, v) /\ call'[c] = call[c]
  BY DEF Attaches, At
<1>2. UNCHANGED Versions  BY DEF Versions
<1>3. Replacing'  BY <1>1, <1>2 DEF AnchorInv, Replacing
<1>4. AnchorsReplaced'  BY <1>2 DEF AnchorInv, AnchorsReplaced
<1> QED  BY <1>3, <1>4 DEF AnchorInv

\* An anchor that is added replaces the ones there were, unless two requests attach
\* anchors to the version at once: for any batches of references and any number of
\* requests.
THEOREM AddedAnchorsReplace == Spec => []AnchorsReplaced
<1>1. Init => AnchorInv
  <2> SUFFICES ASSUME Init PROVE AnchorInv  OBVIOUS
  <2>1. Len(look) = 1 /\ \A r \in refs[1] : r.by = 0
    <3>1. \A rows \in {{}} \cup Batches(0) : \A r \in rows : r.by = 0  BY MarksAreNumbers, BatchTyped
    <3> QED  BY <3>1 DEF Init
  <2>2. AnchorsReplaced  BY <2>1 DEF AnchorsReplaced, Versions, Anchors
  <2> QED  BY <2>2 DEF Init, AnchorInv, Replacing, Attaches, At, Idle
<1>2. TypeOK /\ OwnRows /\ AnchorInv /\ [Next]_vars => AnchorInv'
  <2> SUFFICES ASSUME TypeOK, OwnRows, AnchorInv, [Next]_vars PROVE AnchorInv'  OBVIOUS
  <2>0. call \in [Callers -> Calls]  BY DEF TypeOK
  <2>1. ASSUME NEW c \in Callers, NEW op \in Edits, AskEdit(c, op) PROVE AnchorInv'
    <3>1. call'[c].pc = "check" /\ \A d \in Callers \ {c} : call'[d] = call[d]
      BY <2>0, <2>1 DEF AskEdit, Begin, Ask, Idle
    <3> QED  BY <3>1, <2>1, AnchorStays DEF AskEdit, store, ghosts
  <2>2. ASSUME NEW c \in Callers, AskTraining(c) PROVE AnchorInv'
    <3>1. call'[c].pc = "minor" /\ \A d \in Callers \ {c} : call'[d] = call[d]
      BY <2>0, <2>2 DEF AskTraining, Begin, Ask, Idle
    <3> QED  BY <3>1, <2>2, AnchorStays DEF AskTraining, store, ghosts
  <2>3. ASSUME NEW c \in Callers, NEW v \in Versions, Resolve(c, v) PROVE AnchorInv'
    <3>1. call'[c].pc = "accept" /\ \A d \in Callers \ {c} : call'[d] = call[d]
      BY <2>0, <2>3 DEF Resolve, Begin, Ask, Idle
    <3> QED  BY <3>1, <2>3, AnchorStays DEF Resolve, store, ghosts
  <2>4. ASSUME NEW c \in Callers, Check(c) PROVE AnchorInv'
    <3>1. call'[c].pc # "insert" /\ \A d \in Callers \ {c} : call'[d] = call[d]
      BY <2>0, <2>4 DEF Check, Goto, Calls
    <3> QED  BY <3>1, <2>4, AnchorStays DEF Check, store, ghosts
  <2>5. ASSUME NEW c \in Callers, Fork(c) PROVE AnchorInv'
    <3>1. CASE current < Newest
      <4>1. call'[c].pc = "idle" /\ \A d \in Callers \ {c} : call'[d] = call[d]
        BY <2>0, <2>5, <3>1 DEF Fork, End, Idle
      <4> QED  BY <4>1, <2>5, <3>1, AnchorStays DEF Fork, store
    <3>2. CASE ~(current < Newest)
      <4>1. current \in 1 .. Len(look) /\ Len(look) \in Nat /\ current = Len(look) /\ Len(refs) = Len(look)
        BY <3>2 DEF TypeOK, Versions, Newest
      <4>2. /\ Len(look') = Len(look) + 1 /\ refs'[Len(look) + 1] = refs[Len(look)]
            /\ \A w \in 1 .. Len(look) : refs'[w] = refs[w]
        <5>1. look[current] \in Looks /\ refs[current] \in SUBSET Rows
          BY <4>1, ElementOfSeq DEF TypeOK
        <5> QED  BY <4>1, <5>1, <2>5, <3>2, AppendProperties DEF Fork, TypeOK
      <4>3. crowded' = IF Len(look) \in crowded THEN crowded \cup {Len(look) + 1} ELSE crowded
        BY <4>1, <2>5, <3>2 DEF Fork
      <4>4. call'[c].pc = "edit" /\ \A d \in Callers \ {c} : call'[d] = call[d]
        BY <2>0, <2>5, <3>2 DEF Fork, Calls
      <4>5. \A d \in Callers : call[d].at \in 1 .. Len(look)  BY DEF TypeOK, Versions
      <4>6. Replacing'
        <5>1. \A d \in Callers, v \in 1 .. Len(look) + 1 :
                 Attaches(d, v)' => Attaches(d, v) /\ v \in 1 .. Len(look) /\ call'[d] = call[d]
          BY <4>4, <4>5 DEF Attaches, At
        <5>2. \A v \in 1 .. Len(look) : v \notin crowded' => v \notin crowded /\ refs'[v] = refs[v]
          BY <4>2, <4>3
        <5>3. Versions' = 1 .. Len(look) + 1 /\ Versions = 1 .. Len(look)  BY <4>2 DEF Versions
        <5> QED  BY <5>1, <5>2, <5>3 DEF AnchorInv, Replacing
      <4>7. AnchorsReplaced'
        <5> SUFFICES ASSUME NEW v \in 1 .. Len(look) + 1, v \notin crowded'
                     PROVE  \A r, s \in Anchors(refs'[v]) : r.by = s.by
          BY <4>2 DEF AnchorsReplaced, Versions
        <5>1. CASE v = Len(look) + 1
          <6>1. Len(look) \notin crowded  BY <4>3, <5>1
          <6> QED  BY <4>1, <4>2, <5>1, <6>1 DEF AnchorInv, AnchorsReplaced, Versions
        <5>2. CASE v \in 1 .. Len(look)
          <6>1. v \notin crowded  BY <4>3
          <6> QED  BY <4>2, <5>2, <6>1 DEF AnchorInv, AnchorsReplaced, Versions
        <5> QED  BY <4>1, <5>1, <5>2
      <4> QED  BY <4>6, <4>7 DEF AnchorInv
    <3> QED  BY <3>1, <3>2
  <2>6. ASSUME NEW c \in Callers, ReadLook(c) PROVE AnchorInv'
    <3>1. call'[c].pc = "write" /\ \A d \in Callers \ {c} : call'[d] = call[d]
      BY <2>0, <2>6 DEF ReadLook, Calls
    <3> QED  BY <3>1, <2>6, AnchorStays DEF ReadLook, store, ghosts
  <2>7. ASSUME NEW c \in Callers, WriteLook(c) PROVE AnchorInv'
    <3>1. call'[c].pc = "idle" /\ \A d \in Callers \ {c} : call'[d] = call[d]
      BY <2>0, <2>7 DEF WriteLook, End, Idle
    <3>2. Versions' = Versions /\ UNCHANGED <<refs, crowded>>
      BY <2>7 DEF WriteLook, TypeOK, ghosts, Versions
    <3>3. \A d \in Callers, v \in Versions : Attaches(d, v)' => Attaches(d, v) /\ call'[d] = call[d]
      BY <3>1 DEF Attaches, At
    <3> QED  BY <3>2, <3>3 DEF AnchorInv, Replacing, AnchorsReplaced
  <2>8. ASSUME NEW c \in Callers, ClearAnchor(c) PROVE AnchorInv'
    <3> DEFINE v == call[c].at
    <3>1. /\ call'[c] = [call[c] EXCEPT !.pc = "insert"] /\ call[c].pc = "edit"
          /\ \A d \in Callers \ {c} : call'[d] = call[d]
      BY <2>0, <2>8 DEF ClearAnchor, Goto, At
    <3>2. call[c] \in Calls /\ call[c].todo = call[c].rows /\ v \in Versions /\ v \in DOMAIN refs
      BY <3>1, AtTyped DEF TypeOK, OwnRows, Own, Versions
    <3>3. /\ call'[c].pc = "insert" /\ call'[c].at = v /\ call'[c].n = call[c].n
          /\ call'[c].todo = call[c].rows
      BY <3>1, <3>2 DEF Calls
    <3>4. Versions' = Versions  BY <2>8 DEF ClearAnchor, Versions
    <3>5. \A d \in Callers \ {c}, w \in Versions : Attaches(d, w)' <=> Attaches(d, w)
      BY <3>1 DEF Attaches, At
    <3>6. \A w \in Versions : Attaches(c, w)' <=> w = v /\ Anchors(call[c].rows) # {}
      BY <3>3 DEF Attaches, At
    <3>7. CASE Anchors(call[c].rows) = {}
      <4>1. UNCHANGED <<refs, crowded>>  BY <2>8, <3>7 DEF ClearAnchor
      <4>2. \A d \in Callers, w \in Versions : Attaches(d, w)' => d # c /\ Attaches(d, w) /\ call'[d] = call[d]
        BY <3>1, <3>5, <3>6, <3>7
      <4> QED  BY <3>4, <4>1, <4>2 DEF AnchorInv, Replacing, AnchorsReplaced
    <3>8. CASE Anchors(call[c].rows) # {}
      <4>1. refs' = [refs EXCEPT ![v] = @ \ Anchors(@)]  BY <2>8, <3>8 DEF ClearAnchor
      <4>2. Anchors(refs'[v]) = {} /\ \A w \in Versions \ {v} : refs'[w] = refs[w]
        BY <3>2, <4>1 DEF Anchors, TypeOK, Versions
      <4> HIDE DEF v
      <4>3. CASE \E d \in Callers \ {c} : Attaches(d, v)
        <5>1. crowded' = crowded \cup {v}  BY <2>8, <3>8, <4>3 DEF ClearAnchor, v
        <5>2. \A d \in Callers, w \in Versions \ crowded' :
                 Attaches(d, w)' => d # c /\ w # v /\ Attaches(d, w) /\ call'[d] = call[d]
          BY <3>1, <3>5, <3>6, <5>1
        <5> QED  BY <3>4, <4>2, <5>1, <5>2 DEF AnchorInv, Replacing, AnchorsReplaced
      <4>4. CASE ~\E d \in Callers \ {c} : Attaches(d, v)
        <5>1. crowded' = crowded \ {v}  BY <2>8, <3>8, <4>4 DEF ClearAnchor, v
        <5>2. \A d \in Callers, w \in Versions : Attaches(d, w)' =>
                 \/ d = c /\ w = v
                 \/ d # c /\ w # v /\ Attaches(d, w) /\ call'[d] = call[d]
          BY <3>1, <3>5, <3>6, <4>4
        <5>3. Replacing'
          BY <3>4, <4>2, <5>1, <5>2 DEF AnchorInv, Replacing
        <5>4. AnchorsReplaced'
          BY <3>4, <4>2, <5>1 DEF AnchorInv, AnchorsReplaced
        <5> QED  BY <5>3, <5>4 DEF AnchorInv
      <4> QED  BY <4>3, <4>4
    <3> QED  BY <3>7, <3>8
  <2>9. ASSUME NEW c \in Callers, Insert(c) PROVE AnchorInv'
    <3> DEFINE v == call[c].at
    <3>0. PICK r \in call[c].todo :
             /\ refs' = [refs EXCEPT ![v] = @ \cup {r}]
             /\ IF call[c].todo = {r} THEN End(c) ELSE call' = [call EXCEPT ![c].todo = @ \ {r}]
      BY <2>9 DEF Insert
    <3>1. /\ \A d \in Callers \ {c} : call'[d] = call[d]
          /\ \/ call'[c].pc = "idle"
             \/ call'[c].at = v /\ call'[c].n = call[c].n /\ call'[c].todo \subseteq call[c].todo
      BY <2>0, <3>0 DEF End, Idle, Calls
    <3>2. v \in DOMAIN refs /\ v \in Versions /\ call[c].pc = "insert" /\ r.by = call[c].n
      BY <2>9, AtTyped DEF TypeOK, Insert, At, OwnRows, Own, Versions
    <3>3. refs'[v] = refs[v] \cup {r} /\ \A w \in Versions \ {v} : refs'[w] = refs[w]
      BY <3>0, <3>2 DEF TypeOK, Versions
    <3>4. Versions' = Versions /\ crowded' = crowded  BY <2>9 DEF Insert, Versions, ghosts
    <3>5. \A d \in Callers, w \in Versions : Attaches(d, w)' => Attaches(d, w) /\ call'[d].n = call[d].n
      BY <3>1, <3>2 DEF Attaches, At, Anchors
    <3>6. r.role = "anchor" => Attaches(c, v)  BY <3>2 DEF Attaches, At, Anchors
    <3>7. Anchors(refs'[v]) = Anchors(refs[v]) \cup (IF r.role = "anchor" THEN {r} ELSE {})
      BY <3>3 DEF Anchors
    <3> HIDE DEF v
    <3>8. Replacing'
      <4> SUFFICES ASSUME NEW d \in Callers, NEW w \in Versions \ crowded, Attaches(d, w)'
                   PROVE  /\ \A s \in Anchors(refs'[w]) : s.by = call'[d].n
                          /\ \A e \in Callers : Attaches(e, w)' => e = d
        BY <3>4 DEF Replacing
      <4>1. /\ Attaches(d, w) /\ call'[d].n = call[d].n
            /\ \A s \in Anchors(refs[w]) : s.by = call[d].n
            /\ \A e \in Callers : Attaches(e, w) => e = d
        BY <3>5 DEF AnchorInv, Replacing
      <4>2. CASE w # v  BY <3>3, <3>5, <4>1, <4>2
      <4>3. CASE w = v  BY <3>2, <3>5, <3>6, <3>7, <4>1, <4>3
      <4> QED  BY <4>2, <4>3
    <3>9. AnchorsReplaced'
      <4> SUFFICES ASSUME NEW w \in Versions \ crowded
                   PROVE  \A s, t \in Anchors(refs'[w]) : s.by = t.by
        BY <3>4 DEF AnchorsReplaced
      <4>1. \A s, t \in Anchors(refs[w]) : s.by = t.by  BY DEF AnchorInv, AnchorsReplaced
      <4>2. CASE w # v \/ r.role # "anchor"  BY <3>3, <3>7, <4>1, <4>2
      <4>3. CASE w = v /\ r.role = "anchor"
        <5>1. \A s \in Anchors(refs[v]) : s.by = call[c].n
          BY <3>6, <4>3 DEF AnchorInv, Replacing
        <5> QED  BY <3>2, <3>7, <4>3, <5>1
      <4> QED  BY <4>2, <4>3
    <3> QED  BY <3>8, <3>9 DEF AnchorInv
  <2>10. ASSUME NEW c \in Callers, Remove(c) PROVE AnchorInv'
    <3>1. call'[c].pc = "idle" /\ \A d \in Callers \ {c} : call'[d] = call[d]
      BY <2>0, <2>10 DEF Remove, End, Idle
    <3>2. UNCHANGED <<look, crowded>> /\ \A w \in Versions : refs'[w] \subseteq refs[w]
      BY <2>10 DEF Remove, TypeOK, Versions, ghosts
    <3>3. \A w \in Versions : Anchors(refs'[w]) \subseteq Anchors(refs[w])  BY <3>2 DEF Anchors
    <3> QED  BY <3>1, <3>2, <3>3, AnchorsThin
  <2>11. ASSUME NEW c \in Callers, Accept(c) PROVE AnchorInv'
    <3>1. call'[c].pc = "idle" /\ \A d \in Callers \ {c} : call'[d] = call[d]
      BY <2>0, <2>11 DEF Accept, End, Idle
    <3> QED  BY <3>1, <2>11, AnchorStays DEF Accept
  <2>12. ASSUME NEW c \in Callers, TrainStep(c) PROVE AnchorInv'
    <3>1. UNCHANGED <<look, refs, crowded>>
      BY <2>12 DEF TrainStep, AssertNotMinor, AssertConsent, LoadSources, Train, WriteFile, SelectIdentity,
                   WriteIdentity, store, ghosts
    <3>2. /\ call'[c].pc # "insert" /\ \A d \in Callers \ {c} : call'[d] = call[d]
      BY <2>0, <2>12 DEF TrainStep, AssertNotMinor, AssertConsent, LoadSources, Train, WriteFile,
                         SelectIdentity, WriteIdentity, Goto, End, Idle, Calls
    <3> QED  BY <3>1, <3>2, AnchorStays
  <2>13. ASSUME NEW v \in Versions, Switch(v) PROVE AnchorInv'
    BY <2>13, AnchorStays DEF Switch, ghosts
  <2>14. CASE SetConsent
    BY <2>14, AnchorStays DEF SetConsent, store, ghosts
  <2>15. CASE Crash
    <3>1. \A c \in Callers : call'[c].pc = "idle"  BY <2>15 DEF Crash, Idle
    <3> QED  BY <3>1, <2>15, AnchorStays DEF Crash, store
  <2>16. CASE UNCHANGED vars
    BY <2>16, AnchorStays DEF vars, store, ghosts
  <2> QED
    BY <2>1, <2>2, <2>3, <2>4, <2>5, <2>6, <2>7, <2>8, <2>9, <2>10, <2>11, <2>12, <2>13, <2>14, <2>15, <2>16
       DEF Next, EditStep
<1>3. AnchorInv => AnchorsReplaced  BY DEF AnchorInv
<1> QED  BY <1>1, <1>2, <1>3, RowsAreOwned, CharactersTypes, PTL DEF Spec

(***************************************************************************)
(* Edits that fail.                                                        *)

\* While nobody switches, the current version is the newest.
HeadIsNewest == ~switched => current = Newest

\* As long as the owner never chose a current version no edit fails.
THEOREM EditsAreAccepted == Spec => []EditsAccepted
<1>1. Init => HeadIsNewest /\ EditsAccepted
  BY DEF Init, HeadIsNewest, EditsAccepted, Newest
<1>2. TypeOK /\ HeadIsNewest /\ EditsAccepted /\ [Next]_vars => HeadIsNewest' /\ EditsAccepted'
  <2> SUFFICES ASSUME TypeOK, HeadIsNewest, EditsAccepted, [Next]_vars
               PROVE  HeadIsNewest' /\ EditsAccepted'
    OBVIOUS
  <2> DEFINE Same == /\ Len(look') = Len(look) /\ current' = current
                     /\ switched' = switched /\ refused' = refused
  <2>1. CASE Same
    BY <2>1 DEF HeadIsNewest, EditsAccepted, Newest
  <2>2. ASSUME NEW c \in Callers, Fork(c) PROVE HeadIsNewest' /\ EditsAccepted'
    <3>1. CASE current < Newest
      <4>1. current # Newest  BY <3>1 DEF TypeOK, Versions, Newest
      <4> QED  BY <4>1, <2>2 DEF HeadIsNewest, EditsAccepted, Fork, people
    <3>2. CASE ~(current < Newest)
      <4>1. current \in 1 .. Len(look) /\ Len(look) \in Nat /\ current = Len(look)
        BY <3>2 DEF TypeOK, Versions, Newest
      <4>2. look[current] \in Looks  BY <4>1, ElementOfSeq DEF TypeOK
      <4>3. Len(look') = Len(look) + 1  BY <4>2, <2>2, <3>2, AppendProperties DEF Fork, TypeOK
      <4> QED  BY <4>1, <4>3, <2>2, <3>2 DEF HeadIsNewest, EditsAccepted, Fork, people, Newest
    <3> QED  BY <3>1, <3>2
  <2>3. ASSUME NEW v \in Versions, Switch(v) PROVE HeadIsNewest' /\ EditsAccepted'
    BY <2>3 DEF Switch, HeadIsNewest, EditsAccepted
  <2>4. ASSUME NEW c \in Callers, EditStep(c), ~Fork(c) PROVE Same
    <3>1. Len(look') = Len(look)
      BY <2>4 DEF EditStep, Check, ReadLook, WriteLook, ClearAnchor, Insert, Remove, store, TypeOK
    <3> QED  BY <3>1, <2>4 DEF EditStep, Check, ReadLook, WriteLook, ClearAnchor, Insert, Remove, store,
                                people, ghosts
  <2>5. ASSUME NEW c \in Callers, TrainStep(c) PROVE Same
    BY <2>5 DEF TrainStep, AssertNotMinor, AssertConsent, LoadSources, Train, WriteFile, SelectIdentity,
                WriteIdentity, store, people, ghosts
  <2>6. ASSUME NEW c \in Callers, NEW op \in Edits, AskEdit(c, op) PROVE Same
    BY <2>6 DEF AskEdit, store, ghosts
  <2>7. ASSUME NEW c \in Callers, AskTraining(c) PROVE Same
    BY <2>7 DEF AskTraining, store, people, ghosts
  <2>8. ASSUME NEW c \in Callers, NEW v \in Versions, Resolve(c, v) PROVE Same
    BY <2>8 DEF Resolve, store, people, ghosts
  <2>9. ASSUME NEW c \in Callers, Accept(c) PROVE Same
    BY <2>9 DEF Accept, people
  <2>10. ASSUME SetConsent \/ Crash \/ UNCHANGED vars PROVE Same
    BY <2>10 DEF SetConsent, Crash, vars, store, people, ghosts
  <2> QED  BY <2>1, <2>2, <2>3, <2>4, <2>5, <2>6, <2>7, <2>8, <2>9, <2>10 DEF Next
<1> QED  BY <1>1, <1>2, CharactersTypes, PTL DEF Spec

(***************************************************************************)
(* Trainings.                                                              *)

\* No sentence is from an edit that has not been asked.
Asked(l) == \A f \in Fields : l[f] <= calls
MarksAsked ==
    /\ \A v \in Versions : Asked(look[v])
    /\ \A c \in Callers : Asked(call[c].seen) /\ call[c].n <= calls

\* A training nothing met is of the current version; behind its checks they still hold.
Willing ==
    \A c \in Callers : c \notin moved /\ Training(c) =>
        /\ call[c].at = current
        /\ call[c].pc \in {"load", "submit", "file", "select", "row"} => consent
        /\ call[c].pc \in {"consent", "load", "submit", "file", "select", "row"} => ~Minor(current)

WillInv == MarksAsked /\ Willing

\* A step that leaves people and words alone, in which nobody begins a training.
LEMMA WillStays ==
    ASSUME TypeOK, WillInv, Len(look') = Len(look), UNCHANGED <<look, current, consent, young, calls>>,
           moved \subseteq moved',
           \A c \in Callers : call'[c] = call[c] \/ call'[c].op # "train" \/ call'[c].pc = "idle",
           \A c \in Callers : Asked(call'[c].seen) /\ call'[c].n <= calls
    PROVE  WillInv'
<1>1. MarksAsked'  BY DEF WillInv, MarksAsked, Asked, Versions
<1>2. ASSUME NEW c \in Callers, c \notin moved', Training(c)'
      PROVE  /\ call'[c].at = current'
             /\ call'[c].pc \in {"load", "submit", "file", "select", "row"} => consent'
             /\ call'[c].pc \in {"consent", "load", "submit", "file", "select", "row"} => ~Minor(current)'
  <2>1. call'[c] = call[c] /\ c \notin moved  BY <1>2 DEF Training, At
  <2>2. Training(c)  BY <1>2, <2>1 DEF Training, At
  <2> QED  BY <2>1, <2>2 DEF WillInv, Willing, Minor
<1> QED  BY <1>1, <1>2 DEF WillInv, Willing

\* A step of a training that leaves people and words alone.
LEMMA WillGoesOn ==
    ASSUME TypeOK, WillInv, NEW c \in Callers,
           UNCHANGED <<look, current, consent, young, calls, moved>>,
           \A d \in Callers \ {c} : call'[d] = call[d],
           Asked(call'[c].seen) /\ call'[c].n <= calls,
           Training(c)' => /\ Training(c) /\ call'[c].at = call[c].at
                           /\ call'[c].pc \in {"load", "submit", "file", "select", "row"} =>
                                 consent \/ call[c].pc \in {"load", "submit", "file", "select", "row"}
                           /\ call'[c].pc \in {"consent", "load", "submit", "file", "select", "row"} =>
                                 \/ ~Minor(current)
                                 \/ call[c].pc \in {"consent", "load", "submit", "file", "select", "row"}
    PROVE  WillInv'
<1>1. MarksAsked'  BY DEF WillInv, MarksAsked, Asked, Versions
<1>2. Minor(current)' <=> Minor(current)  BY DEF Minor
<1>3. ASSUME NEW d \in Callers, d \notin moved', Training(d)'
      PROVE  /\ call'[d].at = current'
             /\ call'[d].pc \in {"load", "submit", "file", "select", "row"} => consent'
             /\ call'[d].pc \in {"consent", "load", "submit", "file", "select", "row"} => ~Minor(current)'
  <2>1. CASE d # c
    <3>1. call'[d] = call[d] /\ Training(d)  BY <1>3, <2>1 DEF Training, At
    <3> QED  BY <1>2, <1>3, <3>1 DEF WillInv, Willing
  <2>2. CASE d = c
    <3>1. Training(c) /\ c \notin moved  BY <1>3, <2>2
    <3> QED  BY <1>2, <1>3, <2>2, <3>1 DEF WillInv, Willing
  <2> QED  BY <2>1, <2>2
<1> QED  BY <1>1, <1>3 DEF WillInv, Willing

\* A request that begins.
LEMMA WillBegins ==
    ASSUME TypeOK, WillInv, NEW c \in Callers,
           call' \in [Callers -> Calls],
           \A d \in Callers \ {c} : call'[d] = call[d], calls' = calls + 1,
           call'[c].n = calls + 1, \A f \in Fields : call'[c].seen[f] <= calls,
           call'[c].op = "train" => call'[c].pc = "minor" /\ call'[c].at = current,
           UNCHANGED <<look, current, consent>>, young' \subseteq young \cup {calls + 1},
           moved \subseteq moved' \cup {c}
    PROVE  WillInv'
<1>0. calls \in Nat /\ Marks \subseteq Nat  BY MarksAreNumbers DEF TypeOK
<1>1. ASSUME NEW d \in Callers PROVE call'[d].n <= calls + 1 /\ \A f \in Fields : call'[d].seen[f] <= calls + 1
  <2>1. call'[d].n \in Nat /\ \A f \in Fields : call'[d].seen[f] \in Nat
    BY <1>0 DEF Calls, Looks
  <2>2. CASE d = c  BY <1>0, <2>1, <2>2
  <2>3. CASE d # c
    <3>1. call'[d].n <= calls /\ \A f \in Fields : call'[d].seen[f] <= calls
      BY <2>3 DEF WillInv, MarksAsked, Asked
    <3> QED  BY <1>0, <2>1, <3>1
  <2> QED  BY <2>2, <2>3
<1>2. ASSUME NEW v \in Versions, NEW f \in Fields PROVE look[v][f] \in Nat /\ look[v][f] <= calls
  <2>1. look[v] \in Looks  BY ElementOfSeq DEF TypeOK, Versions
  <2> QED  BY <1>0, <2>1 DEF Looks, WillInv, MarksAsked, Asked
<1>3. MarksAsked'
  <2>1. \A v \in Versions, f \in Fields : look[v][f] <= calls + 1  BY <1>0, <1>2
  <2> QED  BY <1>1, <2>1 DEF MarksAsked, Asked, Versions
<1>4. Minor(current)' => Minor(current)
  <2>1. \A f \in Fields : look[current][f] # calls + 1  BY <1>0, <1>2 DEF TypeOK
  <2> QED  BY <2>1 DEF Minor
<1>5. ASSUME NEW d \in Callers, d \notin moved', Training(d)'
      PROVE  /\ call'[d].at = current'
             /\ call'[d].pc \in {"load", "submit", "file", "select", "row"} => consent'
             /\ call'[d].pc \in {"consent", "load", "submit", "file", "select", "row"} => ~Minor(current)'
  <2>1. CASE d # c
    <3>1. call'[d] = call[d] /\ Training(d) /\ d \notin moved  BY <1>5, <2>1 DEF Training, At
    <3> QED  BY <1>4, <3>1 DEF WillInv, Willing
  <2>2. CASE d = c
    <3>1. call'[c].op = "train"  BY <1>5, <2>2 DEF Training
    <3> QED  BY <2>2, <3>1
  <2> QED  BY <2>1, <2>2
<1> QED  BY <1>3, <1>5 DEF WillInv, Willing

\* What reaches the trainer is of somebody willing, unless something met the training.
THEOREM OnlyWillingAreTrained == Spec => []TrainsOnlyWilling
<1>0. 0 \in Nat /\ Marks \subseteq Nat  BY MarksAreNumbers
<1>1. Init => WillInv
  <2> SUFFICES ASSUME Init PROVE WillInv  OBVIOUS
  <2>1. Versions = {1} /\ Asked(look[1]) /\ calls = 0  BY DEF Init, Versions, Asked
  <2>2. \A c \in Callers : call[c] = Idle  BY DEF Init
  <2>3. Asked(Idle.seen) /\ Idle.n <= calls /\ Idle.pc = "idle"  BY <2>1 DEF Idle, Asked
  <2> QED  BY <2>1, <2>2, <2>3 DEF WillInv, MarksAsked, Willing, Training, At
<1>2. TypeOK /\ WillInv /\ [Next]_vars => WillInv'
  <2> SUFFICES ASSUME TypeOK, WillInv, [Next]_vars PROVE WillInv'  OBVIOUS
  <2>0. call \in [Callers -> Calls] /\ calls \in Nat  BY <1>0 DEF TypeOK
  <2>a. \A c \in Callers : Asked(call[c].seen) /\ call[c].n <= calls  BY DEF WillInv, MarksAsked
  <2>i. Asked(Idle.seen) /\ Idle.n <= calls /\ Idle.pc = "idle" /\ Idle.op # "train"
    BY <2>0 DEF Idle, Asked
  <2>t. call' \in [Callers -> Calls]  BY TypeStep DEF TypeOK
  <2>1. ASSUME NEW c \in Callers, NEW op \in Edits, AskEdit(c, op) PROVE WillInv'
    <3>1. /\ call'[c].n = calls + 1 /\ call'[c].op = op /\ call'[c].seen = [f \in Fields |-> 0]
          /\ \A d \in Callers \ {c} : call'[d] = call[d]
      BY <2>0, <2>1 DEF AskEdit, Begin, Ask, Idle
    <3>2. op # "train" /\ \A f \in Fields : call'[c].seen[f] <= calls  BY <2>0, <3>1 DEF Edits
    <3>3. young' \subseteq young \cup {calls + 1} /\ calls' = calls + 1
      BY <2>1 DEF AskEdit, Begin, Count
    <3> QED  BY <2>t, <2>1, <3>1, <3>2, <3>3, WillBegins DEF AskEdit, store
  <2>2. ASSUME NEW c \in Callers, AskTraining(c) PROVE WillInv'
    <3>1. /\ call'[c].n = calls + 1 /\ call'[c].seen = [f \in Fields |-> 0]
          /\ call'[c].pc = "minor" /\ call'[c].at = current
          /\ \A d \in Callers \ {c} : call'[d] = call[d]
      BY <2>0, <2>2 DEF AskTraining, Begin, Ask, Idle
    <3>2. \A f \in Fields : call'[c].seen[f] <= calls  BY <2>0, <3>1
    <3>3. calls' = calls + 1 /\ moved \subseteq moved' \cup {c}  BY <2>2 DEF AskTraining, Begin, Count
    <3> QED  BY <2>t, <2>2, <3>1, <3>2, <3>3, WillBegins DEF AskTraining, store, people
  <2>3. ASSUME NEW c \in Callers, NEW v \in Versions, Resolve(c, v) PROVE WillInv'
    <3>1. /\ call'[c].n = calls + 1 /\ call'[c].op = "generate" /\ call'[c].seen = look[v]
          /\ \A d \in Callers \ {c} : call'[d] = call[d]
      BY <2>0, <2>3 DEF Resolve, Begin, Ask, Idle
    <3>2. \A f \in Fields : call'[c].seen[f] <= calls  BY <3>1 DEF WillInv, MarksAsked, Asked
    <3>3. calls' = calls + 1  BY <2>3 DEF Resolve, Begin, Count
    <3> QED  BY <2>t, <2>3, <3>1, <3>2, <3>3, WillBegins DEF Resolve, store, people
  <2>4. ASSUME NEW c \in Callers, Check(c) \/ ReadLook(c) \/ ClearAnchor(c) \/ Insert(c) \/ Remove(c) \/ Accept(c)
        PROVE WillInv'
    <3>1. UNCHANGED <<look, current, consent, young, calls, moved>>
      BY <2>4 DEF Check, ReadLook, ClearAnchor, Insert, Remove, Accept, store, people
    <3>2. \A d \in Callers \ {c} : call'[d] = call[d]
      BY <2>0, <2>4 DEF Check, ReadLook, ClearAnchor, Insert, Remove, Accept, Goto, End
    <3>3. \/ call'[c] = Idle
          \/ /\ call'[c].n = call[c].n /\ call'[c].op = call[c].op /\ call'[c].at = call[c].at
             /\ call'[c].seen = call[c].seen \/ call'[c].seen = look[call[c].at]
             /\ call[c].pc # "idle" /\ call'[c].pc \in {"fork", "edit", "write", "insert"}
      <4>0. call[c] \in Calls  BY AtTyped
      <4>1. CASE Remove(c) \/ Accept(c)
        BY <2>0, <4>1 DEF Remove, Accept, End
      <4>5. CASE Insert(c)
        BY <2>0, <4>0, <4>5 DEF Insert, End, At, Calls
      <4>2. CASE Check(c)
        BY <2>0, <4>0, <4>2 DEF Check, Goto, At, Calls
      <4>3. CASE ReadLook(c)
        BY <2>0, <4>0, <4>3 DEF ReadLook, At, Calls
      <4>4. CASE ClearAnchor(c)
        BY <2>0, <4>0, <4>4 DEF ClearAnchor, Goto, At, Calls
      <4> QED  BY <2>4, <4>1, <4>2, <4>3, <4>4, <4>5
    <3>4. Asked(look[call[c].at])  BY AtTyped DEF WillInv, MarksAsked, Versions
    <3>5. Asked(call'[c].seen) /\ call'[c].n <= calls  BY <2>a, <2>i, <3>3, <3>4
    <3>6. Training(c)' => /\ Training(c) /\ call'[c].at = call[c].at
                          /\ call'[c].pc \in {"fork", "edit", "write", "insert"}
      BY <2>i, <3>3 DEF Training, At
    <3> QED  BY <3>1, <3>2, <3>5, <3>6, WillGoesOn
  <2>5. ASSUME NEW c \in Callers, Fork(c) PROVE WillInv'
    <3>1. CASE current < Newest
      <4>1. call'[c] = Idle /\ \A d \in Callers \ {c} : call'[d] = call[d]
        BY <2>0, <2>5, <3>1 DEF Fork, End
      <4>2. UNCHANGED <<look, current, consent, young, calls, moved>>
        BY <2>5, <3>1 DEF Fork, store, people
      <4> QED  BY <2>a, <2>i, <4>1, <4>2, WillStays
    <3>2. CASE ~(current < Newest)
      <4>1. current \in 1 .. Len(look) /\ Len(look) \in Nat  BY DEF TypeOK, Versions
      <4>2. /\ call'[c].n = call[c].n /\ call'[c].seen = call[c].seen /\ call'[c].op = call[c].op
            /\ call[c].pc # "idle" /\ \A d \in Callers \ {c} : call'[d] = call[d]
        BY <2>0, <2>5, <3>2 DEF Fork, At, Calls
      <4>3. calls' = calls /\ moved' = moved \cup Trainers  BY <2>5, <3>2 DEF Fork
      <4>4. \A d \in Callers : Training(d)' => d \in moved'
        BY <4>2, <4>3 DEF Training, Trainers, At
      <4>5. look[current] \in Looks  BY <4>1, ElementOfSeq DEF TypeOK
      <4>6. /\ Len(look') = Len(look) + 1 /\ look'[Len(look) + 1] = look[current]
            /\ \A v \in 1 .. Len(look) : look'[v] = look[v]
        BY <4>5, <2>5, <3>2, AppendProperties DEF Fork, TypeOK
      <4>7. MarksAsked'
        <5>1. \A v \in 1 .. Len(look) : Asked(look[v])  BY DEF WillInv, MarksAsked, Versions
        <5>2. \A v \in 1 .. Len(look) + 1 : Asked(look'[v])
          BY <4>1, <4>6, <5>1
        <5>3. \A d \in Callers : Asked(call'[d].seen) /\ call'[d].n <= calls  BY <2>a, <4>2
        <5> QED  BY <4>3, <4>6, <5>2, <5>3 DEF MarksAsked, Asked, Versions
      <4> QED  BY <4>4, <4>7 DEF WillInv, Willing
    <3> QED  BY <3>1, <3>2
  <2>6. ASSUME NEW c \in Callers, WriteLook(c) PROVE WillInv'
    <3> DEFINE v == call[c].at
    <3>1. call'[c] = Idle /\ \A d \in Callers \ {c} : call'[d] = call[d]
      BY <2>0, <2>6 DEF WriteLook, End
    <3>2. /\ UNCHANGED <<current, consent, young, calls>>
          /\ moved' = moved \cup {d \in Trainers : call[d].at = v}
      BY <2>6 DEF WriteLook, people
    <3>3. /\ Len(look') = Len(look) /\ \A w \in Versions \ {v} : look'[w] = look[w]
          /\ look'[v] = [call[c].seen EXCEPT ![call[c].field] = call[c].n]
      BY <2>6, AtTyped DEF WriteLook, TypeOK, Versions
    <3>4. Asked(look'[v])  BY <2>a, <3>3, AtTyped DEF Asked, Looks
    <3> HIDE DEF v
    <3>5. MarksAsked'
      <4>1. \A w \in Versions : Asked(look'[w])  BY <3>3, <3>4 DEF WillInv, MarksAsked
      <4>2. \A d \in Callers : Asked(call'[d].seen) /\ call'[d].n <= calls  BY <2>a, <2>i, <3>1
      <4> QED  BY <3>2, <3>3, <4>1, <4>2 DEF MarksAsked, Asked, Versions
    <3>6. ASSUME NEW d \in Callers, d \notin moved', Training(d)'
          PROVE  /\ call'[d].at = current'
                 /\ call'[d].pc \in {"load", "submit", "file", "select", "row"} => consent'
                 /\ call'[d].pc \in {"consent", "load", "submit", "file", "select", "row"} => ~Minor(current)'
      <4>1. d # c /\ call'[d] = call[d]  BY <2>i, <3>1, <3>6 DEF Training, At
      <4>2. Training(d) /\ d \notin moved  BY <3>2, <3>6, <4>1 DEF Training, At
      <4>3. current # v /\ current \in Versions /\ call[d].at = current
        BY <3>2, <3>6, <4>2 DEF Trainers, WillInv, Willing, TypeOK
      <4>4. Minor(current)' => Minor(current)  BY <3>2, <3>3, <4>3 DEF Minor
      <4> QED  BY <3>2, <4>1, <4>2, <4>4 DEF WillInv, Willing
    <3> QED  BY <3>5, <3>6 DEF WillInv, Willing
  <2>7. ASSUME NEW c \in Callers, TrainStep(c) PROVE WillInv'
    <3>1. UNCHANGED <<look, current, consent, young, calls, moved>>
      BY <2>7 DEF TrainStep, AssertNotMinor, AssertConsent, LoadSources, Train, WriteFile, SelectIdentity,
                  WriteIdentity, store, people
    <3>2. \A d \in Callers \ {c} : call'[d] = call[d]
      BY <2>0, <2>7 DEF TrainStep, AssertNotMinor, AssertConsent, LoadSources, Train, WriteFile,
                        SelectIdentity, WriteIdentity, Goto, End
    <3>3. \/ call'[c] = Idle
          \/ /\ call'[c].n = call[c].n /\ call'[c].seen = call[c].seen /\ call'[c].op = call[c].op
             /\ call'[c].at = call[c].at /\ call[c].pc # "idle"
             /\ \/ call[c].pc = "minor" /\ call'[c].pc = "consent" /\ ~Minor(current)
                \/ call[c].pc = "consent" /\ call'[c].pc = "load" /\ consent
                \/ call[c].pc \in {"load", "submit", "file", "select", "row"}
      BY <2>0, <2>7 DEF TrainStep, AssertNotMinor, AssertConsent, LoadSources, Train, WriteFile,
                        SelectIdentity, WriteIdentity, Goto, End, At, Calls
    <3>4. Asked(call'[c].seen) /\ call'[c].n <= calls  BY <2>a, <2>i, <3>3
    <3>5. Training(c)' => call'[c] # Idle  BY <2>i DEF Training, At
    <3> QED  BY <3>1, <3>2, <3>3, <3>4, <3>5, WillGoesOn DEF Training, At
  <2>8. ASSUME (\E v \in Versions : Switch(v)) \/ SetConsent PROVE WillInv'
    <3>1. /\ Len(look') = Len(look) /\ look' = look /\ call' = call /\ calls' = calls + 1
          /\ moved' = moved \cup Trainers
      BY <2>8 DEF Switch, SetConsent, Count, store
    <3>2. \A d \in Callers : Training(d)' => d \in moved'  BY <3>1 DEF Training, Trainers, At
    <3>3. ASSUME NEW l \in Looks, Asked(l) PROVE \A f \in Fields : l[f] <= calls + 1
      <4>1. \A f \in Fields : l[f] \in Nat /\ l[f] <= calls  BY <1>0, <3>3 DEF Looks, Asked
      <4> QED  BY <2>0, <4>1
    <3>4. \A d \in Callers : call[d].seen \in Looks /\ call[d].n \in Nat  BY <1>0, AtTyped
    <3>5. \A d \in Callers : call[d].n <= calls + 1  BY <2>0, <2>a, <3>4
    <3>6. \A v \in Versions : look[v] \in Looks /\ Asked(look[v])
      BY ElementOfSeq DEF TypeOK, Versions, WillInv, MarksAsked
    <3>7. MarksAsked'  BY <2>a, <3>1, <3>3, <3>4, <3>5, <3>6 DEF MarksAsked, Asked, Versions
    <3> QED  BY <3>2, <3>7 DEF WillInv, Willing
  <2>9. CASE Crash
    <3>1. UNCHANGED <<look, current, consent, young, calls, moved>>  BY <2>9 DEF Crash, store, people
    <3>2. \A d \in Callers : call'[d] = Idle  BY <2>9 DEF Crash
    <3> QED  BY <2>i, <3>1, <3>2, WillStays
  <2>10. CASE UNCHANGED vars
    <3>1. UNCHANGED <<look, current, consent, young, calls, moved, call>>  BY <2>10 DEF vars, store, people
    <3> QED  BY <2>a, <3>1, WillStays
  <2> QED
    BY <2>1, <2>2, <2>3, <2>4, <2>5, <2>6, <2>7, <2>8, <2>9, <2>10 DEF Next, EditStep
<1>3. WillInv => TrainsOnlyWilling
  BY DEF WillInv, Willing, TrainsOnlyWilling
<1> QED  BY <1>1, <1>2, <1>3, CharactersTypes, PTL DEF Spec

(***************************************************************************)
(* Identities.                                                             *)

\* A request carries the number of its call, which no other request and no identity
\* has; an identity carries the number of the call that inserted it.
Numbered ==
    /\ \A r \in identities : r.id \in 1 .. calls /\ r.version \in Versions
    /\ \A c \in Callers : ~At(c, "idle") => call[c].n \in 1 .. calls
                                             /\ \A r \in identities : r.id # call[c].n
    /\ \A c, d \in Callers : ~At(c, "idle") /\ ~At(d, "idle") /\ call[c].n = call[d].n => c = d

\* Only trainings save, and a row that was found stays where it is, for other rows have
\* other numbers.
Found ==
    /\ \A c \in Callers : call[c].pc \in {"minor", "consent", "load", "submit", "file", "select", "row"} =>
                             call[c].op = "train"
    /\ \A c \in Callers : At(c, "row") /\ call[c].id # 0 =>
          \E r \in identities : r.version = call[c].at /\ r.id = call[c].id
    /\ \A r, s \in identities : r.id = s.id => r.version = s.version

\* Past its file, short of its row.
Wrote(c, v) == call[c].pc \in {"select", "row"} /\ call[c].at = v

\* A version whose trainings did not meet: one of them saves at a time; behind its file
\* the disk is its own; it finds no row only if there is none; and the one row there is
\* describes the disk unless the training wrote the file already.
Orderly(v) ==
    /\ \A c, d \in Callers : Saving(c, v) /\ Saving(d, v) => c = d
    /\ \A c \in Callers : Wrote(c, v) /\ call[c].result = "ready" => disk[v] = call[c].n
    /\ \A c \in Callers : At(c, "row") /\ call[c].at = v /\ call[c].id = 0 =>
          \A r \in identities : r.version # v
    /\ \A r, s \in identities : r.version = v /\ s.version = v => r = s
    /\ \A r \in identities : r.version = v /\ r.status = "ready" =>
          disk[v] = r.file \/ \E c \in Callers : Wrote(c, v)

IdentityInv == Numbered /\ Found /\ \A v \in Versions \ torn : Orderly(v)

\* A step of one request outside the saving part of a training.
LEMMA IdentitiesStay ==
    ASSUME TypeOK, IdentityInv, NEW c \in Callers,
           \A d \in Callers \ {c} : call'[d] = call[d],
           call[c].pc \notin {"file", "select", "row"}, call'[c].pc \notin {"file", "select", "row"},
           call'[c].pc \in {"minor", "consent", "load", "submit"} => call'[c].op = "train",
           \/ call'[c].pc = "idle" /\ calls' = calls
           \/ call'[c].n = call[c].n /\ call[c].pc # "idle" /\ calls' = calls
           \/ call'[c].n = calls + 1 /\ calls' = calls + 1,
           UNCHANGED <<identities, torn>>,
           Len(look) <= Len(look'), Len(look') \in Nat, \A v \in Versions : disk'[v] = disk[v]
    PROVE  IdentityInv'
<1>0. calls \in Nat /\ Len(look) \in Nat  BY MarksAreNumbers DEF TypeOK
<1>1. Numbered'
  <2>1. \A r \in identities : r.id \in 1 .. calls /\ r.version \in Versions  BY DEF IdentityInv, Numbered
  <2>2. \A r \in identities : r.id \in 1 .. calls' /\ r.version \in Versions' /\ r.id # calls + 1
    BY <1>0, <2>1 DEF Versions
  <2>3. \A d \in Callers : ~At(d, "idle") => /\ call[d].n \in 1 .. calls' /\ call[d].n # calls + 1
                                            /\ \A r \in identities : r.id # call[d].n
    BY <1>0 DEF IdentityInv, Numbered
  <2>4. \A d \in Callers : ~At(d, "idle")' => \/ d = c /\ call'[d].n = calls + 1 /\ calls' = calls + 1
                                              \/ ~At(d, "idle") /\ call'[d].n = call[d].n
    BY DEF At
  <2>5. \A d \in Callers \ {c} : call'[d].n = call[d].n /\ (~At(d, "idle")' => ~At(d, "idle"))  BY DEF At
  <2>6. ASSUME NEW d \in Callers, ~At(d, "idle")'
        PROVE  call'[d].n \in 1 .. calls' /\ \A r \in identities : r.id # call'[d].n
    BY <1>0, <2>2, <2>3, <2>4, <2>6
  <2>7. ASSUME NEW d \in Callers, NEW e \in Callers, ~At(d, "idle")', ~At(e, "idle")', call'[d].n = call'[e].n
        PROVE  d = e
    BY <2>3, <2>4, <2>7 DEF IdentityInv, Numbered
  <2> QED  BY <2>2, <2>6, <2>7 DEF Numbered
<1>2. Found'  BY DEF IdentityInv, Found, At
<1>3. ASSUME NEW v \in Versions' \ torn' PROVE Orderly(v)'
  <2>1. \A d \in Callers : /\ (Saving(d, v)' <=> Saving(d, v)) /\ (Wrote(d, v)' <=> Wrote(d, v))
                           /\ (At(d, "row")' <=> At(d, "row"))
                           /\ Saving(d, v) => call'[d] = call[d]
    BY DEF Saving, Wrote, At
  <2>2. CASE v \in Versions
    <3>1. Orderly(v) /\ disk'[v] = disk[v]  BY <1>3, <2>2 DEF IdentityInv
    <3>2. \A d \in Callers : Wrote(d, v) => Saving(d, v)  BY DEF Wrote, Saving
    <3>3. \A d \in Callers : At(d, "row") /\ call[d].at = v => Saving(d, v)  BY DEF At, Saving
    <3>4. \A d \in Callers : At(d, "row")' /\ call'[d].at = v => Saving(d, v)'  BY DEF At, Saving
    <3> QED  BY <2>1, <3>1, <3>2, <3>3, <3>4 DEF Orderly
  <2>3. CASE v \notin Versions
    <3>1. \A d \in Callers : ~Saving(d, v)  BY <2>3 DEF Saving, TypeOK
    <3>2. \A d \in Callers : ~Saving(d, v)' /\ ~Wrote(d, v)' /\ ~(At(d, "row")' /\ call'[d].at = v)
      BY <2>1, <3>1 DEF Saving, Wrote, At
    <3>3. \A r \in identities : r.version # v  BY <2>3 DEF IdentityInv, Numbered
    <3> QED  BY <3>2, <3>3 DEF Orderly
  <2> QED  BY <2>2, <2>3
<1> QED  BY <1>1, <1>2, <1>3 DEF IdentityInv

\* A step of a training up to its row.
LEMMA TrainingGoesOn ==
    ASSUME TypeOK, IdentityInv, NEW c \in Callers, NEW v \in Versions, call[c].at = v,
           \A d \in Callers \ {c} : call'[d] = call[d],
           call[c].pc \in {"submit", "file", "select"}, call[c].op = "train", call'[c].op = "train",
           call'[c].n = call[c].n, call'[c].at = v, call'[c].pc \in {"file", "select", "row"},
           UNCHANGED <<look, calls, identities>>, torn \subseteq torn',
           \A w \in Versions \ {v} : disk'[w] = disk[w],
           call'[c].pc = "row" /\ call'[c].id # 0 =>
              \E r \in identities : r.version = v /\ r.id = call'[c].id,
           v \notin torn' => Orderly(v)'
    PROVE  IdentityInv'
<1>1. Numbered'
  <2>1. \A d \in Callers : call'[d].n = call[d].n /\ (~At(d, "idle")' => ~At(d, "idle"))  BY DEF At
  <2> QED  BY <2>1 DEF IdentityInv, Numbered, Versions
<1>2. Found'  BY DEF IdentityInv, Found, At
<1>3. ASSUME NEW w \in Versions' \ torn' PROVE Orderly(w)'
  <2>1. CASE v = w  BY <1>3, <2>1
  <2>2. CASE v # w
    <3>1. Orderly(w) /\ disk'[w] = disk[w]  BY <1>3, <2>2 DEF IdentityInv, Versions
    <3>2. \A d \in Callers : call'[d] = call[d] \/ (call[d].at # w /\ call'[d].at # w)  BY <2>2
    <3> QED  BY <3>1, <3>2 DEF Orderly, Saving, Wrote, At
  <2> QED  BY <2>1, <2>2
<1> QED  BY <1>1, <1>2, <1>3 DEF IdentityInv

LEMMA IdentitiesGoOn == TypeOK /\ IdentityInv /\ [Next]_vars => IdentityInv'
<1> SUFFICES ASSUME TypeOK, IdentityInv, [Next]_vars PROVE IdentityInv'  OBVIOUS
<1>0. call \in [Callers -> Calls] /\ calls \in Nat /\ Len(look) \in Nat /\ Idle.pc = "idle"
  BY MarksAreNumbers DEF TypeOK, Idle
<1>1. ASSUME NEW c \in Callers,
             \/ \E op \in Edits : AskEdit(c, op)
             \/ AskTraining(c)
             \/ \E v \in Versions : Resolve(c, v)
      PROVE  IdentityInv'
  <2>1. /\ call'[c].n = calls + 1 /\ \A d \in Callers \ {c} : call'[d] = call[d]
        /\ \/ call'[c].pc \in {"check", "accept"}
           \/ call'[c].pc = "minor" /\ call'[c].op = "train"
    <3>1. ASSUME NEW op \in Edits, AskEdit(c, op)
          PROVE  call'[c].n = calls + 1 /\ call'[c].pc = "check" /\ \A d \in Callers \ {c} : call'[d] = call[d]
      BY <1>0, <3>1 DEF AskEdit, Begin, Ask, Idle
    <3>2. ASSUME AskTraining(c)
          PROVE  /\ call'[c].n = calls + 1 /\ call'[c].pc = "minor" /\ call'[c].op = "train"
                 /\ \A d \in Callers \ {c} : call'[d] = call[d]
      BY <1>0, <3>2 DEF AskTraining, Begin, Ask, Idle
    <3>3. ASSUME NEW v \in Versions, Resolve(c, v)
          PROVE  call'[c].n = calls + 1 /\ call'[c].pc = "accept" /\ \A d \in Callers \ {c} : call'[d] = call[d]
      BY <1>0, <3>3 DEF Resolve, Begin, Ask, Idle
    <3> QED  BY <1>1, <3>1, <3>2, <3>3
  <2>2. calls' = calls + 1 /\ call[c].pc = "idle"
    BY <1>1 DEF AskEdit, AskTraining, Resolve, Begin, Count, At
  <2>3. UNCHANGED <<identities, torn, look, disk>>
    BY <1>1 DEF AskEdit, AskTraining, Resolve, store, made, ghosts
  <2> QED  BY <1>0, <2>1, <2>2, <2>3, IdentitiesStay
<1>2. ASSUME NEW c \in Callers, EditStep(c) \/ Accept(c) PROVE IdentityInv'
  <2>1. CASE Fork(c) /\ ~(current < Newest)
    <3>1. /\ call'[c].n = call[c].n /\ call[c].pc = "fork" /\ call'[c].pc = "edit"
          /\ \A d \in Callers \ {c} : call'[d] = call[d]
      BY <1>0, <2>1 DEF Fork, At, Calls
    <3>2. UNCHANGED <<identities, torn, calls>>  BY <2>1 DEF Fork
    <3>3. Len(look') = Len(look) + 1 /\ \A v \in Versions : disk'[v] = disk[v]
      <4>1. 0 \in Marks  BY MarksAreNumbers
      <4>2. current \in 1 .. Len(look)  BY DEF TypeOK, Versions
      <4>3. look[current] \in Looks  BY <4>2, ElementOfSeq DEF TypeOK
      <4> QED  BY <2>1, <4>1, <4>3, AppendProperties DEF Fork, TypeOK, Versions
    <3> QED  BY <1>0, <3>1, <3>2, <3>3, IdentitiesStay
  <2>2. CASE ~(Fork(c) /\ ~(current < Newest))
    <3>1. UNCHANGED <<identities, torn, calls, disk>> /\ Len(look') = Len(look)
      <4>1. CASE WriteLook(c)  BY <4>1 DEF WriteLook, made, ghosts, TypeOK
      <4>2. CASE Fork(c)  BY <2>2, <4>2 DEF Fork, store
      <4>3. CASE Check(c) \/ ReadLook(c) \/ ClearAnchor(c) \/ Insert(c) \/ Remove(c) \/ Accept(c)
        BY <4>3 DEF Check, ReadLook, ClearAnchor, Insert, Remove, Accept, store, made, ghosts
      <4> QED  BY <1>2, <4>1, <4>2, <4>3 DEF EditStep
    <3>2. /\ \A d \in Callers \ {c} : call'[d] = call[d]
          /\ call[c].pc \in {"check", "fork", "edit", "write", "insert", "accept"}
          /\ \/ call'[c] = Idle
             \/ call'[c].n = call[c].n /\ call'[c].pc \in {"fork", "edit", "write", "insert"}
      BY <1>0, <1>2, <2>2 DEF EditStep, Check, Fork, ReadLook, WriteLook, ClearAnchor, Insert, Remove, Accept,
                        Goto, End, At, Calls
    <3> QED  BY <1>0, <3>1, <3>2, IdentitiesStay
  <2> QED  BY <2>1, <2>2
<1>3. ASSUME NEW c \in Callers, AssertNotMinor(c) \/ AssertConsent(c) \/ LoadSources(c) PROVE IdentityInv'
  <2>1. UNCHANGED <<identities, torn, calls, disk, look>>
    BY <1>3 DEF AssertNotMinor, AssertConsent, LoadSources, store, made, ghosts
  <2>2. /\ \A d \in Callers \ {c} : call'[d] = call[d]
        /\ call[c].pc \in {"minor", "consent", "load"}
        /\ \/ call'[c] = Idle
           \/ call'[c].n = call[c].n /\ call'[c].op = call[c].op /\ call'[c].pc \in {"consent", "load", "submit"}
    BY <1>0, <1>3 DEF AssertNotMinor, AssertConsent, LoadSources, Goto, End, At, Calls
  <2>3. call[c].op = "train"  BY <2>2 DEF IdentityInv, Found
  <2> QED  BY <1>0, <2>1, <2>2, <2>3, IdentitiesStay
<1>4. ASSUME NEW c \in Callers, NEW result \in {"ready", "failed"}, Train(c, result) PROVE IdentityInv'
  <2>v. PICK v \in Versions : call[c].at = v  BY DEF TypeOK
  <2>1. /\ \A d \in Callers \ {c} : call'[d] = call[d]
        /\ call[c].pc = "submit" /\ call'[c].n = call[c].n /\ call'[c].at = v /\ call'[c].op = call[c].op
        /\ call'[c].result = result
        /\ call'[c].pc = IF result = "ready" THEN "file" ELSE "select"
    BY <1>0, <1>4, <2>v DEF Train, At, Calls
  <2>2. UNCHANGED <<look, calls, identities, disk>> /\ torn \subseteq torn'
    BY <1>4 DEF Train, store, made
  <2>3. call[c].op = "train"  BY <2>1 DEF IdentityInv, Found
  <2>4. ASSUME v \notin torn' PROVE Orderly(v)'
    <3>1. \A d \in Callers \ {c} : ~Saving(d, v)  BY <1>4, <2>v, <2>4 DEF Train
    <3>2. v \in Versions \ torn  BY <2>2, <2>4 DEF TypeOK
    <3>3. Orderly(v)  BY <3>2 DEF IdentityInv
    <3>4. \A d \in Callers : ~Saving(d, v)  BY <2>1, <3>1 DEF Saving
    <3>5. \A d \in Callers : ~Wrote(d, v)  BY <3>4 DEF Saving, Wrote
    <3>6. \A d \in Callers : Saving(d, v)' => d = c  BY <3>1, <2>1 DEF Saving
    <3>7. \A d \in Callers : Wrote(d, v)' => call'[d].result # "ready"
      BY <3>5, <2>1 DEF Wrote
    <3>8. \A d \in Callers : ~(At(d, "row")' /\ call'[d].at = v)  BY <3>5, <2>1 DEF Wrote, At
    <3> QED  BY <2>2, <3>3, <3>5, <3>6, <3>7, <3>8 DEF Orderly
  <2> QED  BY <2>v, <2>1, <2>2, <2>3, <2>4, TrainingGoesOn
<1>5. ASSUME NEW c \in Callers, NEW result \in {"ready", "failed"}, WriteFile(c, result) PROVE IdentityInv'
  <2>v. PICK v \in Versions : call[c].at = v  BY DEF TypeOK
  <2>1. /\ \A d \in Callers \ {c} : call'[d] = call[d]
        /\ call[c].pc = "file" /\ call'[c].n = call[c].n /\ call'[c].at = v /\ call'[c].op = call[c].op
        /\ call'[c].pc = "select"
    BY <1>0, <1>5, <2>v DEF WriteFile, At, Calls
  <2>2. UNCHANGED <<look, calls, identities, torn>>  BY <1>5 DEF WriteFile, store, ghosts
  <2>3. call[c].op = "train"  BY <2>1 DEF IdentityInv, Found
  <2>5. disk'[v] = call[c].n /\ \A w \in Versions \ {v} : disk'[w] = disk[w]
    BY <1>5, <2>v DEF WriteFile, TypeOK, Versions
  <2>6. ASSUME v \notin torn' PROVE Orderly(v)'
    <3>1. Orderly(v)  BY <2>2, <2>6 DEF IdentityInv
    <3>2. Saving(c, v) /\ Wrote(c, v)'  BY <2>v, <2>1 DEF Saving, Wrote
    <3>3. \A d \in Callers \ {c} : ~Saving(d, v)  BY <3>1, <3>2 DEF Orderly
    <3>4. \A d \in Callers : Saving(d, v)' => d = c  BY <2>1, <3>3 DEF Saving
    <3>5. \A d \in Callers : Wrote(d, v)' => d = c  BY <3>4 DEF Saving, Wrote
    <3>6. \A d \in Callers : ~(At(d, "row")' /\ call'[d].at = v)  BY <3>4, <2>1 DEF Saving, At
    <3> QED  BY <2>1, <2>2, <2>5, <3>1, <3>2, <3>4, <3>5, <3>6 DEF Orderly
  <2> QED  BY <2>v, <2>1, <2>2, <2>3, <2>5, <2>6, TrainingGoesOn
<1>6. ASSUME NEW c \in Callers, SelectIdentity(c) PROVE IdentityInv'
  <2>v. PICK v \in Versions : call[c].at = v  BY DEF TypeOK
  <2> DEFINE known == {r \in identities : r.version = v}
  <2>1. PICK id \in IF known = {} THEN {0} ELSE {r.id : r \in known} :
              call' = [call EXCEPT ![c].pc = "row", ![c].id = id]
    BY <1>6, <2>v DEF SelectIdentity
  <2>2. /\ \A d \in Callers \ {c} : call'[d] = call[d]
        /\ call[c].pc = "select" /\ call'[c].n = call[c].n /\ call'[c].at = v /\ call'[c].op = call[c].op
        /\ call'[c].pc = "row" /\ call'[c].id = id /\ call'[c].result = call[c].result
    BY <1>0, <1>6, <2>v, <2>1 DEF SelectIdentity, At, Calls
  <2>3. UNCHANGED <<look, calls, identities, torn, disk>>  BY <1>6 DEF SelectIdentity, store, made, ghosts
  <2>4. call[c].op = "train"  BY <2>2 DEF IdentityInv, Found
  <2>5. \/ id = 0 /\ \A r \in identities : r.version # v
        \/ \E r \in identities : r.version = v /\ r.id = id
    OBVIOUS
  <2>6. id = 0 => \A r \in identities : r.version # v
    <3>1. \A r \in identities : r.id \in 1 .. calls  BY DEF IdentityInv, Numbered
    <3>2. \A r \in identities : r.id # 0  BY <3>1, <1>0
    <3> QED  BY <2>5, <3>2
  <2>8. ASSUME v \notin torn' PROVE Orderly(v)'
    <3>1. Orderly(v)  BY <2>3, <2>8 DEF IdentityInv
    <3>2. Saving(c, v) /\ Wrote(c, v)  BY <2>v, <2>2 DEF Saving, Wrote
    <3>3. \A d \in Callers : /\ (Saving(d, v)' <=> Saving(d, v)) /\ (Wrote(d, v)' <=> Wrote(d, v))
                             /\ call'[d].result = call[d].result /\ call'[d].n = call[d].n
      BY <2>2, <3>2 DEF Saving, Wrote
    <3>4. \A d \in Callers : At(d, "row")' /\ call'[d].at = v /\ call'[d].id = 0 =>
             \A r \in identities : r.version # v
      BY <2>2, <2>6, <3>1 DEF Orderly, At
    <3> HIDE DEF known
    <3> QED  BY <2>3, <3>1, <3>3, <3>4 DEF Orderly
  <2> HIDE DEF known
  <2> QED  BY <2>v, <2>2, <2>3, <2>4, <2>5, <2>8, TrainingGoesOn
<1>7. ASSUME NEW c \in Callers, WriteIdentity(c) PROVE IdentityInv'
  <2>k. PICK k \in Calls : call[c] = k  BY AtTyped
  <2>v. PICK v \in Versions : k.at = v  BY <2>k DEF TypeOK
  <2> DEFINE row == [id |-> IF k.id = 0 THEN k.n ELSE k.id, version |-> k.at, status |-> k.result,
                     file |-> IF k.result = "ready" THEN k.n ELSE 0]
  <2>1. /\ \A d \in Callers \ {c} : call'[d] = call[d]
        /\ call'[c] = Idle /\ k.pc = "row" /\ ~At(c, "idle")
    BY <1>0, <1>7, <2>k DEF WriteIdentity, End, At
  <2>2. UNCHANGED <<look, calls, torn, disk>>  BY <1>7 DEF WriteIdentity, store, ghosts
  <2>3. identities' = {r \in identities : r.id # row.id} \cup {row}  BY <1>7, <2>k DEF WriteIdentity
  <2>5. /\ row.version = v /\ row.status = k.result
        /\ row.status = "ready" => row.file = k.n
        /\ row.id = IF k.id = 0 THEN k.n ELSE k.id
    BY <2>v
  <2>6. k.id # 0 => \E r \in identities : r.version = v /\ r.id = k.id
    BY <2>k, <2>v, <2>1 DEF IdentityInv, Found, At
  <2>n. k.n \in 1 .. calls /\ \A r \in identities : r.id # k.n  BY <2>k, <2>1 DEF IdentityInv, Numbered
  <2> HIDE DEF row
  <2>7. row.id \in 1 .. calls /\ \A r \in identities : r.id = row.id => r.version = v
    BY <2>5, <2>6, <2>n DEF IdentityInv, Found, Numbered
  <2>8. \A d \in Callers \ {c} : ~At(d, "idle") => call[d].n # row.id
    BY <2>k, <2>1, <2>5, <2>6, <2>n DEF IdentityInv, Numbered
  <2>9. \A d \in Callers : ~At(d, "idle")' => d # c /\ ~At(d, "idle") /\ call'[d] = call[d]
    BY <1>0, <2>1 DEF At
  <2>10. Numbered'
    <3>1. \A r \in identities' : r.id \in 1 .. calls /\ r.version \in Versions
      BY <2>3, <2>5, <2>7 DEF IdentityInv, Numbered
    <3>2. \A d \in Callers : ~At(d, "idle")' => call'[d].n \in 1 .. calls /\ \A r \in identities' : r.id # call'[d].n
      BY <2>3, <2>8, <2>9 DEF IdentityInv, Numbered
    <3>3. \A d, e \in Callers : ~At(d, "idle")' /\ ~At(e, "idle")' /\ call'[d].n = call'[e].n => d = e
      BY <2>9 DEF IdentityInv, Numbered
    <3> QED  BY <2>2, <3>1, <3>2, <3>3 DEF Numbered, Versions
  <2>11. Found'
    <3>1. \A d \in Callers : call'[d].pc \in {"minor", "consent", "load", "submit", "file", "select", "row"} =>
             call'[d].op = "train"
      BY <1>0, <2>1 DEF IdentityInv, Found
    <3>2. ASSUME NEW d \in Callers, At(d, "row")', call'[d].id # 0
          PROVE  \E r \in identities' : r.version = call'[d].at /\ r.id = call'[d].id
      <4>1. call'[d] = call[d] /\ At(d, "row")  BY <2>9, <3>2 DEF At
      <4>2. PICK r \in identities : r.version = call[d].at /\ r.id = call[d].id
        BY <3>2, <4>1 DEF IdentityInv, Found
      <4>3. CASE r.id # row.id  BY <2>3, <4>1, <4>2, <4>3
      <4>4. CASE r.id = row.id
        <5>1. r.version = row.version  BY <2>5, <2>7, <4>4
        <5> QED  BY <2>3, <4>1, <4>2, <4>4, <5>1
      <4> QED  BY <4>3, <4>4
    <3>3. \A r, s \in identities' : r.id = s.id => r.version = s.version
      BY <2>3, <2>5 DEF IdentityInv, Found
    <3> QED  BY <3>1, <3>2, <3>3 DEF Found
  <2>12. ASSUME NEW w \in Versions' \ torn' PROVE Orderly(w)'
    <3>1. w \in Versions \ torn /\ Orderly(w) /\ disk'[w] = disk[w]
      BY <2>2 DEF IdentityInv, Versions
    <3>2. \A d \in Callers : /\ Saving(d, w)' => d # c /\ Saving(d, w)
                             /\ Wrote(d, w)' => d # c /\ Wrote(d, w)
                             /\ At(d, "row")' => d # c /\ At(d, "row")
      BY <1>0, <2>1 DEF Saving, Wrote, At
    <3>3. \A d \in Callers : d # c /\ Wrote(d, w) => Wrote(d, w)'  BY <2>1 DEF Wrote
    <3>4. CASE w # v
      <4>1. ~Wrote(c, w)  BY <2>k, <2>v, <3>4 DEF Wrote
      <4>2. \A r \in identities' : r.version = w => r \in identities  BY <2>3, <2>5, <3>4
      <4> QED  BY <2>1, <3>1, <3>2, <3>3, <4>1, <4>2 DEF Orderly
    <3>5. CASE w = v
      <4>1. Saving(c, v) /\ Wrote(c, v)  BY <2>k, <2>v, <2>1 DEF Saving, Wrote
      <4>2. \A d \in Callers \ {c} : ~Saving(d, v)  BY <3>1, <3>5, <4>1 DEF Orderly
      <4>3. \A d \in Callers : ~Saving(d, v)' /\ ~Wrote(d, v)' /\ ~(At(d, "row")' /\ call'[d].at = v)
        BY <3>2, <3>5, <4>2, <2>1 DEF Saving, Wrote, At
      <4>4. \A r \in identities' : r.version = v => r = row
        <5>1. CASE k.id = 0
          <6>1. \A r \in identities : r.version # v
            BY <2>k, <2>v, <2>1, <3>1, <3>5, <5>1 DEF Orderly, At
          <6> QED  BY <2>3, <6>1
        <5>2. CASE k.id # 0
          <6>1. \A r \in identities : r.version = v => r.id = row.id
            BY <2>5, <2>6, <3>1, <3>5, <5>2 DEF Orderly
          <6> QED  BY <2>3, <6>1
        <5> QED  BY <5>1, <5>2
      <4>5. row.status = "ready" => disk[v] = row.file
        BY <2>k, <2>5, <3>1, <3>5, <4>1 DEF Orderly
      <4> QED  BY <2>2, <3>1, <3>5, <4>3, <4>4, <4>5 DEF Orderly
    <3> QED  BY <3>4, <3>5
  <2> QED  BY <2>10, <2>11, <2>12 DEF IdentityInv
<1>8. ASSUME (\E v \in Versions : Switch(v)) \/ SetConsent PROVE IdentityInv'
  <2>1. UNCHANGED <<look, call, identities, disk, torn>> /\ calls' = calls + 1
    BY <1>8 DEF Switch, SetConsent, Count, store, made, ghosts
  <2>2. Numbered'
    <3>1. \A i \in 1 .. calls : i \in 1 .. calls'  BY <1>0, <2>1
    <3> QED  BY <2>1, <3>1 DEF IdentityInv, Numbered, Versions, At
  <2> QED  BY <2>1, <2>2 DEF IdentityInv, Found, Orderly, Saving, Wrote, At, Versions
<1>9. CASE Crash
  <2>1. /\ UNCHANGED <<look, identities, disk, calls>> /\ \A d \in Callers : call'[d] = Idle
        /\ torn' = torn \cup {call[c].at : c \in {d \in Callers : Training(d) /\ call[d].pc \in {"select", "row"}}}
    BY <1>9 DEF Crash, store, made
  <2>2. \A d \in Callers : call'[d].pc = "idle"  BY <1>0, <2>1
  <2>3. Numbered'  BY <2>1, <2>2 DEF IdentityInv, Numbered, At, Versions
  <2>4. Found'  BY <2>1, <2>2 DEF IdentityInv, Found, At
  <2>5. ASSUME NEW v \in Versions' \ torn' PROVE Orderly(v)'
    <3>1. v \in Versions \ torn /\ Orderly(v)  BY <2>1 DEF IdentityInv, Versions
    <3>2. \A d \in Callers : Wrote(d, v) => d \in {e \in Callers : Training(e) /\ call[e].pc \in {"select", "row"}}
      BY DEF IdentityInv, Found, Wrote, Training, At
    <3>3. \A d \in Callers : ~Wrote(d, v)  BY <2>1, <2>5, <3>2 DEF Wrote
    <3> QED  BY <2>1, <2>2, <3>1, <3>3 DEF Orderly, Saving, Wrote, At
  <2> QED  BY <2>3, <2>4, <2>5 DEF IdentityInv
<1>10. CASE UNCHANGED vars
  <2>1. UNCHANGED <<look, call, calls, identities, disk, torn>>
    BY <1>10 DEF vars, store, made, ghosts
  <2> QED  BY <2>1 DEF IdentityInv, Numbered, Found, Orderly, Saving, Wrote, At, Versions
<1> QED
  BY <1>1, <1>2, <1>3, <1>4, <1>5, <1>6, <1>7, <1>8, <1>9, <1>10 DEF Next, TrainStep

LEMMA IdentitiesBegin == Init => IdentityInv
  BY DEF Init, IdentityInv, Numbered, Found, Orderly, Saving, Wrote, At, Idle, Versions

LEMMA IdentitiesKept == Spec => []IdentityInv
  BY IdentitiesBegin, IdentitiesGoOn, CharactersTypes, PTL DEF Spec

\* An identity that is ready describes the file on disk, unless a training is about to
\* see to it, trainings met, or one was cut off behind its file.
THEOREM FilesAreTheirs == Spec => []IdentityHasFile
<1>1. TypeOK /\ IdentityInv => IdentityHasFile
  <2> SUFFICES ASSUME TypeOK, IdentityInv, NEW r \in identities, r.version \notin torn,
                      r.status # "failed", disk[r.version] # r.file
               PROVE  \E c \in Callers : Saving(c, r.version)
    BY DEF IdentityHasFile
  <2>1. r.status = "ready"  BY DEF TypeOK, Identities
  <2>2. r.version \in Versions  BY DEF IdentityInv, Numbered
  <2>3. \E c \in Callers : Wrote(c, r.version)  BY <2>1, <2>2 DEF IdentityInv, Orderly
  <2> QED  BY <2>3 DEF Wrote, Saving
<1> QED  BY <1>1, IdentitiesKept, CharactersTypes, PTL

\* A version has one identity at most, unless trainings of it met.
THEOREM IdentityIsOne == Spec => []OneIdentity
<1>1. TypeOK /\ IdentityInv => OneIdentity
  <2> SUFFICES ASSUME TypeOK, IdentityInv, NEW v \in Versions \ torn
               PROVE  Cardinality({r \in identities : r.version = v}) <= 1
    BY DEF OneIdentity
  <2> DEFINE S == {r \in identities : r.version = v}
  <2> SUFFICES Cardinality(S) <= 1  OBVIOUS
  <2>1. \A r, s \in S : r = s  BY DEF IdentityInv, Orderly
  <2> HIDE DEF S
  <2>2. CASE S = {}  BY <2>2, FS_EmptySet
  <2>3. CASE S # {}
    <3>1. PICK r \in S : S = {r}  BY <2>1, <2>3
    <3>2. Cardinality({r}) = 1  BY FS_Singleton
    <3> QED  BY <3>1, <3>2
  <2> QED  BY <2>2, <2>3
<1> QED  BY <1>1, IdentitiesKept, CharactersTypes, PTL
(***************************************************************************)
(* Edits that met no other.                                                *)

\* What a request asks for, by where it is.
Kind(k) ==
    /\ k.pc \in {"check", "fork", "edit", "write", "insert"} => k.op \in Edits
    /\ k.pc = "accept" => k.op = "generate"
    /\ k.pc = "write" => k.op = "describe"
    /\ k.pc = "insert" => k.op = "add"

\* An edit that met nobody is the only one, is about the version that is current, and
\* has left the version it began at by its own fork only.
Steady(c) ==
    Editing(c) =>
        /\ \A d \in Callers \ {c} : ~Editing(d)
        /\ call[c].at = current
        /\ call[c].home = current \/ call[c].forked

\* Only edits that are over were refused.
Refusals ==
    /\ refused \subseteq 1 .. calls
    /\ \A c \in Callers : ~At(c, "idle") => call[c].n \notin refused

ShowInv ==
    /\ \A c \in Callers : Kind(call[c])
    /\ \A c \in Callers \ mixed : Steady(c)
    /\ Refusals

\* A step of a request that leaves the version it is about.
LEMMA ShowsStay ==
    ASSUME TypeOK, ShowInv, NEW c \in Callers,
           \A d \in Callers \ {c} : call'[d] = call[d],
           \/ call'[c].pc = "idle"
           \/ /\ call[c].pc # "idle" /\ call'[c].n = call[c].n /\ call'[c].op = call[c].op
              /\ call'[c].at = call[c].at /\ call'[c].home = call[c].home
              /\ call'[c].forked = call[c].forked,
           Kind(call[c])',
           UNCHANGED <<current, mixed, refused, calls>>
    PROVE  ShowInv'
<1>1. \A d \in Callers : Kind(call[d])'  BY DEF ShowInv, Kind
<1>2. \A d \in Callers : Editing(d)' => Editing(d)  BY DEF Editing, At
<1>3. ASSUME NEW d \in Callers \ mixed', Editing(d)'
      PROVE  /\ \A e \in Callers \ {d} : ~Editing(e)'
             /\ call'[d].at = current' /\ (call'[d].home = current' \/ call'[d].forked)
  <2>1. Steady(d) /\ Editing(d)  BY <1>2, <1>3 DEF ShowInv
  <2>2. call'[d].at = call[d].at /\ call'[d].home = call[d].home /\ call'[d].forked = call[d].forked
    BY <1>3 DEF Editing, At
  <2> QED  BY <1>2, <2>1, <2>2 DEF Steady
<1>4. Refusals'
  <2>1. \A d \in Callers : ~At(d, "idle")' => ~At(d, "idle") /\ call'[d].n = call[d].n  BY DEF At
  <2> QED  BY <2>1 DEF ShowInv, Refusals
<1> QED  BY <1>1, <1>3, <1>4 DEF ShowInv, Steady

\* A request that begins.
LEMMA ShowsBegin ==
    ASSUME TypeOK, ShowInv, NEW c \in Callers, At(c, "idle"),
           \A d \in Callers \ {c} : call'[d] = call[d],
           Kind(call[c])', call'[c].n = calls + 1, calls' = calls + 1,
           \/ call'[c].op \notin Edits /\ mixed' = mixed
           \/ /\ call'[c].op \in Edits /\ call'[c].at = current /\ call'[c].home = current
              /\ LET others == {d \in Callers \ {c} : Editing(d)}
                 IN  mixed' = IF others = {} THEN mixed \ {c} ELSE mixed \cup others \cup {c},
           UNCHANGED <<current, refused>>
    PROVE  ShowInv'
<1>0. calls \in Nat  BY MarksAreNumbers DEF TypeOK
<1>1. \A d \in Callers : Kind(call[d])'  BY DEF ShowInv, Kind
<1>2. \A d \in Callers \ {c} : Editing(d)' <=> Editing(d)  BY DEF Editing, At
<1>3. ASSUME NEW d \in Callers \ mixed' PROVE Steady(d)'
  <2>1. CASE call'[c].op \notin Edits /\ mixed' = mixed
    <3>1. ~Editing(c)'  BY <2>1 DEF Editing
    <3>2. Steady(d)  BY <1>3, <2>1 DEF ShowInv
    <3> QED  BY <1>2, <3>1, <3>2 DEF Steady
  <2>2. CASE call'[c].op \in Edits
    <3>1. CASE d = c
      <4>1. \A e \in Callers \ {c} : ~Editing(e)  BY <1>3, <2>2, <3>1
      <4> QED  BY <1>2, <2>2, <3>1, <4>1 DEF Steady
    <3>2. CASE d # c
      <4>1. ~Editing(d)  BY <1>3, <2>2, <3>2
      <4> QED  BY <1>2, <3>2, <4>1 DEF Steady
    <3> QED  BY <3>1, <3>2
  <2> QED  BY <2>1, <2>2
<1>4. Refusals'
  <2>1. \A d \in Callers : ~At(d, "idle")' => d = c \/ (~At(d, "idle") /\ call'[d].n = call[d].n)
    BY DEF At
  <2>2. refused \subseteq 1 .. calls' /\ calls + 1 \notin refused  BY <1>0 DEF ShowInv, Refusals
  <2>3. ASSUME NEW d \in Callers, ~At(d, "idle")' PROVE call'[d].n \notin refused
    BY <2>1, <2>2, <2>3 DEF ShowInv, Refusals
  <2> QED  BY <2>2, <2>3 DEF Refusals
<1> QED  BY <1>1, <1>3, <1>4 DEF ShowInv

\* A fork moves its edit to the version it makes; one that is refused was none before.
LEMMA ForkShows ==
    ASSUME TypeOK, IdentityInv, ShowInv, NEW c \in Callers, Fork(c)
    PROVE  /\ ShowInv'
           /\ Editing(c) /\ refused' = refused => Editing(c)'
<1>0. call \in [Callers -> Calls] /\ calls \in Nat /\ Idle.pc = "idle"
  BY MarksAreNumbers DEF TypeOK, Idle
<1>1. call[c].pc = "fork" /\ call[c].op \in Edits /\ Editing(c) /\ UNCHANGED <<calls, mixed>>
  BY DEF Fork, At, ShowInv, Kind, Editing
<1>2. CASE current < Newest
  <2>1. /\ call' = [call EXCEPT ![c] = Idle] /\ refused' = refused \cup {call[c].n}
        /\ current' = current
    BY <1>2 DEF Fork, End, store
  <2>2. call[c].n \notin refused /\ call[c].n \in 1 .. calls
    BY <1>1 DEF ShowInv, Refusals, IdentityInv, Numbered, At
  <2>3. \A d \in Callers : IF d = c THEN call'[d] = Idle ELSE call'[d] = call[d]  BY <1>0, <2>1
  <2>4. \A d \in Callers : Kind(call[d])'  BY <1>0, <2>3 DEF ShowInv, Kind
  <2>5. \A d \in Callers : Editing(d)' => d # c /\ Editing(d)  BY <1>0, <2>3 DEF Editing, At
  <2>6. ASSUME NEW d \in Callers \ mixed' PROVE Steady(d)'
    BY <1>1, <2>1, <2>3, <2>5 DEF ShowInv, Steady
  <2>7. Refusals'
    <3>1. ASSUME NEW d \in Callers, ~At(d, "idle")' PROVE call'[d].n \notin refused'
      <4>1. d # c /\ call'[d] = call[d] /\ ~At(d, "idle")  BY <1>0, <2>3, <3>1 DEF At
      <4>2. call[d].n # call[c].n  BY <1>1, <4>1 DEF IdentityInv, Numbered, At
      <4> QED  BY <2>1, <4>1, <4>2 DEF ShowInv, Refusals
    <3> QED  BY <1>1, <2>1, <2>2, <3>1 DEF ShowInv, Refusals
  <2> QED  BY <2>1, <2>2, <2>4, <2>6, <2>7 DEF ShowInv
<1>3. CASE ~(current < Newest)
  <2>1. /\ call' = [call EXCEPT ![c].pc = "edit", ![c].at = current + 1, ![c].forked = TRUE]
        /\ refused' = refused /\ current' = current + 1
    BY <1>3 DEF Fork
  <2>2. /\ call'[c].pc = "edit" /\ call'[c].at = current + 1 /\ call'[c].forked
        /\ call'[c].op = call[c].op /\ call'[c].n = call[c].n
        /\ \A d \in Callers \ {c} : call'[d] = call[d]
    BY <1>0, <2>1 DEF Calls
  <2>3. \A d \in Callers : Kind(call[d])'  BY <1>1, <2>2 DEF ShowInv, Kind
  <2>4. Editing(c)' /\ \A d \in Callers \ {c} : Editing(d)' <=> Editing(d)
    BY <1>1, <2>2 DEF Editing, At
  <2>5. ASSUME NEW d \in Callers \ mixed' PROVE Steady(d)'
    <3>1. CASE d = c  BY <1>1, <2>1, <2>2, <2>4, <2>5, <3>1 DEF ShowInv, Steady
    <3>2. CASE d # c  BY <1>1, <2>4, <2>5, <3>2 DEF ShowInv, Steady
    <3> QED  BY <3>1, <3>2
  <2>6. Refusals'
    <3>1. \A d \in Callers : ~At(d, "idle")' => ~At(d, "idle") /\ call'[d].n = call[d].n
      BY <1>1, <2>2 DEF At
    <3>2. \A d \in Callers : ~At(d, "idle")' => call'[d].n \notin refused
      BY <3>1 DEF ShowInv, Refusals
    <3> QED  BY <1>1, <2>1, <3>2 DEF ShowInv, Refusals
  <2> QED  BY <2>3, <2>4, <2>5, <2>6 DEF ShowInv
<1> QED  BY <1>2, <1>3

\* How they go on: to the end, or at the same version.
Onward(c) ==
    /\ \A d \in Callers \ {c} : call'[d] = call[d]
    /\ \/ call'[c] = Idle
       \/ /\ call[c].pc # "idle" /\ call'[c].n = call[c].n /\ call'[c].op = call[c].op
          /\ call'[c].at = call[c].at /\ call'[c].home = call[c].home
          /\ call'[c].forked = call[c].forked
          /\ \/ call'[c].pc \in {"consent", "load", "submit", "file", "select", "row"}
             \/ call[c].pc = "check" /\ call'[c].pc \in {"fork", "edit"}
             \/ call[c].op = "describe" /\ call'[c].pc = "write"
             \/ call[c].op = "add" /\ call'[c].pc = "insert"

\* The other steps of a request.
Further(c) ==
    \/ EditStep(c) /\ ~Fork(c)
    \/ Accept(c) \/ TrainStep(c)

LEMMA FurtherShows ==
    ASSUME TypeOK, IdentityInv, ShowInv, NEW c \in Callers, Further(c)
    PROVE  ShowInv'
<1>0. call \in [Callers -> Calls] /\ Idle.pc = "idle"  BY DEF TypeOK, Idle
<1>1. UNCHANGED <<current, mixed, refused, calls>>
  BY DEF Further, EditStep, Check, ReadLook, WriteLook, ClearAnchor, Insert, Remove, Accept, TrainStep,
         AssertNotMinor, AssertConsent, LoadSources, Train, WriteFile, SelectIdentity, WriteIdentity,
         store, ghosts
<1>2. Onward(c)
  <2>1. CASE EditStep(c) /\ ~Fork(c)
    <3>1. CASE Insert(c)  BY <1>0, <3>1 DEF Insert, End, At, Calls, Onward, ShowInv, Kind
    <3>2. CASE ~Insert(c)
      BY <1>0, <2>1, <3>2 DEF EditStep, Check, ReadLook, WriteLook, ClearAnchor, Remove, Goto, End, At,
                             Calls, Onward
    <3> QED  BY <3>1, <3>2
  <2>2. CASE Accept(c)  BY <1>0, <2>2 DEF Accept, End, Onward
  <2>3. CASE TrainStep(c)
    <3>1. CASE AssertNotMinor(c) \/ AssertConsent(c) \/ LoadSources(c) \/ WriteIdentity(c)
      BY <1>0, <3>1 DEF AssertNotMinor, AssertConsent, LoadSources, WriteIdentity, Goto, End, At, Calls, Onward
    <3>2. ASSUME NEW result \in {"ready", "failed"}, Train(c, result) \/ WriteFile(c, result)
          PROVE  Onward(c)
      BY <1>0, <3>2 DEF Train, WriteFile, At, Calls, Onward
    <3>3. ASSUME SelectIdentity(c) PROVE Onward(c)
      BY <1>0, <3>3 DEF SelectIdentity, At, Calls, Onward
    <3> QED  BY <2>3, <3>1, <3>2, <3>3 DEF TrainStep
  <2> QED  BY <2>1, <2>2, <2>3 DEF Further
<1>3. Kind(call[c])'  BY <1>0, <1>2 DEF ShowInv, Kind, Onward, Edits
<1> QED  BY <1>0, <1>1, <1>2, <1>3, ShowsStay DEF Onward

LEMMA ShowStep == TypeOK /\ IdentityInv /\ ShowInv /\ [Next]_vars => ShowInv'
<1> SUFFICES ASSUME TypeOK, IdentityInv, ShowInv, [Next]_vars PROVE ShowInv'  OBVIOUS
<1>0. call \in [Callers -> Calls] /\ calls \in Nat /\ Idle.pc = "idle"
  BY MarksAreNumbers DEF TypeOK, Idle
<1>1. ASSUME NEW c \in Callers, NEW op \in Edits, AskEdit(c, op) PROVE ShowInv'
  <2>1. /\ call'[c].pc = "check" /\ call'[c].op = op /\ call'[c].n = calls + 1
        /\ call'[c].at = current /\ call'[c].home = current
        /\ \A d \in Callers \ {c} : call'[d] = call[d]
    BY <1>0, <1>1 DEF AskEdit, Begin, Ask, Idle
  <2>2. At(c, "idle") /\ calls' = calls + 1 /\ UNCHANGED <<current, refused>>
    BY <1>1 DEF AskEdit, Begin, Count, store, ghosts
  <2>3. LET others == {d \in Callers \ {c} : Editing(d)}
        IN  mixed' = IF others = {} THEN mixed \ {c} ELSE mixed \cup others \cup {c}
    BY <1>1 DEF AskEdit
  <2>4. Kind(call[c])'  BY <2>1 DEF Kind
  <2> QED  BY <2>1, <2>2, <2>3, <2>4, ShowsBegin
<1>2. ASSUME NEW c \in Callers, AskTraining(c) \/ \E v \in Versions : Resolve(c, v) PROVE ShowInv'
  <2>1. /\ \/ call'[c].pc = "minor" /\ call'[c].op = "train"
           \/ call'[c].pc = "accept" /\ call'[c].op = "generate"
        /\ call'[c].n = calls + 1
        /\ \A d \in Callers \ {c} : call'[d] = call[d]
    <3>1. ASSUME AskTraining(c)
          PROVE  /\ call'[c].pc = "minor" /\ call'[c].op = "train" /\ call'[c].n = calls + 1
                 /\ \A d \in Callers \ {c} : call'[d] = call[d]
      BY <1>0, <3>1 DEF AskTraining, Begin, Ask, Idle
    <3>2. ASSUME NEW v \in Versions, Resolve(c, v)
          PROVE  /\ call'[c].pc = "accept" /\ call'[c].op = "generate" /\ call'[c].n = calls + 1
                 /\ \A d \in Callers \ {c} : call'[d] = call[d]
      BY <1>0, <3>2 DEF Resolve, Begin, Ask, Idle
    <3> QED  BY <1>2, <3>1, <3>2
  <2>2. At(c, "idle") /\ calls' = calls + 1 /\ UNCHANGED <<current, refused, mixed>>
    BY <1>2 DEF AskTraining, Resolve, Begin, Count, store, ghosts
  <2>3. Kind(call[c])' /\ call'[c].op \notin Edits  BY <2>1 DEF Kind, Edits
  <2> QED  BY <2>1, <2>2, <2>3, ShowsBegin
<1>3. ASSUME NEW c \in Callers, EditStep(c) \/ Accept(c) \/ TrainStep(c) PROVE ShowInv'
  BY <1>3, ForkShows, FurtherShows DEF Further
<1>4. ASSUME (\E v \in Versions : Switch(v)) \/ SetConsent PROVE ShowInv'
  <2>1. /\ UNCHANGED <<call, refused>> /\ calls' = calls + 1
        /\ \/ mixed' = mixed \cup {c \in Callers : Editing(c)}
           \/ mixed' = mixed /\ current' = current
    BY <1>4 DEF Switch, SetConsent, Count, store, ghosts
  <2>2. \A c \in Callers \ mixed' : Steady(c)'
    <3>1. \A c \in Callers : Editing(c)' <=> Editing(c)  BY <2>1 DEF Editing, At
    <3> QED  BY <2>1, <3>1 DEF ShowInv, Steady
  <2>3. Refusals'  BY <1>0, <2>1 DEF ShowInv, Refusals, At
  <2> QED  BY <2>1, <2>2, <2>3 DEF ShowInv, Kind
<1>5. CASE Crash
  <2>1. UNCHANGED <<current, refused, calls, mixed>> /\ \A c \in Callers : call'[c] = Idle
    BY <1>5 DEF Crash, store
  <2>2. \A c \in Callers : call'[c].pc = "idle"  BY <1>0, <2>1
  <2> QED  BY <2>1, <2>2 DEF ShowInv, Kind, Steady, Refusals, Editing, At
<1>6. CASE UNCHANGED vars
  BY <1>6 DEF vars, store, ghosts, ShowInv, Kind, Steady, Refusals, Editing, At
<1> QED  BY <1>1, <1>2, <1>3, <1>4, <1>5, <1>6 DEF Next

\* What an edit that met nobody has attached stays.
Added ==
    \A c \in Callers \ mixed : call[c].pc = "insert" =>
        call[c].rows \ call[c].todo \subseteq refs[call[c].at]

\* A step of an edit leaves the references of other versions, and a step of no edit all.
LEMMA RefsStay ==
    ASSUME TypeOK, ShowInv, Next, NEW c \in Callers \ mixed, call[c].pc = "insert", ~Insert(c)
    PROVE  \/ refs'[call[c].at] = refs[call[c].at]
           \/ call'[c] # call[c] /\ call'[c].pc # "insert"
<1>0. call \in [Callers -> Calls] /\ Editing(c) /\ \A d \in Callers \ {c} : ~Editing(d)
  BY DEF TypeOK, ShowInv, Kind, Steady, Editing, At, Edits
<1>1. ASSUME NEW d \in Callers, EditStep(d), ~Insert(c)
      PROVE  d = c /\ FALSE
  <2>1. call[d].pc \in {"check", "fork", "edit", "write", "insert"}
    BY <1>1 DEF EditStep, Check, Fork, ReadLook, WriteLook, ClearAnchor, Insert, Remove, At
  <2>2. Editing(d)  BY <2>1 DEF ShowInv, Kind, Editing, At
  <2>3. d = c  BY <1>0, <2>2
  <2> QED
    BY <1>1, <2>3 DEF EditStep, Check, Fork, ReadLook, WriteLook, ClearAnchor, Remove, At, ShowInv, Kind
<1>2. CASE \E d \in Callers : EditStep(d)  BY <1>1, <1>2
<1>3. CASE ~\E d \in Callers : EditStep(d)
  <2>1. refs' = refs
    BY <1>3 DEF Next, AskEdit, AskTraining, Resolve, Accept, TrainStep, AssertNotMinor, AssertConsent,
       LoadSources, Train, WriteFile, SelectIdentity, WriteIdentity, Switch, SetConsent, Crash, store
  <2> QED  BY <2>1
<1> QED  BY <1>2, <1>3

LEMMA AddedStep == TypeOK /\ OwnRows /\ ShowInv /\ Added /\ [Next]_vars => Added'
<1> SUFFICES ASSUME TypeOK, OwnRows, ShowInv, Added, [Next]_vars,
                    NEW c \in Callers \ mixed', call'[c].pc = "insert"
             PROVE  call'[c].rows \ call'[c].todo \subseteq refs'[call'[c].at]
  BY DEF Added
<1>0. call \in [Callers -> Calls] /\ call[c] \in Calls /\ Idle.pc = "idle"  BY DEF TypeOK, Idle
<1> HIDE DEF Idle
<1>1. CASE ClearAnchor(c)
  <2>1. call'[c].rows = call'[c].todo
    BY <1>0, <1>1 DEF ClearAnchor, Goto, At, OwnRows, Own, Calls
  <2> QED  BY <2>1
<1>2. CASE Insert(c)
  <2>1. PICK r \in call[c].todo :
           /\ refs' = [refs EXCEPT ![call[c].at] = @ \cup {r}]
           /\ IF call[c].todo = {r} THEN End(c) ELSE call' = [call EXCEPT ![c].todo = @ \ {r}]
    BY <1>2 DEF Insert
  <2>2. /\ call'[c].rows = call[c].rows /\ call'[c].todo = call[c].todo \ {r}
        /\ call'[c].at = call[c].at
    BY <1>0, <2>1 DEF End, Calls
  <2>3. c \notin mixed /\ call[c].pc = "insert"  BY <1>2 DEF Insert, At
  <2>4. refs'[call[c].at] = refs[call[c].at] \cup {r}  BY <2>1, AtTyped DEF TypeOK
  <2> QED  BY <2>2, <2>3, <2>4 DEF Added
<1>3. CASE ~ClearAnchor(c) /\ ~Insert(c)
  <2>1. call'[c] = call[c]
    <3>1. ASSUME NEW d \in Callers \ {c},
                 \/ \E op \in Edits : AskEdit(d, op)
                 \/ AskTraining(d)
                 \/ \E v \in Versions : Resolve(d, v)
                 \/ EditStep(d) \/ Accept(d) \/ TrainStep(d)
          PROVE  call'[c] = call[c]
      BY <1>0, <3>1 DEF AskEdit, AskTraining, Resolve, Begin, EditStep, Check, Fork, ReadLook, WriteLook,
         ClearAnchor, Insert, Remove, Accept, TrainStep, AssertNotMinor, AssertConsent, LoadSources, Train,
         WriteFile, SelectIdentity, WriteIdentity, Goto, End
    <3>2. ASSUME \/ \E op \in Edits : AskEdit(c, op)
                 \/ AskTraining(c)
                 \/ \E v \in Versions : Resolve(c, v)
          PROVE  FALSE
      <4>1. ASSUME NEW op \in Edits, AskEdit(c, op) PROVE FALSE
        BY <1>0, <4>1 DEF AskEdit, Begin, Ask, Idle
      <4>2. ~AskTraining(c)  BY <1>0 DEF AskTraining, Begin, Ask, Idle
      <4>3. ASSUME NEW v \in Versions, Resolve(c, v) PROVE FALSE
        BY <1>0, <4>3 DEF Resolve, Begin, Ask, Idle
      <4> QED  BY <3>2, <4>1, <4>2, <4>3
    <3>3. ASSUME EditStep(c) \/ Accept(c) \/ TrainStep(c) PROVE FALSE
      BY <1>0, <1>3, <3>3 DEF EditStep, Check, Fork, ReadLook, WriteLook, Remove, Accept, TrainStep,
         AssertNotMinor, AssertConsent, LoadSources, Train, WriteFile, SelectIdentity, WriteIdentity,
         Goto, End, Calls
    <3>4. ~Crash  BY <1>0 DEF Crash
    <3> QED  BY <3>1, <3>2, <3>3, <3>4 DEF Next, Switch, SetConsent, vars
  <2>2. c \notin mixed
    <3>1. ASSUME NEW d \in Callers, NEW op \in Edits, AskEdit(d, op) PROVE c \notin mixed
      <4>1. d # c  BY <2>1, <3>1 DEF AskEdit, Begin, At
      <4> QED  BY <3>1, <4>1 DEF AskEdit
    <3>2. ASSUME NEW d \in Callers,
                 AskTraining(d) \/ (\E v \in Versions : Resolve(d, v)) \/ EditStep(d) \/ Accept(d) \/ TrainStep(d)
          PROVE  mixed' = mixed
      BY <3>2 DEF AskTraining, Resolve, EditStep, Check, Fork, ReadLook, WriteLook, ClearAnchor,
         Insert, Remove, Accept, TrainStep, AssertNotMinor, AssertConsent, LoadSources, Train, WriteFile,
         SelectIdentity, WriteIdentity
    <3> QED  BY <3>1, <3>2 DEF Next, Switch, SetConsent, Crash, vars
  <2>3. refs'[call[c].at] = refs[call[c].at]
    BY <1>3, <2>1, <2>2, RefsStay DEF vars, store
  <2> QED  BY <2>1, <2>2, <2>3 DEF Added
<1> QED  BY <1>1, <1>2, <1>3

\* An edit that is over has shown.
LEMMA EndShows ==
    ASSUME TypeOK, IdentityInv, OwnRows, ShowInv, Added, Next, NEW c \in Callers \ mixed, Editing(c), ~Editing(c)',
           refused' = refused, crashes' = crashes
    PROVE  Shows(call[c])
<1>0. call \in [Callers -> Calls] /\ crashes \in Nat  BY DEF TypeOK
<1>1. call'[c] # call[c]  BY DEF Editing, At
<1>2. call[c].op \in Edits /\ Steady(c) /\ Kind(call[c]) /\ call[c].pc # "idle"
  BY DEF ShowInv, Editing, At
<1>3. /\ current \in 1 .. Len(look) /\ call[c].at = current
      /\ look \in Seq(Looks) /\ refs \in Seq(SUBSET Rows) /\ Len(refs) = Len(look)
      /\ call[c].field \in Fields /\ call[c].seen \in Looks
  BY <1>2, AtTyped DEF Steady, TypeOK, Versions
<1>4. ~Crash /\ ~SetConsent /\ \A v \in Versions : ~Switch(v)
  BY <1>0, <1>1 DEF Crash, SetConsent, Switch
<1>5. ASSUME NEW d \in Callers \ {c},
             \/ \E op \in Edits : AskEdit(d, op)
             \/ AskTraining(d)
             \/ \E v \in Versions : Resolve(d, v)
             \/ EditStep(d) \/ Accept(d) \/ TrainStep(d)
      PROVE  FALSE
  <2>1. call'[c] = call[c]
    BY <1>0, <1>5 DEF AskEdit, AskTraining, Resolve, Begin, EditStep, Check, Fork, ReadLook, WriteLook,
       ClearAnchor, Insert, Remove, Accept, TrainStep, AssertNotMinor, AssertConsent, LoadSources, Train,
       WriteFile, SelectIdentity, WriteIdentity, Goto, End
  <2> QED  BY <1>1, <2>1
<1>6. WriteLook(c) \/ Insert(c) \/ Remove(c)
  <2>1. ~At(c, "idle") /\ ~Accept(c) /\ ~TrainStep(c)
    BY <1>2 DEF At, Kind, Accept, Edits, TrainStep, AssertNotMinor, AssertConsent, LoadSources, Train,
       WriteFile, SelectIdentity, WriteIdentity, IdentityInv, Found
  <2>2. ~Fork(c)  BY ForkShows
  <2>3. ~Check(c) /\ ~ReadLook(c) /\ ~ClearAnchor(c)
    BY <1>0, <1>2 DEF Check, ReadLook, ClearAnchor, Goto, Calls, Editing, At
  <2>4. EditStep(c)  BY <1>4, <1>5, <2>1 DEF Next, AskEdit, AskTraining, Resolve, Begin
  <2> QED  BY <2>2, <2>3, <2>4 DEF EditStep
<1>7. CASE WriteLook(c)
  <2>1. call[c].op = "describe"  BY <1>2, <1>7 DEF WriteLook, At, Kind
  <2>2. look'[current] = [call[c].seen EXCEPT ![call[c].field] = call[c].n] /\ current' = current
    BY <1>3, <1>7 DEF WriteLook
  <2> QED  BY <1>3, <2>1, <2>2 DEF Shows, Looks
<1>8. CASE Insert(c)
  <2>1. call[c].op = "add" /\ call[c].pc = "insert"  BY <1>2, <1>8 DEF Insert, At, Kind
  <2>2. PICK r \in call[c].todo :
           /\ refs' = [refs EXCEPT ![current] = @ \cup {r}]
           /\ IF call[c].todo = {r} THEN End(c) ELSE call' = [call EXCEPT ![c].todo = @ \ {r}]
    BY <1>3, <1>8 DEF Insert
  <2>3. call[c].todo = {r}
    BY <1>0, <1>2, <2>1, <2>2 DEF Editing, At, Calls
  <2>4. current' = current /\ refs'[current] = refs[current] \cup {r}  BY <1>3, <1>8, <2>2 DEF Insert
  <2>5. call[c].rows \ {r} \subseteq refs[current]  BY <1>3, <2>1, <2>3 DEF Added
  <2> QED  BY <2>1, <2>4, <2>5 DEF Shows
<1>9. CASE Remove(c)
  <2>1. call[c].op = "remove" /\ current' = current  BY <1>9 DEF Remove
  <2>2. CASE call[c].home = call[c].at
    <3>1. refs'[current] = refs[current] \ call[c].rows  BY <1>3, <1>9, <2>2 DEF Remove
    <3> QED  BY <2>1, <3>1 DEF Shows
  <2>3. CASE call[c].home # call[c].at
    BY <1>2, <1>3, <2>1, <2>3 DEF Steady, Shows
  <2> QED  BY <2>2, <2>3
<1> QED  BY <1>6, <1>7, <1>8, <1>9

\* An edit that met no other edit and no switch, and was not refused or cut off, shows in
\* the current version when it ends: jobs that freeze the version between its check and
\* its fork, and the fork itself, do not lose it, for any numbers of requests.
THEOREM EditsShow == Spec => EditShows
<1> DEFINE Shown == \A c \in Callers \ mixed :
                       Editing(c) /\ ~Editing(c)' /\ refused' = refused /\ crashes' = crashes => Shows(call[c])
<1>1. Init => ShowInv
  BY DEF Init, ShowInv, Kind, Steady, Refusals, Editing, At, Idle
<1>2. TypeOK /\ IdentityInv /\ OwnRows /\ ShowInv /\ Added /\ [Next]_vars => [Shown]_vars
  BY EndShows
<1>5. Init => Added  BY DEF Init, Added, Idle
<1>3. Spec => []IdentityInv  BY IdentitiesKept
<1>4. Spec => []TypeOK  BY CharactersTypes
<1> QED  BY <1>1, <1>2, <1>3, <1>4, <1>5, RowsAreOwned, ShowStep, AddedStep, PTL DEF Spec, EditShows
=============================================================================
