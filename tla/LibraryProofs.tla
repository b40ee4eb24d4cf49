---------------------------- MODULE LibraryProofs ----------------------------
(***************************************************************************)
(* The Library, for any places, files, ids and requests: its types, what   *)
(* keeps the Trash, and that a sidecar stays with its file.                *)
(***************************************************************************)
EXTENDS Library, TLAPS

ReqSteps == {"note", "forget", "bin", "stamp", "carry", "unlink", "trashed",
             "out", "follow", "restored"}
Indexing == {"lock", "match", "write", "sweep", "upsert"}
Binning  == {"bin", "stamp", "carry", "unlink", "trashed"}

\* An id that was made for a file.
Made(i) == i \in Ids /\ owner[i] # None

\* What an actor holds at each step.
Fielded(l) ==
    /\ l.step \in Indexing \cup Binning \cup {"note"} => l.at \in Paths
    /\ l.step \in {"write", "sweep", "upsert"} => Made(l.id)
    /\ l.step = "write" => l.to \in Paths \cup {None}
    /\ l.step = "sweep" => l.to \in Paths
    /\ l.step \in {"note", "stamp"} => Made(l.seen)
    /\ l.step = "bin" /\ l.seen # None => Made(l.seen)
    /\ l.step \in {"forget", "out", "follow", "restored"} => l.at \in Places
    /\ l.step \in Binning => l.to \in Bins
    /\ l.step \in {"out", "follow", "restored"} => l.to \in Paths
    /\ l.step \in Binning \cup {"forget", "out", "follow", "restored", "delete"} => l.id \in Ids
    /\ l.step = "delete" => l.at \in Bins

Fields ==
    /\ \A x \in Actors : Fielded(act[x])
    /\ \A x \in Actors : act[x].step \in ReqSteps => x \in Requests
    /\ \A x \in Actors : act[x].step \in {"purge", "delete"} => x = "worker"

\* A sidecar and a row are of an id that was made; only a row has an original path.
Owned ==
    /\ \A p \in Places : side[p] # None => Made(side[p])
    /\ \A i \in Ids : row[i].at # None => owner[i] # None
    /\ \A i \in Ids : row[i].from # None => row[i].at # None

\* The place a deletion has taken in the Trash is nobody else's, and from its rename on
\* the file is there.
Reserved(u) ==
    LET b == act[u].to IN
    act[u].step \in Binning =>
        /\ \A i \in Ids : row[i].at # b
        /\ \A x \in Actors \ {u} : act[x].at # b /\ act[x].to # b
        /\ \A e \in act["worker"].bins : e[1] # b
        /\ IF act[u].step = "bin" THEN file[b] = None ELSE file[b] # None

Typed == TypeOK /\ Fields /\ Owned /\ \A u \in Requests : Reserved(u)

-----------------------------------------------------------------------------
(* How an actor moves.                                                      *)

\* Only this actor moves.
Alone(x) == act' \in [Actors -> Acts] /\ \A y \in Actors \ {x} : act'[y] = act[y]

LEMMA Names ==
    /\ None \notin Places /\ None \notin Files /\ None \notin Ids
    /\ Paths \subseteq Places /\ Bins \subseteq Places /\ \A p \in Paths : p \notin Bins
    /\ "worker" \in Actors /\ "starter" \in Actors /\ Requests \subseteq Actors
    /\ "worker" \notin Requests /\ "starter" \notin Requests
  BY PlacesAssumption, RequestsAssumption DEF Places, Actors

LEMMA IdleFields == Idle \in Acts /\ Idle.step = "idle" /\ Idle.at = None /\ Idle.to = None
                    /\ Idle.bins = {} /\ Idle.todo = {} /\ Idle.id = None /\ Idle.seen = None
  BY DEF Idle, Acts, Steps

LEMMA Sets ==
    ASSUME act \in [Actors -> Acts], NEW x \in Actors, NEW l \in Acts, act' = [act EXCEPT ![x] = l]
    PROVE  Alone(x) /\ act'[x] = l
  BY DEF Alone

LEMMA StepsOn ==
    ASSUME act \in [Actors -> Acts], NEW x \in Actors, NEW s \in Steps, To(x, s)
    PROVE  /\ Alone(x) /\ act'[x].step = s
           /\ act'[x].at = act[x].at /\ act'[x].to = act[x].to /\ act'[x].id = act[x].id
           /\ act'[x].seen = act[x].seen /\ act'[x].todo = act[x].todo /\ act'[x].bins = act[x].bins
  BY DEF To, Alone, Acts

LEMMA StepsDone ==
    ASSUME act \in [Actors -> Acts], NEW x \in Actors, Done(x)
    PROVE  /\ Alone(x)
           /\ \/ act'[x] = Idle
              \/ /\ act'[x].step = "next" /\ act'[x].at = act[x].at /\ act'[x].to = act[x].to
                 /\ act'[x].id = act[x].id /\ act'[x].todo = act[x].todo /\ act'[x].bins = act[x].bins
<1>1. CASE x = "starter" \/ act[x].todo # {}
  BY <1>1 DEF Done, Alone, Acts, Steps
<1>2. CASE ~(x = "starter" \/ act[x].todo # {})
  BY <1>2, IdleFields DEF Done, Alone
<1> QED  BY <1>1, <1>2

-----------------------------------------------------------------------------
(* What a step keeps of the invariant.                                       *)

\* Ids keep having been made.
Grows == \A i \in Ids : owner[i] # None => owner'[i] # None

LEMMA FieldsMove ==
    ASSUME Typed, NEW x \in Actors, Alone(x), Grows, Fielded(act[x])',
           act'[x].step \in ReqSteps => x \in Requests,
           act'[x].step \in {"purge", "delete"} => x = "worker"
    PROVE  Fields'
<1>1. ASSUME NEW y \in Actors \ {x} PROVE Fielded(act[y])'
  <2>1. act'[y] = act[y] /\ Fielded(act[y])  BY DEF Alone, Typed, Fields
  <2> QED  BY <2>1 DEF Fielded, Made, Grows
<1>2. \A y \in Actors : Fielded(act[y])'  BY <1>1
<1>3. \A y \in Actors : act'[y].step \in ReqSteps => y \in Requests  BY DEF Typed, Fields, Alone
<1>4. \A y \in Actors : act'[y].step \in {"purge", "delete"} => y = "worker"
  BY DEF Typed, Fields, Alone
<1> QED  BY <1>2, <1>3, <1>4 DEF Fields

\* The places that no deletion of another actor has taken.
Known(x) ==
    Paths \cup {None, act[x].at, act[x].to} \cup {row[i].at : i \in Ids}
          \cup {e[1] : e \in act["worker"].bins} \cup EmptyBin

LEMMA KnownApart ==
    ASSUME Typed, NEW x \in Actors, NEW u \in Requests, u # x, act[u].step \in Binning
    PROVE  act[u].to \in Bins \ Known(x)
<1>1. act[u].to \in Bins /\ u \in Actors  BY Names DEF Typed, Fields, Fielded
<1>2. act[u].to \notin EmptyBin  BY <1>1 DEF EmptyBin
<1>3. Reserved(u)  BY DEF Typed
<1> QED  BY <1>1, <1>2, <1>3, Names DEF Known, Reserved

LEMMA ReservedKeeps ==
    ASSUME Typed, NEW x \in Actors, Alone(x), act'[x].at \in Known(x), act'[x].to \in Known(x),
           \A i \in Ids : row'[i].at \in Known(x),
           \A e \in act'["worker"].bins : e[1] \in Known(x),
           \A b \in Bins \ Known(x) : file'[b] = file[b],
           x \in Requests => Reserved(x)'
    PROVE  \A u \in Requests : Reserved(u)'
<1> SUFFICES ASSUME NEW u \in Requests, u # x PROVE Reserved(u)'  OBVIOUS
<1>1. u \in Actors /\ act'[u] = act[u]  BY Names DEF Alone
<1>2. SUFFICES ASSUME act[u].step \in Binning PROVE Reserved(u)'  BY <1>1 DEF Reserved
<1>3. act[u].to \in Bins \ Known(x)  BY <1>2, KnownApart
<1>4. \A y \in Actors \ {u} : act'[y].at # act[u].to /\ act'[y].to # act[u].to
  BY <1>2, <1>3 DEF Alone, Typed, Reserved
<1> QED  BY <1>1, <1>2, <1>3, <1>4 DEF Typed, Reserved

\* The types, but for what the actors do.
Shaped ==
    /\ file \in [Places -> Files \cup {None}]
    /\ side \in [Places -> Ids \cup {None}]
    /\ owner \in [Ids -> Files \cup {None}]
    /\ row \in [Ids -> Rows]
    /\ process \in {"down", "starting", "up"}
    /\ due \subseteq Paths /\ missed \subseteq Paths
    /\ lock \in [Paths -> Actors \cup {None}]
    /\ forgotten \subseteq Files /\ displaced \subseteq Files
    /\ calls \in 0 .. MaxCalls /\ moves \in 0 .. MaxMoves /\ boots \in 0 .. MaxBoots

LEMMA Moves ==
    ASSUME Typed, NEW x \in Actors, Alone(x), Shaped', Owned', Grows, Fielded(act[x])',
           act'[x].step \in ReqSteps => x \in Requests,
           act'[x].step \in {"purge", "delete"} => x = "worker",
           act'[x].at \in Known(x), act'[x].to \in Known(x),
           \A i \in Ids : row'[i].at \in Known(x),
           \A e \in act'["worker"].bins : e[1] \in Known(x),
           \A b \in Bins \ Known(x) : file'[b] = file[b],
           x \in Requests => Reserved(x)'
    PROVE  Typed'
<1>1. TypeOK'  BY DEF Shaped, TypeOK, Alone
<1>2. Fields'  BY FieldsMove
<1>3. \A u \in Requests : Reserved(u)'  BY ReservedKeeps
<1> QED  BY <1>1, <1>2, <1>3 DEF Typed

\* What every step knows.
LEMMA Facts ==
    ASSUME Typed, NEW x \in Actors
    PROVE  /\ TypeOK /\ Shaped /\ Owned /\ Fielded(act[x]) /\ act \in [Actors -> Acts]
           /\ act[x] \in Acts
           /\ act[x].step \in ReqSteps => x \in Requests
           /\ act[x].step \in {"purge", "delete"} => x = "worker"
           /\ x \in Requests => Reserved(x)
           /\ act[x].at \in Known(x) /\ act[x].to \in Known(x) /\ None \in Known(x)
           /\ Paths \subseteq Known(x) /\ EmptyBin \subseteq Known(x)
           /\ \A i \in Ids : row[i].at \in Known(x)
           /\ \A e \in act["worker"].bins : e[1] \in Known(x)
  BY DEF Typed, TypeOK, Fields, Known, Shaped

\* Nobody but the worker lists the Trash.
LEMMA ListKeeps ==
    ASSUME Typed, NEW x \in Actors, Alone(x), act'[x].bins = act[x].bins \/ act'[x].bins = {}
    PROVE  \A e \in act'["worker"].bins : e[1] \in Known(x)
<1>1. \A e \in act["worker"].bins : e[1] \in Known(x)  BY Facts
<1> QED  BY <1>1, Names DEF Alone

\* A step of an actor that is no deletion and leaves the files of the Trash where they are.
LEMMA MovesOn ==
    ASSUME Typed, NEW x \in Actors, Alone(x), Shaped', Owned', Grows, Fielded(act[x])',
           act'[x].step \in ReqSteps => x \in Requests,
           act'[x].step \in {"purge", "delete"} => x = "worker",
           act'[x].step \notin Binning,
           act'[x].at \in {act[x].at, None} \cup Paths, act'[x].to \in {act[x].to, None} \cup Paths,
           \A i \in Ids : row'[i].at \in {row[i].at, None} \cup Paths,
           act'[x].bins = act[x].bins \/ act'[x].bins = {},
           \A b \in Bins : file'[b] = file[b]
    PROVE  Typed'
<1>1. \A e \in act'["worker"].bins : e[1] \in Known(x)  BY ListKeeps
<1>2. x \in Requests => Reserved(x)'  BY DEF Reserved
<1>3. /\ act'[x].at \in Known(x) /\ act'[x].to \in Known(x)
      /\ \A i \in Ids : row'[i].at \in Known(x)
  BY Facts
<1> QED  BY <1>1, <1>2, <1>3, Moves

LEMMA Noted ==
    ASSUME Shaped, NEW ps, Notice(ps) PROVE due' \subseteq Paths /\ missed' \subseteq Paths
  BY DEF Shaped, Notice

LEMMA Dismissed ==
    ASSUME Shaped, NEW p \in Paths, Dismiss(p) PROVE due' \subseteq Paths /\ missed' \subseteq Paths
  BY DEF Shaped, Dismiss, Quiet

LEMMA Overtaken ==
    ASSUME Shaped, NEW x, Overtake(x) PROVE missed' \subseteq Paths
  BY DEF Shaped, Overtake

LEMMA TrashFiles == ASSUME NEW S PROVE InTrash \subseteq Files /\ (InTrash \cap S) \subseteq Files
  BY DEF InTrash

LEMMA StrayFiles == ASSUME NEW I PROVE Strays(I) \subseteq Files
  BY DEF Strays

LEMMA ClashFiles ==
    ASSUME Typed, NEW p \in Places, NEW f \in Files PROVE Clash(f, p) \subseteq Files
<1>1. file[p] \in Files \cup {None} /\ side[p] \in Ids \cup {None}  BY DEF Typed, TypeOK
<1>2. \A i \in {side[p]} \ {None} : owner[i] \in Files
  BY <1>1 DEF Typed, TypeOK, Owned, Made
<1> QED  BY <1>1, <1>2 DEF Clash

LEMMA CrossedFiles ==
    ASSUME NEW f \in Files, NEW p, NEW by PROVE Crossed(f, p, by) \subseteq Files
  BY DEF Crossed, Concerned

-----------------------------------------------------------------------------
(* The indexers.                                                             *)

LEMMA ReadTyped == ASSUME Typed, NEW x \in Actors, Read(x) PROVE Typed'
<1>1. /\ act \in [Actors -> Acts] /\ act[x] \in Acts /\ act[x].at \in Paths
      /\ Shaped /\ Owned /\ At(x, "lock")
  BY Facts DEF Read, At, Fielded, Indexing
<1> DEFINE p == act[x].at
<1>2. UNCHANGED <<disk, owner, row, process, forgotten, bounds, due, missed>>
  BY DEF Read, Quiet
<1>3. CASE ~Exists(p) /\ Done(x) /\ UNCHANGED <<lock, displaced>>
  <2>1. Alone(x) /\ act'[x].step \in {"idle", "next"} /\ act'[x].at \in {act[x].at, None}
        /\ act'[x].to \in {act[x].to, None} /\ (act'[x].bins = act[x].bins \/ act'[x].bins = {})
    BY <1>1, <1>3, StepsDone, IdleFields
  <2>2. Shaped' /\ Owned' /\ Grows
    BY <1>1, <1>2, <1>3 DEF Shaped, disk, bounds, Owned, Made, Grows
  <2>3. Fielded(act[x])'  BY <2>1 DEF Fielded, Indexing, Binning
  <2> QED  BY <1>2, <2>1, <2>2, <2>3, MovesOn DEF ReqSteps, Binning, disk
<1>4. CASE /\ Exists(p)
           /\ lock' = [lock EXCEPT ![p] = x]
           /\ act' = [act EXCEPT ![x].id = side[p],
                                 ![x].step = IF side[p] # None THEN "upsert" ELSE "match"]
           /\ displaced' = IF side[p] = None /\ Awaited(p) THEN displaced \cup {file[p]} ELSE displaced
  <2>1. /\ side[p] \in Ids \cup {None} /\ file[p] \in Files
        /\ side[p] # None => Made(side[p])
    BY <1>1, <1>4, Names DEF Shaped, Owned, Exists
  <2>2. /\ Alone(x) /\ act'[x].step = (IF side[p] # None THEN "upsert" ELSE "match")
        /\ act'[x].at = act[x].at /\ act'[x].to = act[x].to /\ act'[x].bins = act[x].bins
        /\ act'[x].id = side[p]
    BY <1>1, <1>4, <2>1 DEF Alone, Acts, Steps
  <2>3. Shaped' /\ Owned' /\ Grows
    BY <1>1, <1>2, <1>4, <2>1 DEF Shaped, disk, bounds, Owned, Made, Grows
  <2>4. Fielded(act[x])'
    BY <1>1, <1>2, <2>1, <2>2 DEF Fielded, Indexing, Binning, Made
  <2> QED  BY <1>2, <2>2, <2>3, <2>4, MovesOn DEF ReqSteps, Binning, disk
<1> QED  BY <1>3, <1>4 DEF Read

LEMMA MatchTyped == ASSUME Typed, NEW x \in Actors, Match(x) PROVE Typed'
<1>1. /\ act \in [Actors -> Acts] /\ act[x] \in Acts /\ act[x].at \in Paths
      /\ Shaped /\ Owned /\ At(x, "match")
  BY Facts DEF Match, At, Fielded, Indexing
<1> DEFINE p == act[x].at
           f == file[p]
<1>2. UNCHANGED <<disk, row, due, process, forgotten, bounds>>
  BY DEF Match
<1>3. CASE Throw(x) /\ missed' = missed \cup {p} /\ UNCHANGED <<owner, displaced>>
  <2>1. Alone(x) /\ act'[x].step \in {"idle", "next"} /\ act'[x].at \in {act[x].at, None}
        /\ act'[x].to \in {act[x].to, None} /\ (act'[x].bins = act[x].bins \/ act'[x].bins = {})
    BY <1>1, <1>3, StepsDone, IdleFields DEF Throw
  <2>2. Shaped' /\ Owned' /\ Grows
    BY <1>1, <1>2, <1>3 DEF Shaped, disk, bounds, Owned, Made, Grows, Throw, Unlock
  <2>3. Fielded(act[x])'  BY <2>1 DEF Fielded, Indexing, Binning
  <2> QED  BY <1>2, <2>1, <2>2, <2>3, MovesOn DEF ReqSteps, Binning, disk
<1>4. CASE \E i \in IF Exists(p) THEN Left(p) ELSE {} :
             /\ act' = [act EXCEPT ![x].step = "write", ![x].id = side[row[i].at], ![x].to = row[i].at]
             /\ displaced' = IF Taken(i, f) \/ ~Untouched(row[i].at, Actors \ {x})
                             THEN displaced \cup {f, owner[i], owner[side[row[i].at]]} ELSE displaced
             /\ UNCHANGED <<lock, owner, missed>>
  <2>1. PICK i \in Left(p) :
             /\ act' = [act EXCEPT ![x].step = "write", ![x].id = side[row[i].at], ![x].to = row[i].at]
             /\ displaced' = IF Taken(i, f) \/ ~Untouched(row[i].at, Actors \ {x})
                             THEN displaced \cup {f, owner[i], owner[side[row[i].at]]} ELSE displaced
             /\ UNCHANGED <<lock, owner, missed>>
    BY <1>4
  <2>2. Exists(p)  BY <1>4
  <2>3. /\ i \in Ids /\ row[i].at \in Paths /\ side[row[i].at] \in Ids /\ Made(side[row[i].at])
        /\ owner[i] \in Files /\ f \in Files /\ owner[side[row[i].at]] \in Files
    BY <1>1, <2>1, <2>2, Names DEF Left, Twins, Shaped, Owned, Made, Exists
  <2>4. /\ Alone(x) /\ act'[x].step = "write" /\ act'[x].at = act[x].at
        /\ act'[x].to = row[i].at /\ act'[x].bins = act[x].bins /\ act'[x].id = side[row[i].at]
    BY <1>1, <2>1, <2>3, Names DEF Alone, Acts, Steps
  <2>5. Shaped' /\ Owned' /\ Grows
    BY <1>1, <1>2, <2>1, <2>3 DEF Shaped, disk, bounds, Owned, Made, Grows
  <2>6. Fielded(act[x])'
    BY <1>1, <2>1, <2>3, <2>4 DEF Fielded, Indexing, Binning, Made
  <2> QED  BY <1>2, <2>3, <2>4, <2>5, <2>6, MovesOn DEF ReqSteps, Binning, disk
<1>5. CASE /\ Exists(p)
           /\ \E i \in IF Embedded[f] # None THEN {Embedded[f]} ELSE Fresh :
                /\ act' = [act EXCEPT ![x].step = "write", ![x].id = i, ![x].to = None]
                /\ owner' = [owner EXCEPT ![i] = f]
                /\ displaced' = IF Shared(i, f) THEN displaced \cup {f, owner[i]} ELSE displaced
           /\ UNCHANGED <<lock, missed>>
  <2>1. f \in Files  BY <1>1, <1>5, Names DEF Shaped, Exists
  <2>2. PICK i \in Ids : /\ act' = [act EXCEPT ![x].step = "write", ![x].id = i, ![x].to = None]
                          /\ owner' = [owner EXCEPT ![i] = f]
                          /\ displaced' = IF Shared(i, f) THEN displaced \cup {f, owner[i]} ELSE displaced
    BY <1>5, <2>1, PlacesAssumption DEF Fresh
  <2>3. /\ Alone(x) /\ act'[x].step = "write" /\ act'[x].at = act[x].at
        /\ act'[x].to = None /\ act'[x].bins = act[x].bins /\ act'[x].id = i
    BY <1>1, <2>2 DEF Alone, Acts, Steps
  <2>4. Grows /\ owner'[i] # None  BY <1>1, <2>1, <2>2, Names DEF Shaped, Grows
  <2>5. Shaped' /\ Owned'
    <3>1. displaced' \subseteq Files  BY <1>1, <2>1, <2>2 DEF Shaped, Shared
    <3> QED  BY <1>1, <1>2, <1>5, <2>1, <2>2, <2>4, <3>1 DEF Shaped, disk, bounds, Owned, Made, Grows
  <2>6. Fielded(act[x])'
    BY <1>1, <2>3, <2>4 DEF Fielded, Indexing, Binning, Made
  <2> QED  BY <1>2, <2>3, <2>4, <2>5, <2>6, MovesOn DEF ReqSteps, Binning, disk
<1> QED  BY <1>3, <1>4, <1>5 DEF Match

LEMMA WriteTyped == ASSUME Typed, NEW x \in Actors, Write(x) PROVE Typed'
<1>1. /\ act \in [Actors -> Acts] /\ act[x] \in Acts /\ act[x].at \in Paths /\ Made(act[x].id)
      /\ act[x].to \in Paths \cup {None} /\ Shaped /\ Owned /\ At(x, "write")
  BY Facts DEF Write, At, Fielded, Indexing
<1>2. /\ side' = [side EXCEPT ![act[x].at] = act[x].id]
      /\ UNCHANGED <<file, owner, row, process, lock, forgotten, displaced, bounds>>
      /\ due' \subseteq Paths /\ missed' \subseteq Paths
  BY <1>1, Noted DEF Write
<1>3. /\ Alone(x) /\ act'[x].step = (IF act[x].to # None THEN "sweep" ELSE "upsert")
      /\ act'[x].at = act[x].at /\ act'[x].to = act[x].to /\ act'[x].id = act[x].id
      /\ act'[x].bins = act[x].bins
  BY <1>1, StepsOn DEF Write, Steps
<1>4. Shaped' /\ Owned' /\ Grows
  BY <1>1, <1>2, Names DEF Shaped, bounds, Owned, Made, Grows
<1>5. Fielded(act[x])'
  BY <1>1, <1>2, <1>3 DEF Fielded, Indexing, Binning, Made
<1> QED  BY <1>2, <1>3, <1>4, <1>5, MovesOn DEF ReqSteps, Binning

LEMMA SweepTyped == ASSUME Typed, NEW x \in Actors, Sweep(x) PROVE Typed'
<1>1. /\ act \in [Actors -> Acts] /\ act[x] \in Acts /\ act[x].at \in Paths /\ Made(act[x].id)
      /\ act[x].to \in Paths /\ Shaped /\ Owned /\ At(x, "sweep")
  BY Facts DEF Sweep, At, Fielded, Indexing
<1>2. /\ side' = [side EXCEPT ![act[x].to] = None]
      /\ UNCHANGED <<file, owner, row, process, lock, forgotten, displaced, bounds>>
      /\ due' \subseteq Paths /\ missed' \subseteq Paths
  BY <1>1, Dismissed DEF Sweep
<1>3. /\ Alone(x) /\ act'[x].step = "upsert"
      /\ act'[x].at = act[x].at /\ act'[x].to = act[x].to /\ act'[x].id = act[x].id
      /\ act'[x].bins = act[x].bins
  BY <1>1, StepsOn DEF Sweep, Steps
<1>4. Shaped' /\ Owned' /\ Grows
  BY <1>1, <1>2, Names DEF Shaped, bounds, Owned, Made, Grows
<1>5. Fielded(act[x])'
  BY <1>1, <1>2, <1>3 DEF Fielded, Indexing, Binning, Made
<1> QED  BY <1>2, <1>3, <1>4, <1>5, MovesOn DEF ReqSteps, Binning

LEMMA UpsertTyped == ASSUME Typed, NEW x \in Actors, Upsert(x) PROVE Typed'
<1>1. /\ act \in [Actors -> Acts] /\ act[x] \in Acts /\ act[x].at \in Paths /\ Made(act[x].id)
      /\ Shaped /\ Owned /\ At(x, "upsert")
  BY Facts DEF Upsert, At, Fielded, Indexing
<1>2. Unlock(x) /\ Done(x) /\ UNCHANGED <<disk, due, owner, process, bounds>>
  BY DEF Upsert, Throw
<1>3. Alone(x) /\ act'[x].step \in {"idle", "next"} /\ act'[x].at \in {act[x].at, None}
      /\ act'[x].to \in {act[x].to, None} /\ (act'[x].bins = act[x].bins \/ act'[x].bins = {})
  BY <1>1, <1>2, StepsDone, IdleFields
<1>4. /\ row' = row \/ row' = [row EXCEPT ![act[x].id].at = act[x].at]
      /\ missed' \subseteq Paths /\ forgotten' \subseteq Files /\ displaced' \subseteq Files
  BY <1>1, Names, TrashFiles DEF Upsert, Shaped, Made
<1>5. Shaped' /\ Owned' /\ Grows
  <2>1. row' \in [Ids -> Rows]  BY <1>1, <1>4, Names DEF Shaped, Rows, Made
  <2>2. lock' \in [Paths -> Actors \cup {None}]  BY <1>1, <1>2 DEF Shaped, Unlock
  <2>3. Shaped'  BY <1>1, <1>2, <1>4, <2>1, <2>2 DEF Shaped, disk, bounds
  <2>4. \A j \in Ids : /\ row'[j].at # None => owner[j] # None
                       /\ row'[j].from # None => row'[j].at # None
    BY <1>1, <1>4, Names DEF Owned, Made, Shaped, Rows
  <2>5. owner' = owner /\ side' = side  BY <1>2 DEF disk
  <2>6. Owned'
    <3>1. \A q \in Places : side'[q] # None => Made(side[q])'
      BY <1>1, <2>5 DEF Owned, Made
    <3> QED  BY <2>4, <2>5, <3>1 DEF Owned
  <2>7. Grows  BY <2>5 DEF Grows
  <2> QED  BY <2>3, <2>6, <2>7
<1>6. Fielded(act[x])'  BY <1>3 DEF Fielded, Indexing, Binning
<1>7. \A j \in Ids : row'[j].at \in {row[j].at, None} \cup Paths
  BY <1>1, <1>4 DEF Shaped, Rows, Made
<1> QED  BY <1>2, <1>3, <1>5, <1>6, <1>7, MovesOn DEF ReqSteps, Binning, disk

-----------------------------------------------------------------------------
(* The reindex.                                                              *)

LEMMA ListTyped == ASSUME Typed, NEW x \in Actors, List(x) PROVE Typed'
<1>1. act \in [Actors -> Acts] /\ act[x] \in Acts /\ Shaped /\ Owned
  BY Facts
<1>2. missed' = {} /\ UNCHANGED <<disk, owner, row, process, due, lock, forgotten, displaced, bounds>>
  BY DEF List
<1>3. /\ Alone(x) /\ act'[x].step \in {"wipe", "idle", "next"}
      /\ act'[x].at = act[x].at /\ act'[x].to = act[x].to /\ act'[x].bins = act[x].bins
  <2>1. PICK s \in {"wipe", "idle", "next"}, t \in SUBSET Paths :
          act' = [act EXCEPT ![x].step = s, ![x].todo = t]
    BY DEF List, Present
  <2> QED  BY <1>1, <2>1 DEF Alone, Acts, Steps
<1>4. Shaped' /\ Owned' /\ Grows
  BY <1>1, <1>2 DEF Shaped, disk, bounds, Owned, Made, Grows
<1>5. Fielded(act[x])'  BY <1>3 DEF Fielded, Indexing, Binning
<1> QED  BY <1>2, <1>3, <1>4, <1>5, MovesOn DEF ReqSteps, Binning, disk

LEMMA WipeTyped == ASSUME Typed, NEW x \in Actors, Wipe(x) PROVE Typed'
<1>1. act \in [Actors -> Acts] /\ act[x] \in Acts /\ Shaped /\ Owned
  BY Facts
<1>2. UNCHANGED <<disk, owner, process, due, lock, bounds>> /\ row' = [i \in Ids |-> NoRow]
  BY DEF Wipe
<1>3. /\ Alone(x) /\ act'[x].step \in {"idle", "next"}
      /\ act'[x].at \in {act[x].at, None} /\ act'[x].to \in {act[x].to, None}
      /\ (act'[x].bins = act[x].bins \/ act'[x].bins = {})
  <2>1. CASE act' = [act EXCEPT ![x] = Idle]  BY <1>1, <2>1, IdleFields, Sets
  <2>2. CASE To(x, "next")  BY <1>1, <2>2, StepsOn DEF Steps
  <2> QED  BY <2>1, <2>2 DEF Wipe
<1>4. Shaped' /\ Owned' /\ Grows
  <2>1. forgotten' \subseteq Files /\ displaced' \subseteq Files /\ missed' \subseteq Paths
    BY <1>1, TrashFiles, StrayFiles DEF Wipe, Shaped
  <2>2. row' \in [Ids -> Rows] /\ \A i \in Ids : row'[i].at = None /\ row'[i].from = None
    BY <1>2 DEF Rows, NoRow
  <2> QED  BY <1>1, <1>2, <2>1, <2>2 DEF Shaped, disk, bounds, Owned, Made, Grows
<1>5. Fielded(act[x])'  BY <1>3 DEF Fielded, Indexing, Binning
<1>6. \A i \in Ids : row'[i].at = None  BY <1>2 DEF NoRow
<1> QED  BY <1>2, <1>3, <1>4, <1>5, <1>6, MovesOn DEF ReqSteps, Binning, disk

LEMMA NextFileTyped == ASSUME Typed, NEW x \in Actors, NextFile(x) PROVE Typed'
<1>1. act \in [Actors -> Acts] /\ act[x] \in Acts /\ Shaped /\ Owned
  BY Facts
<1>2. UNCHANGED <<disk, owner, row, process, lock, forgotten, displaced, bounds, due, missed>>
  BY DEF NextFile, Quiet
<1>3. PICK p \in act[x].todo :
        act' = [act EXCEPT ![x] = [Idle EXCEPT !.step = "lock", !.at = p,
                                                !.todo = act[x].todo \ {p}]]
  BY DEF NextFile
<1>4. p \in Paths /\ act[x].todo \subseteq Paths  BY <1>1 DEF Acts
<1>5. /\ Alone(x) /\ act'[x].step = "lock" /\ act'[x].at = p
      /\ act'[x].to = None /\ act'[x].bins = {}
  <2> DEFINE l == [Idle EXCEPT !.step = "lock", !.at = p, !.todo = act[x].todo \ {p}]
  <2>1. l \in Acts /\ l.step = "lock" /\ l.at = p /\ l.to = None /\ l.bins = {}
    BY <1>4, IdleFields, Names DEF Acts, Steps
  <2> QED  BY <1>1, <1>3, <2>1, Sets
<1>6. Shaped' /\ Owned' /\ Grows
  BY <1>1, <1>2 DEF Shaped, disk, bounds, Owned, Made, Grows
<1>7. Fielded(act[x])'  BY <1>4, <1>5 DEF Fielded, Indexing, Binning
<1> QED  BY <1>2, <1>4, <1>5, <1>6, <1>7, MovesOn DEF ReqSteps, Binning, disk

LEMMA ReadyTyped == ASSUME Typed, Ready PROVE Typed'
<1> DEFINE x == "starter"
<1>0. x \in Actors  BY Names
<1>1. act \in [Actors -> Acts] /\ act[x] \in Acts /\ Shaped /\ Owned
  BY <1>0, Facts
<1>2. UNCHANGED <<disk, owner, row, lock, forgotten, displaced, bounds, due, missed>> /\ process' = "up"
  BY DEF Ready, Quiet
<1>3. Alone(x) /\ act'[x] = Idle  BY <1>0, <1>1, IdleFields, Sets DEF Ready
<1>4. Shaped' /\ Owned' /\ Grows
  BY <1>1, <1>2 DEF Shaped, disk, bounds, Owned, Made, Grows
<1>5. Fielded(act[x])'  BY <1>3, IdleFields DEF Fielded, Indexing, Binning
<1> QED  BY <1>0, <1>2, <1>3, <1>4, <1>5, IdleFields, MovesOn DEF ReqSteps, Binning, disk

-----------------------------------------------------------------------------
(* The requests.                                                             *)

LEMMA Asks ==
    ASSUME Typed, NEW u \in Requests, NEW l \in Acts, Free(u), Begin(u, l), Quiet,
           UNCHANGED <<disk, owner, row, process, lock, forgotten, displaced, moves, boots>>,
           Fielded(l), l.step \notin {"purge", "delete"}, l.bins = {},
           l.at \in Known(u), l.to \in Known(u), l.step \in Binning => Reserved(u)'
    PROVE  Typed'
<1>1. act \in [Actors -> Acts] /\ Shaped /\ Owned /\ u \in Actors
  BY Facts, Names
<1>2. Alone(u) /\ act'[u] = l  BY <1>1, Sets DEF Begin
<1>3. Shaped' /\ Owned' /\ Grows
  BY <1>1, RequestsAssumption DEF Shaped, disk, Owned, Made, Grows, Begin, Free, Quiet
<1>4. Fielded(act[u])'  BY <1>2 DEF Fielded, Made
<1>5. \A e \in act'["worker"].bins : e[1] \in Known(u)  BY <1>1, <1>2, ListKeeps
<1>6. Reserved(u)'  BY <1>2 DEF Reserved
<1>7. \A i \in Ids : row'[i].at \in Known(u)  BY <1>1, Facts
<1> QED  BY <1>1, <1>2, <1>3, <1>4, <1>5, <1>6, <1>7, Moves DEF disk

LEMMA AskScanTyped == ASSUME Typed, NEW u \in Requests, AskScan(u) PROVE Typed'
<1>1. PICK op \in Operations \cap {"import", "reindex"} :
        Begin(u, [Idle EXCEPT !.step = IF op = "import" THEN "scan" ELSE "list"])
  BY DEF AskScan
<1> DEFINE l == [Idle EXCEPT !.step = IF op = "import" THEN "scan" ELSE "list"]
<1>2. /\ l \in Acts /\ l.step \in {"scan", "list"} /\ l.at = None /\ l.to = None /\ l.bins = {}
  BY IdleFields, Names DEF Acts, Steps
<1>3. None \in Known(u)  BY Facts, Names
<1>4. Fielded(l)  BY <1>2 DEF Fielded, Indexing, Binning
<1> HIDE DEF l
<1> QED  BY <1>1, <1>2, <1>3, <1>4, Asks DEF AskScan, Binning, l

LEMMA AskEditTyped == ASSUME Typed, NEW u \in Requests, AskEdit(u) PROVE Typed'
<1>1. PICK i \in Ids :
        /\ Asset(i) /\ side[row[i].at] # None
        /\ Begin(u, [Idle EXCEPT !.step = "note", !.at = row[i].at, !.seen = side[row[i].at]])
  BY DEF AskEdit
<1> DEFINE l == [Idle EXCEPT !.step = "note", !.at = row[i].at, !.seen = side[row[i].at]]
<1>2. /\ row[i].at \in Paths /\ Made(side[row[i].at]) /\ u \in Actors
  BY <1>1, Names DEF Asset, Typed, Owned
<1>3. /\ l \in Acts /\ l.step = "note" /\ l.at = row[i].at /\ l.to = None /\ l.bins = {}
      /\ l.seen = side[row[i].at]
  BY <1>2, IdleFields, Names DEF Acts, Steps, Made
<1>4. None \in Known(u) /\ l.at \in Known(u)  BY <1>2, <1>3, Facts
<1>5. Fielded(l)  BY <1>2, <1>3 DEF Fielded, Indexing, Binning
<1> HIDE DEF l
<1> QED  BY <1>1, <1>3, <1>4, <1>5, Asks DEF AskEdit, Binning, l

LEMMA AskRecoverTyped == ASSUME Typed, NEW u \in Requests, AskRecover(u) PROVE Typed'
<1>1. PICK i \in Ids :
        /\ row[i].at # None
        /\ Begin(u, [Idle EXCEPT !.step = "forget", !.at = row[i].at, !.id = i])
  BY DEF AskRecover
<1> DEFINE l == [Idle EXCEPT !.step = "forget", !.at = row[i].at, !.id = i]
<1>2. row[i].at \in Places /\ u \in Actors
  BY <1>1, Names DEF Typed, TypeOK, Rows
<1>3. /\ l \in Acts /\ l.step = "forget" /\ l.at = row[i].at /\ l.to = None /\ l.bins = {} /\ l.id = i
  BY <1>2, IdleFields, Names DEF Acts, Steps
<1>4. None \in Known(u) /\ l.at \in Known(u)  BY <1>2, <1>3, Facts
<1>5. Fielded(l)  BY <1>2, <1>3 DEF Fielded, Indexing, Binning
<1> HIDE DEF l
<1> QED  BY <1>1, <1>3, <1>4, <1>5, Asks DEF AskRecover, Binning, l

LEMMA AskTrashTyped == ASSUME Typed, NEW u \in Requests, AskTrash(u) PROVE Typed'
<1>1. PICK i \in Ids, b \in EmptyBin :
        /\ Asset(i)
        /\ Begin(u, [Idle EXCEPT !.step = "bin", !.at = row[i].at, !.to = b, !.id = i,
                                !.seen = side[row[i].at]])
  BY DEF AskTrash
<1> DEFINE l == [Idle EXCEPT !.step = "bin", !.at = row[i].at, !.to = b, !.id = i,
                             !.seen = side[row[i].at]]
<1>2. /\ row[i].at \in Paths /\ u \in Actors /\ b \in Bins
      /\ side[row[i].at] \in Ids \cup {None}
      /\ side[row[i].at] # None => Made(side[row[i].at])
  BY <1>1, Names DEF Asset, Typed, TypeOK, Owned, EmptyBin
<1>3. /\ l \in Acts /\ l.step = "bin" /\ l.at = row[i].at /\ l.to = b /\ l.bins = {} /\ l.id = i
      /\ l.seen = side[row[i].at]
  BY <1>2, IdleFields, Names DEF Acts, Steps
<1>4. l.to \in Known(u) /\ l.at \in Known(u)  BY <1>1, <1>2, <1>3, Facts
<1>5. Fielded(l)  BY <1>2, <1>3 DEF Fielded, Indexing, Binning
<1> HIDE DEF l
<1>6. Alone(u) /\ act'[u] = l  BY <1>1, <1>2, <1>3, Facts, Sets DEF Begin, l
<1>7. file' = file /\ row' = row  BY DEF AskTrash, disk
<1>8. Reserved(u)'
  <2>1. /\ file[b] = None /\ \A j \in Ids : row[j].at # b
        /\ \A x \in Actors : act[x].to # b /\ act[x].at # b
        /\ \A e \in act["worker"].bins : e[1] # b
    BY <1>1 DEF EmptyBin
  <2>2. "worker" \in Actors \ {u}  BY Names
  <2> QED  BY <1>3, <1>6, <1>7, <2>1, <2>2 DEF Reserved, Alone
<1> QED  BY <1>1, <1>3, <1>4, <1>5, <1>8, Asks DEF AskTrash, l

LEMMA AskRestoreTyped == ASSUME Typed, NEW u \in Requests, AskRestore(u) PROVE Typed'
<1>1. PICK i \in Ids :
        /\ Trashed(i) /\ Exists(row[i].at)
        /\ Begin(u, [Idle EXCEPT !.step = "out", !.at = row[i].at, !.id = i,
                !.to = IF Exists(row[i].from) THEN Beside[row[i].from] ELSE row[i].from])
  BY DEF AskRestore
<1> DEFINE l == [Idle EXCEPT !.step = "out", !.at = row[i].at, !.id = i,
                !.to = IF Exists(row[i].from) THEN Beside[row[i].from] ELSE row[i].from]
<1>2. row[i].at \in Places /\ row[i].from \in Paths /\ u \in Actors
  BY <1>1, Names DEF Typed, TypeOK, Owned, Rows, Trashed
<1>3. Beside[row[i].from] \in Paths  BY <1>2, PlacesAssumption
<1>4. /\ l \in Acts /\ l.step = "out" /\ l.at = row[i].at /\ l.to \in Paths /\ l.bins = {} /\ l.id = i
  BY <1>2, <1>3, IdleFields, Names DEF Acts, Steps
<1>5. l.to \in Known(u) /\ l.at \in Known(u)  BY <1>2, <1>4, Facts
<1>6. Fielded(l)  BY <1>2, <1>4 DEF Fielded, Indexing, Binning
<1> HIDE DEF l
<1> QED  BY <1>1, <1>4, <1>5, <1>6, Asks DEF AskRestore, Binning, l

LEMMA AskCopyTyped == ASSUME Typed, NEW u \in Requests, AskCopy(u) PROVE Typed'
<1>1. PICK p \in Paths, f \in New :
        /\ file' = [file EXCEPT ![p] = f]
        /\ displaced' = displaced \cup Clash(f, p) \cup Crossed(f, p, Actors \ {u})
        /\ Notice({p})
        /\ Begin(u, [Idle EXCEPT !.step = "lock", !.at = p])
  BY DEF AskCopy
<1> DEFINE l == [Idle EXCEPT !.step = "lock", !.at = p]
<1>2. /\ act \in [Actors -> Acts] /\ Shaped /\ Owned /\ u \in Actors /\ f \in Files /\ p \in Places
      /\ p \notin Bins
  BY Facts, Names DEF New
<1>3. UNCHANGED <<side, owner, row, process, lock, forgotten, moves, boots>>  BY DEF AskCopy
<1>4. l \in Acts /\ l.step = "lock" /\ l.at = p /\ l.to = None /\ l.bins = {}
  BY IdleFields, Names DEF Acts, Steps
<1>5. Alone(u) /\ act'[u] = l
  <2> HIDE DEF l
  <2> QED  BY <1>1, <1>2, <1>4, Sets DEF Begin, l
<1> HIDE DEF l
<1>6. Shaped' /\ Owned' /\ Grows
  <2>1. due' \subseteq Paths /\ missed' \subseteq Paths  BY <1>1, <1>2, Noted
  <2>2. displaced' \subseteq Files  BY <1>1, <1>2, ClashFiles, CrossedFiles DEF Shaped
  <2>3. calls' \in 0 .. MaxCalls
    BY <1>1, <1>2, RequestsAssumption DEF Shaped, Begin, AskCopy, Free
  <2> QED  BY <1>1, <1>2, <1>3, <2>1, <2>2, <2>3 DEF Shaped, Owned, Made, Grows
<1>7. Fielded(act[u])'  BY <1>4, <1>5 DEF Fielded, Indexing, Binning
<1>8. \A b \in Bins : file'[b] = file[b]  BY <1>1, <1>2
<1> QED  BY <1>2, <1>3, <1>4, <1>5, <1>6, <1>7, <1>8, MovesOn DEF ReqSteps, Binning

LEMMA NoteTyped == ASSUME Typed, NEW u \in Requests, Note(u) PROVE Typed'
<1>1. /\ act \in [Actors -> Acts] /\ act[u] \in Acts /\ act[u].at \in Paths /\ Made(act[u].seen)
      /\ Shaped /\ Owned /\ u \in Actors /\ At(u, "note")
  BY Facts, Names DEF Note, At, Fielded, Indexing
<1>2. /\ side' = [side EXCEPT ![act[u].at] = act[u].seen]
      /\ UNCHANGED <<file, owner, row, process, lock, forgotten, displaced, bounds>>
      /\ due' \subseteq Paths /\ missed' \subseteq Paths
  BY <1>1, Noted DEF Note
<1>3. /\ Alone(u) /\ act'[u].step = "lock" /\ act'[u].at = act[u].at /\ act'[u].to = act[u].to
      /\ act'[u].bins = act[u].bins
  BY <1>1, StepsOn DEF Note, Steps
<1>4. Shaped' /\ Owned' /\ Grows
  BY <1>1, <1>2, Names DEF Shaped, bounds, Owned, Made, Grows
<1>5. Fielded(act[u])'  BY <1>1, <1>3 DEF Fielded, Indexing, Binning
<1> QED  BY <1>1, <1>2, <1>3, <1>4, <1>5, MovesOn DEF ReqSteps, Binning

\* A row that goes leaves no place behind.
LEMMA RowGoes ==
    ASSUME Shaped, Owned, NEW i \in Ids, row' = [row EXCEPT ![i] = NoRow], UNCHANGED owner
    PROVE  /\ row' \in [Ids -> Rows]
           /\ \A j \in Ids : row'[j].at # None => owner'[j] # None
           /\ \A j \in Ids : row'[j].from # None => row'[j].at # None
           /\ \A j \in Ids : row'[j].at \in {row[j].at, None}
<1>1. NoRow \in Rows /\ NoRow.at = None /\ NoRow.from = None  BY DEF NoRow, Rows
<1>2. row'[i] = NoRow /\ \A j \in Ids \ {i} : row'[j] = row[j]  BY DEF Shaped
<1>3. row' \in [Ids -> Rows]  BY <1>1 DEF Shaped
<1> QED  BY <1>1, <1>2, <1>3 DEF Owned

LEMMA ForgetTyped == ASSUME Typed, NEW u \in Requests, Forget(u) PROVE Typed'
<1>1. /\ act \in [Actors -> Acts] /\ act[u] \in Acts /\ act[u].at \in Places /\ act[u].id \in Ids
      /\ Shaped /\ Owned /\ u \in Actors /\ At(u, "forget")
  BY Facts, Names DEF Forget, At, Fielded, Binning
<1>2. UNCHANGED <<disk, owner, process, lock, bounds, due>>  BY DEF Forget
<1>3. /\ row' \in [Ids -> Rows]
      /\ \A j \in Ids : row'[j].at # None => owner'[j] # None
      /\ \A j \in Ids : row'[j].from # None => row'[j].at # None
      /\ \A j \in Ids : row'[j].at \in {row[j].at, None}
  BY <1>1, <1>2, RowGoes DEF Forget
<1>4. /\ Alone(u) /\ act'[u].at \in {act[u].at, None} /\ act'[u].to \in {act[u].to, None}
      /\ (act'[u].bins = act[u].bins \/ act'[u].bins = {})
      /\ \/ act'[u].step = "lock" /\ act'[u].at \in Paths
         \/ act'[u].step = "idle"
  <2>1. CASE act[u].at \in Paths
    <3>1. act' = [act EXCEPT ![u] = [act[u] EXCEPT !.step = "lock", !.id = None]]
      BY <1>1, <2>1 DEF Forget
    <3> QED  BY <1>1, <2>1, <3>1 DEF Alone, Acts, Steps
  <2>2. CASE act[u].at \notin Paths
    <3>1. act' = [act EXCEPT ![u] = Idle]  BY <1>1, <2>2 DEF Forget
    <3> QED  BY <1>1, <3>1, IdleFields, Sets
  <2> QED  BY <2>1, <2>2
<1>5. Shaped' /\ Owned' /\ Grows
  <2>1. forgotten' \subseteq Files /\ displaced' \subseteq Files /\ missed' \subseteq Paths
    BY <1>1, TrashFiles, StrayFiles, Overtaken DEF Forget, Shaped
  <2> QED  BY <1>1, <1>2, <1>3, <2>1 DEF Shaped, disk, bounds, Owned, Made, Grows
<1>6. Fielded(act[u])'  BY <1>4 DEF Fielded, Indexing, Binning
<1> QED  BY <1>1, <1>2, <1>3, <1>4, <1>5, <1>6, MovesOn DEF ReqSteps, Binning, disk

-----------------------------------------------------------------------------
(* Moving to the Trash and back.                                             *)

LEMMA BinTyped == ASSUME Typed, NEW u \in Requests, Bin(u) PROVE Typed'
<1>1. /\ act \in [Actors -> Acts] /\ act[u] \in Acts /\ act[u].at \in Paths /\ act[u].to \in Bins
      /\ act[u].id \in Ids /\ (act[u].seen # None => Made(act[u].seen))
      /\ Shaped /\ Owned /\ u \in Actors /\ At(u, "bin") /\ Reserved(u) /\ act[u].to \in Known(u)
  BY Facts, Names DEF Bin, At, Fielded, Binning
<1>2. UNCHANGED <<side, owner, row, process, lock, forgotten, bounds, due, missed>>
  BY DEF Bin, Quiet
<1>3. CASE /\ Exists(act[u].at)
           /\ Rename(act[u].at, act[u].to, Actors \ {u})
           /\ To(u, IF act[u].seen # None THEN "stamp" ELSE "carry")
  <2>1. file[act[u].at] \in Files /\ act[u].at \in Places /\ act[u].to \in Places /\ act[u].at # act[u].to
    BY <1>1, <1>3, Names DEF Shaped, Exists
  <2>2. /\ Alone(u) /\ act'[u].at = act[u].at /\ act'[u].to = act[u].to /\ act'[u].id = act[u].id
        /\ act'[u].seen = act[u].seen /\ act'[u].bins = act[u].bins
        /\ act'[u].step = (IF act[u].seen # None THEN "stamp" ELSE "carry")
    BY <1>1, <1>3, StepsOn DEF Steps
  <2>3. /\ file' \in [Places -> Files \cup {None}] /\ file'[act[u].to] # None
        /\ \A b \in Bins \ {act[u].to} : file'[b] = file[b]
    BY <1>1, <1>3, <2>1, Names DEF Rename, Shaped
  <2>4. Shaped' /\ Owned' /\ Grows
    BY <1>1, <1>2, <1>3, <2>1, <2>3, ClashFiles, CrossedFiles DEF Shaped, bounds, Owned, Made, Grows, Rename
  <2>5. Fielded(act[u])'
    BY <1>1, <1>2, <2>2 DEF Fielded, Indexing, Binning, Made
  <2>6. Reserved(u)'
    <3>1. "worker" \in Actors \ {u}  BY Names
    <3> QED  BY <1>1, <1>2, <2>2, <2>3, <3>1 DEF Reserved, Alone, At, Binning
  <2>7. \A e \in act'["worker"].bins : e[1] \in Known(u)  BY <1>1, <2>2, ListKeeps
  <2>8. \A b \in Bins \ Known(u) : file'[b] = file[b]  BY <1>1, <2>3
  <2> QED  BY <1>1, <1>2, <2>2, <2>4, <2>5, <2>6, <2>7, <2>8, Moves, Facts
<1>4. CASE act' = [act EXCEPT ![u] = Idle] /\ UNCHANGED <<file, displaced>>
  <2>1. Alone(u) /\ act'[u] = Idle  BY <1>1, <1>4, IdleFields, Sets
  <2>2. Shaped' /\ Owned' /\ Grows
    BY <1>1, <1>2, <1>4 DEF Shaped, bounds, Owned, Made, Grows
  <2>3. Fielded(act[u])'  BY <2>1, IdleFields DEF Fielded, Indexing, Binning
  <2> QED  BY <1>1, <1>2, <1>4, <2>1, <2>2, <2>3, IdleFields, MovesOn DEF ReqSteps, Binning
<1> QED  BY <1>3, <1>4 DEF Bin

\* A deletion on its way, once the file is in the Trash.
LEMMA Goes ==
    ASSUME Typed, NEW u \in Requests, NEW s \in Binning \ {"bin", "stamp"},
           act[u].step \in Binning \ {"bin"}, To(u, s), Shaped', Owned',
           UNCHANGED <<file, row, owner>>
    PROVE  Typed'
<1>1. /\ act \in [Actors -> Acts] /\ act[u].at \in Paths /\ act[u].to \in Bins /\ act[u].id \in Ids
      /\ u \in Actors /\ Reserved(u)
  BY Facts, Names DEF Fielded, Binning
<1>2. /\ Alone(u) /\ act'[u].at = act[u].at /\ act'[u].to = act[u].to /\ act'[u].id = act[u].id
      /\ act'[u].bins = act[u].bins /\ act'[u].step = s
  BY <1>1, StepsOn DEF Steps, Binning
<1>3. Fielded(act[u])'  BY <1>1, <1>2 DEF Fielded, Indexing, Binning
<1>4. Reserved(u)'
  <2>1. "worker" \in Actors \ {u}  BY Names
  <2> QED  BY <1>1, <1>2, <2>1 DEF Reserved, Alone, Binning
<1>5. \A e \in act'["worker"].bins : e[1] \in Known(u)  BY <1>1, <1>2, ListKeeps
<1> QED  BY <1>1, <1>2, <1>3, <1>4, <1>5, Moves, Facts DEF Grows, Binning

LEMMA StampTyped == ASSUME Typed, NEW u \in Requests, Stamp(u) PROVE Typed'
<1>1. /\ act[u].to \in Places /\ Made(act[u].seen) /\ Shaped /\ Owned /\ act[u].step = "stamp"
  BY Facts, Names DEF Stamp, At, Fielded, Binning
<1>2. /\ side' = [side EXCEPT ![act[u].to] = act[u].seen] /\ To(u, "unlink")
      /\ UNCHANGED <<file, owner, row, process, lock, forgotten, displaced, bounds, due, missed>>
  BY DEF Stamp, Quiet
<1>3. Shaped' /\ Owned'  BY <1>1, <1>2 DEF Shaped, bounds, Owned, Made
<1> QED  BY <1>1, <1>2, <1>3, Goes DEF Binning

LEMMA UnlinkTyped == ASSUME Typed, NEW u \in Requests, Unlink(u) PROVE Typed'
<1>1. /\ act[u].at \in Paths /\ act[u].at \in Places /\ Shaped /\ Owned /\ act[u].step = "unlink"
  BY Facts, Names DEF Unlink, At, Fielded, Binning
<1>2. /\ side' = [side EXCEPT ![act[u].at] = None] /\ To(u, "trashed")
      /\ UNCHANGED <<file, owner, row, process, lock, forgotten, displaced, bounds>>
      /\ due' \subseteq Paths /\ missed' \subseteq Paths
  BY <1>1, Dismissed DEF Unlink
<1>3. Shaped' /\ Owned'  BY <1>1, <1>2 DEF Shaped, bounds, Owned, Made
<1> QED  BY <1>1, <1>2, <1>3, Goes DEF Binning

\* A sidecar that is moved.
LEMMA SideMoves ==
    ASSUME Shaped, Owned, NEW p \in Places, NEW q \in Places, UNCHANGED owner,
           side' = IF side[p] = None THEN side ELSE [side EXCEPT ![p] = None, ![q] = side[p]]
    PROVE  /\ side' \in [Places -> Ids \cup {None}]
           /\ \A r \in Places : side'[r] # None => Made(side[r])'
  BY DEF Shaped, Owned, Made

LEMMA CarryTyped == ASSUME Typed, NEW u \in Requests, Carry(u) PROVE Typed'
<1>1. /\ act[u].at \in Paths /\ act[u].at \in Places /\ act[u].to \in Places
      /\ Shaped /\ Owned /\ act[u].step = "carry"
  BY Facts, Names DEF Carry, At, Fielded, Binning
<1>2. /\ side' = IF side[act[u].at] = None THEN side
                 ELSE [side EXCEPT ![act[u].at] = None, ![act[u].to] = side[act[u].at]]
      /\ To(u, "trashed")
      /\ UNCHANGED <<file, owner, row, process, lock, forgotten, displaced, bounds>>
      /\ due' \subseteq Paths /\ missed' \subseteq Paths
  BY <1>1, Dismissed DEF Carry
<1>3. /\ side' \in [Places -> Ids \cup {None}]
      /\ \A r \in Places : side'[r] # None => Made(side[r])'
  BY <1>1, <1>2, SideMoves
<1>4. Shaped'  BY <1>1, <1>2, <1>3 DEF Shaped, bounds
<1>5. Owned'  BY <1>1, <1>2, <1>3 DEF Owned
<1> QED  BY <1>1, <1>2, <1>4, <1>5, Goes DEF Binning

LEMMA TrashTyped == ASSUME Typed, NEW u \in Requests, Trash(u) PROVE Typed'
<1>1. /\ act \in [Actors -> Acts] /\ act[u] \in Acts /\ act[u].at \in Paths /\ act[u].to \in Bins
      /\ act[u].id \in Ids /\ act[u].to \in Known(u) /\ file[act[u].to] \in Files
      /\ Shaped /\ Owned /\ u \in Actors /\ act[u].step = "trashed"
  <2>1. Reserved(u) /\ u \in Actors /\ Fielded(act[u]) /\ act[u].step = "trashed" /\ Shaped
    BY Facts, Names DEF Trash, At
  <2>2. act[u].to \in Bins /\ file[act[u].to] # None  BY <2>1 DEF Reserved, Fielded, Binning
  <2> QED  BY <2>1, <2>2, Facts, Names DEF Fielded, Binning, Shaped
<1>2. UNCHANGED <<disk, owner, process, due, lock, bounds>> /\ act' = [act EXCEPT ![u] = Idle]
  BY DEF Trash
<1>3. Alone(u) /\ act'[u] = Idle  BY <1>1, <1>2, IdleFields, Sets
<1>4. forgotten' \subseteq Files /\ displaced' \subseteq Files /\ missed' \subseteq Paths
  BY <1>1, TrashFiles, StrayFiles, Overtaken DEF Trash, Shaped
<1>5. /\ row' \in [Ids -> Rows]
      /\ \A j \in Ids : row'[j].at # None => owner'[j] # None
      /\ \A j \in Ids : row'[j].from # None => row'[j].at # None
      /\ \A j \in Ids : row'[j].at \in {row[j].at, act[u].to}
  <2> DEFINE l == [at |-> act[u].to, from |-> act[u].at]
  <2>1. l \in Rows /\ l.at = act[u].to /\ l.at # None  BY <1>1, Names DEF Rows
  <2>2. \/ row' = row
        \/ row[act[u].id].at # None /\ row' = [row EXCEPT ![act[u].id] = l]
    BY DEF Trash
  <2> HIDE DEF l
  <2> QED  BY <1>1, <1>2, <2>1, <2>2 DEF Shaped, Owned
<1>6. Shaped'  BY <1>1, <1>2, <1>4, <1>5 DEF Shaped, disk, bounds
<1>7. Owned' /\ Grows  BY <1>1, <1>2, <1>5 DEF Owned, Made, Grows, disk
<1>8. Fielded(act[u])' /\ Reserved(u)'
  BY <1>3, IdleFields DEF Fielded, Indexing, Binning, Reserved
<1>9. /\ \A e \in act'["worker"].bins : e[1] \in Known(u)
      /\ \A j \in Ids : row'[j].at \in Known(u)
      /\ \A b \in Bins \ Known(u) : file'[b] = file[b]
      /\ None \in Known(u)
  BY <1>1, <1>2, <1>3, <1>5, IdleFields, ListKeeps, Facts DEF disk
<1> QED  BY <1>1, <1>3, <1>6, <1>7, <1>8, <1>9, IdleFields, Moves DEF ReqSteps

LEMMA OutTyped == ASSUME Typed, NEW u \in Requests, Out(u) PROVE Typed'
<1>1. /\ act \in [Actors -> Acts] /\ act[u] \in Acts /\ act[u].at \in Places /\ act[u].to \in Paths
      /\ act[u].id \in Ids /\ Shaped /\ Owned /\ u \in Actors /\ act[u].step = "out"
      /\ act[u].at \in Known(u) /\ act[u].to \in Places
  BY Facts, Names DEF Out, At, Fielded
<1>2. UNCHANGED <<side, owner, row, process, lock, forgotten, bounds>>
  BY DEF Out
<1>3. CASE /\ Exists(act[u].at)
           /\ Rename(act[u].at, act[u].to, Actors \ {u})
           /\ Notice({act[u].to})
           /\ To(u, "follow")
  <2>1. file[act[u].at] \in Files  BY <1>1, <1>3 DEF Shaped, Exists
  <2>2. /\ Alone(u) /\ act'[u].at = act[u].at /\ act'[u].to = act[u].to /\ act'[u].id = act[u].id
        /\ act'[u].bins = act[u].bins /\ act'[u].step = "follow"
    BY <1>1, <1>3, StepsOn DEF Steps
  <2>3. /\ file' \in [Places -> Files \cup {None}]
        /\ \A b \in Bins \ {act[u].at} : file'[b] = file[b]
    BY <1>1, <1>3, <2>1, Names DEF Rename, Shaped
  <2>4. due' \subseteq Paths /\ missed' \subseteq Paths  BY <1>1, <1>3, Noted
  <2>5. Shaped' /\ Owned' /\ Grows
    BY <1>1, <1>2, <1>3, <2>1, <2>3, <2>4, ClashFiles, CrossedFiles DEF Shaped, bounds, Owned, Made, Grows, Rename
  <2>6. Fielded(act[u])'  BY <1>1, <2>2 DEF Fielded, Indexing, Binning
  <2>7. \A e \in act'["worker"].bins : e[1] \in Known(u)  BY <1>1, <2>2, ListKeeps
  <2>8. \A b \in Bins \ Known(u) : file'[b] = file[b]  BY <1>1, <2>3
  <2>9. Reserved(u)'  BY <2>2 DEF Reserved, Binning
  <2> QED  BY <1>1, <1>2, <2>2, <2>5, <2>6, <2>7, <2>8, <2>9, Moves, Facts
<1>4. CASE act' = [act EXCEPT ![u] = Idle] /\ Quiet /\ UNCHANGED <<file, displaced>>
  <2>1. Alone(u) /\ act'[u] = Idle  BY <1>1, <1>4, IdleFields, Sets
  <2>2. Shaped' /\ Owned' /\ Grows
    BY <1>1, <1>2, <1>4 DEF Shaped, bounds, Owned, Made, Grows, Quiet
  <2>3. Fielded(act[u])'  BY <2>1, IdleFields DEF Fielded, Indexing, Binning
  <2> QED  BY <1>1, <1>2, <1>4, <2>1, <2>2, <2>3, IdleFields, MovesOn DEF ReqSteps, Binning
<1> QED  BY <1>3, <1>4 DEF Out

LEMMA FollowTyped == ASSUME Typed, NEW u \in Requests, Follow(u) PROVE Typed'
<1>1. /\ act \in [Actors -> Acts] /\ act[u].at \in Places /\ act[u].to \in Paths /\ act[u].to \in Places
      /\ act[u].id \in Ids /\ Shaped /\ Owned /\ u \in Actors /\ act[u].step = "follow"
  BY Facts, Names DEF Follow, At, Fielded
<1>2. /\ side' = IF side[act[u].at] = None THEN side
                 ELSE [side EXCEPT ![act[u].at] = None, ![act[u].to] = side[act[u].at]]
      /\ UNCHANGED <<file, owner, row, process, lock, forgotten, displaced, bounds>>
      /\ due' \subseteq Paths /\ missed' \subseteq Paths
  BY <1>1, Noted DEF Follow
<1>3. /\ side' \in [Places -> Ids \cup {None}]
      /\ \A r \in Places : side'[r] # None => Made(side[r])'
  BY <1>1, <1>2, SideMoves
<1>4. /\ Alone(u) /\ act'[u].at = act[u].at /\ act'[u].to = act[u].to /\ act'[u].id = act[u].id
      /\ act'[u].bins = act[u].bins /\ act'[u].step = "restored"
  BY <1>1, StepsOn DEF Follow, Steps
<1>5. Shaped'  BY <1>1, <1>2, <1>3 DEF Shaped, bounds
<1>6. Owned' /\ Grows  BY <1>1, <1>2, <1>3 DEF Owned, Grows
<1>7. Fielded(act[u])'  BY <1>1, <1>4 DEF Fielded, Indexing, Binning
<1> QED  BY <1>1, <1>2, <1>4, <1>5, <1>6, <1>7, MovesOn DEF ReqSteps, Binning

LEMMA RestoreTyped == ASSUME Typed, NEW u \in Requests, Restore(u) PROVE Typed'
<1>1. /\ act \in [Actors -> Acts] /\ act[u].at \in Places /\ act[u].to \in Paths
      /\ act[u].id \in Ids /\ Shaped /\ Owned /\ u \in Actors /\ act[u].step = "restored"
  BY Facts, Names DEF Restore, At, Fielded
<1>2. UNCHANGED <<disk, owner, process, due, lock, bounds>> /\ act' = [act EXCEPT ![u] = Idle]
  BY DEF Restore
<1>3. Alone(u) /\ act'[u] = Idle  BY <1>1, <1>2, IdleFields, Sets
<1>4. forgotten' \subseteq Files /\ displaced' \subseteq Files /\ missed' \subseteq Paths
  BY <1>1, TrashFiles, StrayFiles, Overtaken DEF Restore, Shaped
<1>5. /\ row' \in [Ids -> Rows]
      /\ \A j \in Ids : row'[j].at # None => owner'[j] # None
      /\ \A j \in Ids : row'[j].from # None => row'[j].at # None
      /\ \A j \in Ids : row'[j].at \in {row[j].at, act[u].to}
  <2> DEFINE l == [at |-> act[u].to, from |-> None]
  <2>1. l \in Rows /\ l.at = act[u].to /\ l.from = None  BY <1>1, Names DEF Rows
  <2>2. \/ row' = row
        \/ row[act[u].id].at # None /\ row' = [row EXCEPT ![act[u].id] = l]
    BY DEF Restore
  <2> HIDE DEF l
  <2> QED  BY <1>1, <1>2, <2>1, <2>2 DEF Shaped, Owned
<1>6. Shaped'  BY <1>1, <1>2, <1>4, <1>5 DEF Shaped, disk, bounds
<1>7. Owned' /\ Grows  BY <1>1, <1>2, <1>5 DEF Owned, Made, Grows, disk
<1>8. Fielded(act[u])'  BY <1>3, IdleFields DEF Fielded, Indexing, Binning
<1> QED  BY <1>1, <1>2, <1>3, <1>5, <1>6, <1>7, <1>8, IdleFields, MovesOn DEF ReqSteps, Binning, disk

-----------------------------------------------------------------------------
(* The worker.                                                               *)

LEMMA ImportTyped == ASSUME Typed, Import PROVE Typed'
<1> DEFINE x == "worker"
<1>1. act \in [Actors -> Acts] /\ x \in Actors /\ Shaped /\ Owned
  BY Names, Facts
<1>2. PICK p \in due :
        /\ due' = due \ {p}
        /\ act' = [act EXCEPT !["worker"] = [Idle EXCEPT !.step = "lock", !.at = p]]
  BY DEF Import
<1>3. UNCHANGED <<disk, owner, row, process, missed, lock, forgotten, displaced, bounds>>
  BY DEF Import
<1>4. p \in Paths  BY <1>1 DEF Shaped
<1> DEFINE l == [Idle EXCEPT !.step = "lock", !.at = p]
<1>5. l \in Acts /\ l.step = "lock" /\ l.at = p /\ l.to = None /\ l.bins = {}
  BY <1>4, IdleFields, Names DEF Acts, Steps
<1> HIDE DEF l
<1>6. Alone(x) /\ act'[x] = l  BY <1>1, <1>2, <1>5, Sets DEF l
<1>7. Shaped' /\ Owned' /\ Grows
  BY <1>1, <1>2, <1>3 DEF Shaped, disk, bounds, Owned, Made, Grows
<1>8. Fielded(act[x])'  BY <1>4, <1>5, <1>6 DEF Fielded, Indexing, Binning
<1> QED  BY <1>1, <1>3, <1>4, <1>5, <1>6, <1>7, <1>8, MovesOn DEF ReqSteps, Binning, disk

LEMMA PurgeTyped == ASSUME Typed, Purge PROVE Typed'
<1> DEFINE x == "worker"
<1>1. act \in [Actors -> Acts] /\ x \in Actors /\ Shaped /\ Owned
  BY Names, Facts
<1>2. PICK old \in SUBSET {i \in Ids : Trashed(i)} :
        act' = [act EXCEPT !["worker"] = [Idle EXCEPT !.step = "purge",
                                                      !.bins = {<<row[i].at, i>> : i \in old}]]
  BY DEF Purge
<1>3. UNCHANGED <<disk, owner, row, process, due, missed, lock, forgotten, displaced, bounds>>
  BY DEF Purge, Quiet
<1> DEFINE list == {<<row[i].at, i>> : i \in old}
           l == [Idle EXCEPT !.step = "purge", !.bins = list]
<1>4. list \in SUBSET Entries
  BY <1>1 DEF Entries, Trashed, Owned, Shaped, Rows
<1>5. \A e \in list : \E i \in Ids : e[1] = row[i].at  OBVIOUS
<1> HIDE DEF list
<1>6. l \in Acts /\ l.step = "purge" /\ l.at = None /\ l.to = None /\ l.bins = list
  BY <1>4, IdleFields, Names DEF Acts, Steps
<1> HIDE DEF l
<1>7. Alone(x) /\ act'[x] = l  BY <1>1, <1>2, <1>6, Sets DEF l, list
<1>8. Shaped' /\ Owned' /\ Grows
  BY <1>1, <1>3 DEF Shaped, disk, bounds, Owned, Made, Grows
<1>9. Fielded(act[x])'  BY <1>6, <1>7 DEF Fielded, Indexing, Binning
<1>10. \A e \in act'["worker"].bins : e[1] \in Known(x)  BY <1>1, <1>5, <1>6, <1>7, Facts
<1>11. None \in Known(x) /\ \A i \in Ids : row'[i].at \in Known(x)  BY <1>1, <1>3, Facts
<1>12. x \notin Requests  BY Names
<1> QED  BY <1>1, <1>3, <1>6, <1>7, <1>8, <1>9, <1>10, <1>11, <1>12, Moves DEF ReqSteps, disk

LEMMA PurgeFileTyped == ASSUME Typed, PurgeFile PROVE Typed'
<1> DEFINE x == "worker"
<1>1. act \in [Actors -> Acts] /\ act[x] \in Acts /\ x \in Actors /\ Shaped /\ Owned
  BY Names, Facts
<1>2. UNCHANGED <<owner, row, process, due, missed, lock, forgotten, bounds>>
  BY DEF PurgeFile, Quiet
<1>3. PICK e \in act["worker"].bins :
        \/ /\ e[1] \in Bins
           /\ file' = [file EXCEPT ![e[1]] = None]
           /\ side' = [side EXCEPT ![e[1]] = None]
           /\ displaced' = IF Exists(e[1]) \/ side[e[1]] = None THEN displaced
                           ELSE displaced \cup {owner[side[e[1]]]}
           /\ act' = [act EXCEPT !["worker"] = [@ EXCEPT !.step = "delete", !.at = e[1], !.id = e[2],
                                                         !.bins = act["worker"].bins \ {e}]]
        \/ /\ e[1] \notin Bins
           /\ act' = [act EXCEPT !["worker"] = Idle]
           /\ UNCHANGED <<disk, displaced>>
  BY DEF PurgeFile
<1>4. e[1] \in Known(x) /\ e[2] \in Ids  BY <1>1, <1>3, Facts DEF Acts, Entries
<1>5. CASE /\ e[1] \in Bins
           /\ file' = [file EXCEPT ![e[1]] = None]
           /\ side' = [side EXCEPT ![e[1]] = None]
           /\ displaced' = IF Exists(e[1]) \/ side[e[1]] = None THEN displaced
                           ELSE displaced \cup {owner[side[e[1]]]}
           /\ act' = [act EXCEPT !["worker"] = [@ EXCEPT !.step = "delete", !.at = e[1], !.id = e[2],
                                                         !.bins = act["worker"].bins \ {e}]]
  <2>1. /\ Alone(x) /\ act'[x].step = "delete" /\ act'[x].at = e[1] /\ act'[x].to = act[x].to
        /\ act'[x].bins \subseteq act[x].bins /\ act'[x].id = e[2]
    <3> DEFINE rest == act[x].bins \ {e}
               l == [act[x] EXCEPT !.step = "delete", !.at = e[1], !.id = e[2], !.bins = rest]
    <3>1. act' = [act EXCEPT ![x] = l]  BY <1>1, <1>5 DEF Acts
    <3>2. rest \in SUBSET Entries  BY <1>1 DEF Acts
    <3> HIDE DEF rest
    <3>3. /\ l \in Acts /\ l.step = "delete" /\ l.at = e[1] /\ l.to = act[x].to /\ l.id = e[2]
          /\ l.bins = rest
      BY <1>1, <1>4, <1>5, <3>2, Names DEF Acts, Steps
    <3> HIDE DEF l
    <3>4. Alone(x) /\ act'[x] = l  BY <1>1, <3>1, <3>3, Sets
    <3> QED  BY <3>3, <3>4 DEF rest
  <2>2. e[1] \in Places  BY <1>5, Names
  <2>3. displaced' \subseteq Files
    BY <1>1, <1>5, <2>2 DEF Shaped, Owned, Made
  <2>4. /\ file' \in [Places -> Files \cup {None}] /\ side' \in [Places -> Ids \cup {None}]
        /\ \A b \in Bins \ Known(x) : file'[b] = file[b]
    BY <1>1, <1>4, <1>5, Names DEF Shaped
  <2>5. Shaped'  BY <1>1, <1>2, <2>3, <2>4 DEF Shaped, bounds
  <2>6. Owned' /\ Grows  BY <1>1, <1>2, <1>5 DEF Owned, Made, Grows, Shaped
  <2>7. Fielded(act[x])'  BY <1>4, <1>5, <2>1 DEF Fielded, Indexing, Binning
  <2>8. /\ \A d \in act'["worker"].bins : d[1] \in Known(x)
        /\ \A i \in Ids : row'[i].at \in Known(x)
        /\ act'[x].at \in Known(x) /\ act'[x].to \in Known(x)
    BY <1>1, <1>2, <1>4, <2>1, Facts
  <2>9. x \notin Requests  BY Names
  <2> QED  BY <1>1, <2>1, <2>4, <2>5, <2>6, <2>7, <2>8, <2>9, Moves DEF ReqSteps
<1>6. CASE act' = [act EXCEPT !["worker"] = Idle] /\ UNCHANGED <<disk, displaced>>
  <2>1. Alone(x) /\ act'[x] = Idle  BY <1>1, <1>6, IdleFields, Sets
  <2>2. Shaped' /\ Owned' /\ Grows
    BY <1>1, <1>2, <1>6 DEF Shaped, disk, bounds, Owned, Made, Grows
  <2>3. Fielded(act[x])'  BY <2>1, IdleFields DEF Fielded, Indexing, Binning
  <2> QED  BY <1>1, <1>2, <1>6, <2>1, <2>2, <2>3, IdleFields, MovesOn DEF ReqSteps, Binning, disk
<1> QED  BY <1>3, <1>5, <1>6

LEMMA PurgeRowTyped == ASSUME Typed, PurgeRow PROVE Typed'
<1> DEFINE x == "worker"
<1>1. /\ act \in [Actors -> Acts] /\ act[x] \in Acts /\ x \in Actors /\ act[x].id \in Ids
      /\ Shaped /\ Owned
  BY Names, Facts DEF PurgeRow, At, Fielded
<1>2. UNCHANGED <<disk, owner, process, due, lock, bounds>>  BY DEF PurgeRow
<1>3. /\ row' \in [Ids -> Rows]
      /\ \A j \in Ids : row'[j].at # None => owner'[j] # None
      /\ \A j \in Ids : row'[j].from # None => row'[j].at # None
      /\ \A j \in Ids : row'[j].at \in {row[j].at, None}
  BY <1>1, <1>2, RowGoes DEF PurgeRow
<1>4. /\ Alone(x) /\ act'[x].step \in {"idle", "purge"} /\ act'[x].at = None
      /\ act'[x].to \in {act[x].to, None} /\ (act'[x].bins = act[x].bins \/ act'[x].bins = {})
  <2>1. CASE act[x].bins = {}
    <3>1. act' = [act EXCEPT ![x] = Idle]  BY <1>1, <2>1 DEF PurgeRow
    <3> QED  BY <1>1, <3>1, IdleFields, Sets
  <2>2. CASE act[x].bins # {}
    <3>1. act' = [act EXCEPT ![x] = [act[x] EXCEPT !.step = "purge", !.at = None, !.id = None]]
      BY <1>1, <2>2 DEF PurgeRow
    <3> QED  BY <1>1, <3>1 DEF Alone, Acts, Steps
  <2> QED  BY <2>1, <2>2
<1>5. forgotten' \subseteq Files /\ displaced' \subseteq Files /\ missed' \subseteq Paths
  <2>1. (InTrash \cap {Held(row[act[x].id].at)}) \subseteq Files  BY TrashFiles
  <2> QED  BY <1>1, <2>1, StrayFiles, Overtaken DEF PurgeRow, Shaped
<1>6. Shaped' /\ Owned' /\ Grows
  BY <1>1, <1>2, <1>3, <1>5 DEF Shaped, disk, bounds, Owned, Made, Grows
<1>7. Fielded(act[x])'  BY <1>4 DEF Fielded, Indexing, Binning
<1> QED  BY <1>1, <1>2, <1>3, <1>4, <1>6, <1>7, MovesOn DEF ReqSteps, Binning, disk

-----------------------------------------------------------------------------
(* The process, and other programs.                                          *)

LEMMA BootTyped == ASSUME Typed, Boot PROVE Typed'
<1> DEFINE x == "starter"
           l == [Idle EXCEPT !.step = "list"]
<1>1. act \in [Actors -> Acts] /\ x \in Actors /\ Shaped /\ Owned
  BY Names, Facts
<1>2. UNCHANGED <<disk, owner, row, due, missed, lock, forgotten, displaced, calls, moves>>
  BY DEF Boot, Quiet
<1>3. l \in Acts /\ l.step = "list" /\ l.at = None /\ l.to = None /\ l.bins = {}
  BY IdleFields, Names DEF Acts, Steps
<1> HIDE DEF l
<1>4. Alone(x) /\ act'[x] = l  BY <1>1, <1>3, Sets DEF Boot, l
<1>5. Shaped' /\ Owned' /\ Grows
  BY <1>1, <1>2, RequestsAssumption DEF Shaped, disk, Owned, Made, Grows, Boot
<1>6. Fielded(act[x])'  BY <1>3, <1>4 DEF Fielded, Indexing, Binning
<1> QED  BY <1>1, <1>2, <1>3, <1>4, <1>5, <1>6, MovesOn DEF ReqSteps, Binning, disk

LEMMA CrashTyped == ASSUME Typed, Crash PROVE Typed'
<1>1. \A x \in Actors : act'[x] = Idle  BY DEF Crash
<1>2. Shaped /\ Owned  BY Names, Facts
<1>3. TypeOK'
  <2>1. act' \in [Actors -> Acts] /\ lock' \in [Paths -> Actors \cup {None}]
    BY IdleFields DEF Crash
  <2>2. due' \subseteq Paths /\ displaced' \subseteq Files  BY <1>2 DEF Crash, Shaped, Halfway
  <2> QED  BY <1>2, <2>1, <2>2 DEF TypeOK, Shaped, Crash, disk, bounds
<1>4. Owned'  BY <1>2 DEF Owned, Made, Crash, disk
<1>5. Fields'  BY <1>1, IdleFields DEF Fields, Fielded, Indexing, Binning, ReqSteps
<1>6. \A u \in Requests : Reserved(u)'  BY <1>1, IdleFields, Names DEF Reserved, Binning
<1> QED  BY <1>3, <1>4, <1>5, <1>6 DEF Typed

\* What happens around the operations.
LEMMA Around ==
    ASSUME Typed, Shaped', UNCHANGED <<act, row, owner>>,
           \A p \in Places : side'[p] \in {side[p], None} \/ Made(side'[p]),
           \A b \in Bins : file'[b] = file[b]
    PROVE  Typed'
<1>1. "starter" \in Actors  BY Names
<1>2. Alone("starter") /\ Grows  BY <1>1, Facts DEF Alone, Grows
<1>3. Owned'  BY <1>1, Facts DEF Owned, Made
<1>4. \A y \in Actors : Fielded(act[y])'  BY DEF Typed, Fields, Fielded, Made
<1>5. \A u \in Requests : Reserved(u)'  BY Names DEF Typed, Fields, Fielded, Reserved, Binning
<1> QED  BY <1>3, <1>4, <1>5 DEF Typed, TypeOK, Shaped, Fields

LEMMA AddTyped == ASSUME Typed, Add PROVE Typed'
<1>1. Shaped  BY Names, Facts
<1>2. PICK p \in Paths, f \in New : file' = [file EXCEPT ![p] = f] /\ Notice({p})
  BY DEF Add
<1>3. UNCHANGED <<side, owner, row, process, lock, act, forgotten, displaced, bounds>>  BY DEF Add
<1>4. due' \subseteq Paths /\ missed' \subseteq Paths  BY <1>1, <1>2, Noted
<1>5. p \notin Bins /\ p \in Places /\ f \in Files  BY Names DEF New
<1>6. Shaped'  BY <1>1, <1>2, <1>3, <1>4, <1>5 DEF Shaped, bounds
<1>7. \A b \in Bins : file'[b] = file[b]  BY <1>1, <1>2, <1>5, Names DEF Shaped
<1> QED  BY <1>3, <1>6, <1>7, Around

LEMMA MoveTyped == ASSUME Typed, Move PROVE Typed'
<1>1. Shaped /\ Owned  BY Names, Facts
<1>2. PICK p \in Paths, q \in Paths :
        /\ Exists(p)
        /\ file' = [file EXCEPT ![p] = None, ![q] = file[p]]
        /\ \/ /\ side' = [side EXCEPT ![p] = None, ![q] = side[p]]
              /\ UNCHANGED displaced
           \/ /\ displaced' = IF side[p] # None /\ row[side[p]].at # p
                              THEN displaced \cup {file[p]} ELSE displaced
              /\ UNCHANGED side
        /\ Notice({q})
  BY DEF Move
<1>3. UNCHANGED <<owner, row, process, lock, act, forgotten, calls, boots>> /\ moves' \in 0 .. MaxMoves
  BY <1>1, RequestsAssumption DEF Move, Shaped
<1>4. due' \subseteq Paths /\ missed' \subseteq Paths  BY <1>1, <1>2, Noted
<1>5. /\ p \notin Bins /\ p \in Places /\ q \notin Bins /\ q \in Places /\ file[p] \in Files
      /\ side[p] \in Ids \cup {None}
      /\ side[p] # None => Made(side[p])
  BY <1>1, <1>2, Names DEF Shaped, Exists, Owned
<1>6. /\ side' \in [Places -> Ids \cup {None}] /\ displaced' \subseteq Files
      /\ \A r \in Places : side'[r] \in {side[r], None} \/ Made(side'[r])
  BY <1>1, <1>2, <1>5 DEF Shaped
<1>7. file' \in [Places -> Files \cup {None}] /\ \A b \in Bins : file'[b] = file[b]
  BY <1>1, <1>2, <1>5, Names DEF Shaped
<1>8. Shaped'  BY <1>1, <1>3, <1>4, <1>6, <1>7 DEF Shaped
<1> QED  BY <1>3, <1>6, <1>7, <1>8, Around

LEMMA RemoveTyped == ASSUME Typed, Remove PROVE Typed'
<1>1. Shaped  BY Names, Facts
<1>2. PICK p \in Paths : file' = [file EXCEPT ![p] = None]
  BY DEF Remove
<1>3. UNCHANGED <<side, owner, row, process, due, missed, lock, act, forgotten, displaced, calls, boots>>
      /\ moves' \in 0 .. MaxMoves
  BY <1>1, RequestsAssumption DEF Remove, Shaped, Quiet
<1>4. file' \in [Places -> Files \cup {None}] /\ \A b \in Bins : file'[b] = file[b]
  BY <1>1, <1>2, Names DEF Shaped
<1>5. Shaped'  BY <1>1, <1>3, <1>4 DEF Shaped
<1> QED  BY <1>3, <1>4, <1>5, Around

LEMMA StripTyped == ASSUME Typed, Strip PROVE Typed'
<1>1. Shaped /\ Owned  BY Names, Facts
<1>2. PICK p \in Paths :
        /\ side[p] # None
        /\ side' = [side EXCEPT ![p] = None]
        /\ Dismiss(p)
        /\ displaced' = displaced \cup {f \in Files : Holding(p, f)} \cup {owner[side[p]]}
  BY DEF Strip
<1>3. UNCHANGED <<file, owner, row, process, lock, act, forgotten, calls, boots>> /\ moves' \in 0 .. MaxMoves
  BY <1>1, RequestsAssumption DEF Strip, Shaped
<1>4. due' \subseteq Paths /\ missed' \subseteq Paths  BY <1>1, <1>2, Dismissed
<1>5. displaced' \subseteq Files
  <2>1. owner[side[p]] \in Files  BY <1>1, <1>2, Names DEF Shaped, Owned, Made
  <2> QED  BY <1>1, <1>2, <2>1 DEF Shaped
<1>6. /\ side' \in [Places -> Ids \cup {None}]
      /\ \A r \in Places : side'[r] \in {side[r], None}
  BY <1>1, <1>2 DEF Shaped
<1>7. Shaped'  BY <1>1, <1>3, <1>4, <1>5, <1>6 DEF Shaped
<1> QED  BY <1>3, <1>6, <1>7, Around

-----------------------------------------------------------------------------
LEMMA StutterTyped == ASSUME Typed, UNCHANGED vars PROVE Typed'
<1>1. Shaped  BY Names, Facts
<1>2. Shaped'  BY <1>1 DEF Shaped, vars, disk, bounds
<1> QED  BY <1>2, Around DEF vars, disk, bounds

LEMMA InitTyped == ASSUME Init PROVE Typed
<1>1. /\ \A x \in Actors : act[x] = Idle
      /\ \A p \in Places : side[p] = None
      /\ \A i \in Ids : row[i] = NoRow
  BY DEF Init, InitWith
<1>2. TypeOK
  <2>1. owner \in [Ids -> Files \cup {None}]  BY DEF Init, InitWith
  <2> QED  BY <2>1, IdleFields, RequestsAssumption DEF Init, InitWith, TypeOK, NoRow, Rows
<1>3. Owned  BY <1>1 DEF Owned, NoRow
<1>4. Fields  BY <1>1, IdleFields DEF Fields, Fielded, Indexing, Binning, ReqSteps
<1>5. \A u \in Requests : Reserved(u)  BY <1>1, IdleFields, Names DEF Reserved, Binning
<1> QED  BY <1>2, <1>3, <1>4, <1>5 DEF Typed

LEMMA StepTyped == ASSUME Typed, [Next]_vars PROVE Typed'
<1>1. ASSUME NEW x \in Actors, IndexStep(x) \/ List(x) \/ Wipe(x) \/ NextFile(x) PROVE Typed'
  BY <1>1, ReadTyped, MatchTyped, WriteTyped, SweepTyped, UpsertTyped, ListTyped, WipeTyped,
     NextFileTyped DEF IndexStep
<1>2. ASSUME NEW u \in Requests, Request(u) PROVE Typed'
  BY <1>2, AskScanTyped, AskCopyTyped, AskEditTyped, NoteTyped, AskRecoverTyped, ForgetTyped,
     AskTrashTyped, BinTyped, StampTyped, UnlinkTyped, CarryTyped, TrashTyped,
     AskRestoreTyped, OutTyped, FollowTyped, RestoreTyped DEF Request
<1>3. CASE Ready \/ Import \/ Purge \/ PurgeFile \/ PurgeRow
  BY <1>3, ReadyTyped, ImportTyped, PurgeTyped, PurgeFileTyped, PurgeRowTyped
<1>4. CASE Boot \/ Crash \/ Add \/ Move \/ Remove \/ Strip
  BY <1>4, BootTyped, CrashTyped, AddTyped, MoveTyped, RemoveTyped, StripTyped
<1>5. CASE UNCHANGED vars  BY <1>5, StutterTyped
<1> QED  BY <1>1, <1>2, <1>3, <1>4, <1>5 DEF Next

\* The Library's files, sidecars, rows and operations keep their types: a sidecar and a
\* row are always of an id that was made, and every operation holds what its next step
\* needs, whatever indexers, moves through the Trash and other programs do meanwhile.
THEOREM TypeCorrect == Spec => []TypeOK
<1>1. Init => Typed  BY InitTyped
<1>2. Typed /\ [Next]_vars => Typed'  BY StepTyped
<1>3. Typed => TypeOK  BY DEF Typed
<1> QED  BY <1>1, <1>2, <1>3, PTL DEF Spec

-----------------------------------------------------------------------------
(* The purge goes on.                                                        *)

\* The steps that leave rows and owners alone.
LEMMA RowsStay ==
    ASSUME Typed,
           \/ \E x \in Actors : Read(x) \/ Write(x) \/ Sweep(x) \/ List(x) \/ NextFile(x)
           \/ \E u \in Requests :
                \/ AskScan(u) \/ AskCopy(u) \/ AskEdit(u) \/ Note(u) \/ AskRecover(u)
                \/ AskTrash(u) \/ Bin(u) \/ Stamp(u) \/ Unlink(u) \/ Carry(u)
                \/ AskRestore(u) \/ Out(u) \/ Follow(u)
           \/ Ready \/ Import \/ Purge \/ PurgeFile
           \/ Boot \/ Crash \/ Add \/ Move \/ Remove \/ Strip
           \/ UNCHANGED vars
    PROVE  UNCHANGED <<row, owner>> /\ displaced \subseteq displaced'
<1>1. ASSUME NEW x \in Actors, Read(x) \/ Write(x) \/ Sweep(x) \/ List(x) \/ NextFile(x)
      PROVE  UNCHANGED <<row, owner>> /\ displaced \subseteq displaced'
  BY <1>1 DEF Read, Write, Sweep, List, NextFile
<1>2. ASSUME NEW u \in Requests,
             \/ AskScan(u) \/ AskCopy(u) \/ AskEdit(u) \/ Note(u) \/ AskRecover(u)
             \/ AskTrash(u) \/ Stamp(u) \/ Unlink(u) \/ Carry(u) \/ AskRestore(u) \/ Follow(u)
      PROVE  UNCHANGED <<row, owner>> /\ displaced \subseteq displaced'
  BY <1>2 DEF AskScan, AskCopy, AskEdit, Note, AskRecover, AskTrash, Stamp, Unlink, Carry,
              AskRestore, Follow
<1>3. ASSUME NEW u \in Requests, Bin(u) \/ Out(u)
      PROVE  UNCHANGED <<row, owner>> /\ displaced \subseteq displaced'
  BY <1>3 DEF Bin, Out, Rename
<1>4. CASE Ready \/ Import \/ Purge  BY <1>4 DEF Ready, Import, Purge
<1>5. CASE PurgeFile  BY <1>5 DEF PurgeFile
<1>6. CASE Boot \/ Crash \/ Add \/ Remove  BY <1>6 DEF Boot, Crash, Add, Remove
<1>7. CASE Move \/ Strip  BY <1>7 DEF Move, Strip
<1>8. CASE UNCHANGED vars  BY <1>8 DEF vars
<1> QED  BY <1>1, <1>2, <1>3, <1>4, <1>5, <1>6, <1>7, <1>8

\* A row that went, or whose id is no longer anybody's.
LEMMA GoesOn ==
    ASSUME PurgeGoesOn, displaced \subseteq displaced',
           \A i \in Ids : \/ row'[i] = row[i] /\ owner'[i] = owner[i]
                          \/ row'[i].from = None \/ row'[i].at \in Bins
                          \/ owner'[i] \in displaced'
    PROVE  PurgeGoesOn'
  BY DEF PurgeGoesOn, Trashed

LEMMA StepGoesOn == ASSUME Typed, PurgeGoesOn, [Next]_vars PROVE PurgeGoesOn'
<1>0. Shaped /\ Owned  BY Names, Facts
<1>1. ASSUME NEW x \in Actors, Match(x) PROVE PurgeGoesOn'
  <2>1. row' = row /\ displaced \subseteq displaced'  BY <1>1 DEF Match
  <2>2. ASSUME NEW i \in Ids, owner'[i] # owner[i], row[i].from # None
        PROVE  owner'[i] \in displaced'
    <3>1. row[i].at # None  BY <1>0, <2>2 DEF Owned
    <3>2. owner[i] # None  BY <1>0, <3>1 DEF Owned
    <3> DEFINE f == file[act[x].at]
    <3>3. PICK j \in IF Embedded[f] # None THEN {Embedded[f]} ELSE Fresh :
            /\ owner' = [owner EXCEPT ![j] = f]
            /\ displaced' = IF Shared(j, f) THEN displaced \cup {f, owner[j]} ELSE displaced
      BY <1>1, <2>2 DEF Match
    <3>4. j = i /\ owner'[i] = f  BY <1>0, <2>2, <3>3 DEF Shaped
    <3>5. Shared(i, f)  BY <2>2, <3>1, <3>2, <3>4 DEF Shared, Carried
    <3> QED  BY <3>3, <3>4, <3>5
  <2> QED  BY <2>1, <2>2, GoesOn
<1>2. ASSUME NEW x \in Actors, Upsert(x) PROVE PurgeGoesOn'
  <2>1. owner' = owner  BY <1>2 DEF Upsert
  <2>2. CASE row' = row /\ displaced' = displaced  BY <2>1, <2>2, GoesOn
  <2>3. CASE /\ row' = [row EXCEPT ![act[x].id].at = act[x].at]
             /\ displaced' = IF Trashed(act[x].id) THEN displaced \cup {owner[act[x].id]}
                             ELSE displaced
    <3>1. act[x].id \in Ids  BY <1>2, Facts DEF Upsert, At, Fielded, Made
    <3>2. \A i \in Ids \ {act[x].id} : row'[i] = row[i]  BY <1>0, <2>3 DEF Shaped
    <3>3. row'[act[x].id].from = row[act[x].id].from  BY <1>0, <2>3, <3>1 DEF Shaped, Rows
    <3>4. displaced \subseteq displaced'  BY <2>3
    <3>5. row'[act[x].id].from = None \/ owner[act[x].id] \in displaced'
      BY <2>3, <3>3 DEF Trashed
    <3> QED  BY <2>1, <3>1, <3>2, <3>4, <3>5, GoesOn
  <2> QED  BY <1>2, <2>2, <2>3 DEF Upsert
<1>3. ASSUME NEW x \in Actors, Wipe(x) PROVE PurgeGoesOn'
  BY <1>3 DEF Wipe, PurgeGoesOn, Trashed, NoRow
<1>4. ASSUME NEW i \in Ids, row' = [row EXCEPT ![i] = NoRow], owner' = owner,
             displaced \subseteq displaced'
      PROVE  PurgeGoesOn'
  BY <1>0, <1>4, GoesOn DEF Shaped, NoRow
<1>5. ASSUME NEW u \in Requests, Forget(u) PROVE PurgeGoesOn'
  <2>1. act[u].id \in Ids  BY <1>5, Names, Facts DEF Forget, At, Fielded
  <2> QED  BY <1>4, <1>5, <2>1 DEF Forget
<1>6. CASE PurgeRow
  <2>1. act["worker"].id \in Ids  BY <1>6, Names, Facts DEF PurgeRow, At, Fielded
  <2> QED  BY <1>4, <1>6, <2>1 DEF PurgeRow
<1>7. ASSUME NEW u \in Requests, Trash(u) PROVE PurgeGoesOn'
  <2>1. act[u].id \in Ids /\ act[u].to \in Bins  BY <1>7, Names, Facts DEF Trash, At, Fielded, Binning
  <2>2. owner' = owner /\ displaced \subseteq displaced'  BY <1>7 DEF Trash
  <2>3. \A i \in Ids : row'[i] = row[i] \/ row'[i].at \in Bins
    BY <1>0, <1>7, <2>1 DEF Trash, Shaped
  <2> QED  BY <2>2, <2>3, GoesOn
<1>8. ASSUME NEW u \in Requests, Restore(u) PROVE PurgeGoesOn'
  <2>1. act[u].id \in Ids  BY <1>8, Names, Facts DEF Restore, At, Fielded
  <2>2. owner' = owner /\ displaced \subseteq displaced'  BY <1>8 DEF Restore
  <2>3. \A i \in Ids : row'[i] = row[i] \/ row'[i].from = None
    BY <1>0, <1>8, <2>1 DEF Restore, Shaped
  <2> QED  BY <2>2, <2>3, GoesOn
<1>9. ASSUME UNCHANGED <<row, owner>>, displaced \subseteq displaced' PROVE PurgeGoesOn'
  BY <1>9, GoesOn
<1>10. ASSUME NEW x \in Actors, IndexStep(x) \/ List(x) \/ Wipe(x) \/ NextFile(x) PROVE PurgeGoesOn'
  BY <1>1, <1>2, <1>3, <1>9, <1>10, RowsStay DEF IndexStep
<1>11. ASSUME NEW u \in Requests, Request(u) PROVE PurgeGoesOn'
  BY <1>5, <1>7, <1>8, <1>9, <1>11, RowsStay DEF Request
<1>12. CASE Ready \/ Import \/ Purge \/ PurgeFile \/ PurgeRow  BY <1>6, <1>9, <1>12, RowsStay
<1>13. CASE Boot \/ Crash \/ Add \/ Move \/ Remove \/ Strip  BY <1>9, <1>13, RowsStay
<1>14. CASE UNCHANGED vars  BY <1>9, <1>14, RowsStay
<1> QED  BY <1>10, <1>11, <1>12, <1>13, <1>14 DEF Next

\* A row with a time in the Trash is in the Trash, so no row stops the purge, whatever
\* restores and purges overlap: assets.ts writes trashedAt and originalPath with the path.
\* Only an indexer, which writes the path alone, can leave such a row outside, and the file
\* whose row that is counts as displaced.
THEOREM PurgeIsNotStopped == Spec => []PurgeGoesOn
<1>1. Init => Typed /\ PurgeGoesOn
  BY InitTyped DEF Init, InitWith, PurgeGoesOn, Trashed, NoRow
<1>2. Typed /\ PurgeGoesOn /\ [Next]_vars => Typed' /\ PurgeGoesOn'
  BY StepTyped, StepGoesOn
<1> QED  BY <1>1, <1>2, PTL DEF Spec

-----------------------------------------------------------------------------
(* The Trash is kept.                                                        *)

\* A place of the Trash whose file a row or a deletion knows, or whose row went.
Rested(b) ==
    \/ \E i \in Ids : row[i].at = b
    \/ file[b] \in forgotten
    \/ \E u \in Requests : act[u].step \in Binning /\ act[u].to = b

\* The start has removed the rows of before.
Settled == process # "down" /\ act["starter"].step \notin {"list", "wipe"}

\* Only a row with an original path is in the Trash; a start comes before the rest; a purge
\* removes the file before the row.
TrashInv ==
    /\ \A i \in Ids : row[i].at \in Bins => Trashed(i)
    /\ process # "starting" => At("starter", "idle")
    /\ At("worker", "delete") => file[act["worker"].at] = None
    /\ Settled => \A b \in Bins : Exists(b) => Rested(b)

LEMMA RestedKeeps ==
    ASSUME NEW b \in Bins, Rested(b), file'[b] = file[b], forgotten \subseteq forgotten',
           \A i \in Ids : row[i].at = b => row'[i].at = b \/ file[b] \in forgotten',
           \A u \in Requests : act[u].step \in Binning /\ act[u].to = b
                               => act'[u].step \in Binning /\ act'[u].to = b
    PROVE  Rested(b)'
  BY DEF Rested

\* A step that takes nothing to the Trash.
LEMMA TrashMoves ==
    ASSUME Typed, TrashInv, NEW x \in Actors, Alone(x), process' = process,
           act[x].step \notin Binning,
           x = "starter" => act[x].step # "idle",
           x = "starter" /\ act[x].step \in {"list", "wipe"} => act'[x].step \in {"list", "wipe"},
           (At("worker", "delete") => file[act["worker"].at] = None)',
           forgotten \subseteq forgotten',
           \A b \in Bins : file'[b] \in {file[b], None},
           \A i \in Ids : row[i].at \in Bins =>
               row'[i].at = row[i].at \/ file[row[i].at] \in forgotten' \cup {None},
           \A i \in Ids : row'[i].at \in Bins => Trashed(i)'
    PROVE  TrashInv'
<1>1. (process # "starting" => At("starter", "idle"))'
  BY Names DEF TrashInv, Alone, At
<1>2. ASSUME Settled', NEW b \in Bins, Exists(b)' PROVE Rested(b)'
  <2>1. Settled  BY <1>2, Names DEF Settled, Alone
  <2>2. Exists(b) /\ file'[b] = file[b]  BY <1>2 DEF Exists
  <2>3. Rested(b)  BY <2>1, <2>2 DEF TrashInv
  <2>4. \A i \in Ids : row[i].at = b => row'[i].at = b \/ file[b] \in forgotten'
    BY <2>2 DEF Exists
  <2>5. \A u \in Requests : act[u].step \in Binning /\ act[u].to = b
                            => act'[u].step \in Binning /\ act'[u].to = b
    BY Names DEF Alone
  <2> QED  BY <2>2, <2>3, <2>4, <2>5, RestedKeeps
<1> QED  BY <1>1, <1>2 DEF TrashInv

\* A step of a deletion.
LEMMA BinningMoves ==
    ASSUME Typed, TrashInv, NEW u \in Requests, Alone(u), process' = process,
           act[u].step \in Binning,
           forgotten \subseteq forgotten',
           \A b \in Bins \ {act[u].to} : file'[b] \in {file[b], None},
           \A i \in Ids : row[i].at \in Bins =>
               row'[i].at = row[i].at \/ file[row[i].at] \in forgotten' \cup {None},
           \A i \in Ids : row'[i].at \in Bins => Trashed(i)',
           \/ file'[act[u].to] = None
           \/ act'[u].step \in Binning /\ act'[u].to = act[u].to
           \/ \E i \in Ids : row'[i].at = act[u].to
           \/ file'[act[u].to] \in forgotten',
           act'[u].step \in Binning \cup {"idle"}
    PROVE  TrashInv'
<1>0. u \in Actors /\ Reserved(u) /\ act[u].to \in Bins /\ u # "worker" /\ u # "starter"
  BY Names, Facts DEF Fielded, Binning
<1>1. (process # "starting" => At("starter", "idle"))'
  BY <1>0, Names DEF TrashInv, Alone, At
<1>2. (At("worker", "delete") => file[act["worker"].at] = None)'
  <2>1. "worker" \in Actors \ {u}  BY <1>0, Names
  <2>2. act'["worker"] = act["worker"] /\ act["worker"].at # act[u].to
    BY <1>0, <2>1 DEF Alone, Reserved
  <2>3. At("worker", "delete") => act["worker"].at \in Bins  BY <2>1, Facts DEF Fielded, At
  <2> QED  BY <2>2, <2>3 DEF TrashInv, At
<1>3. ASSUME Settled', NEW b \in Bins, Exists(b)' PROVE Rested(b)'
  <2>1. Settled  BY <1>0, <1>3, Names DEF Settled, Alone
  <2>2. CASE b = act[u].to
    <3>1. file'[act[u].to] # None  BY <1>3, <2>2 DEF Exists
    <3> QED  BY <2>2, <3>1 DEF Rested
  <2>3. CASE b # act[u].to
    <3>1. Exists(b) /\ file'[b] = file[b]  BY <1>3, <2>3 DEF Exists
    <3>2. Rested(b)  BY <2>1, <3>1 DEF TrashInv
    <3>3. \A i \in Ids : row[i].at = b => row'[i].at = b \/ file[b] \in forgotten'
      BY <3>1 DEF Exists
    <3>4. \A v \in Requests : act[v].step \in Binning /\ act[v].to = b
                              => act'[v].step \in Binning /\ act'[v].to = b
      BY <2>3, Names DEF Alone
    <3> QED  BY <3>1, <3>2, <3>3, <3>4, RestedKeeps
  <2> QED  BY <2>2, <2>3
<1> QED  BY <1>1, <1>2, <1>3 DEF TrashInv

\* A file of the Trash whose row goes elsewhere is forgotten.
LEMMA HeldForgotten ==
    ASSUME Shaped, NEW b \in Bins
    PROVE  InTrash \cap {Held(b)} = {file[b]} \ {None}
  BY Names DEF Shaped, InTrash, Held, Holding

\* What the indexers do to their own record.
LEMMA IndexAlone ==
    ASSUME Typed, NEW x \in Actors, Read(x) \/ Match(x) \/ Write(x) \/ Sweep(x) \/ Upsert(x)
    PROVE  /\ Alone(x) /\ act[x].step \in Indexing /\ act'[x].step \in Indexing \cup {"idle", "next"}
           /\ UNCHANGED <<file, process>>
<1>1. act \in [Actors -> Acts] /\ act[x] \in Acts /\ Shaped /\ Owned /\ Fielded(act[x])
  BY Facts
<1>2. CASE Done(x)
  <2>1. Alone(x) /\ act'[x].step \in {"idle", "next"}  BY <1>1, <1>2, StepsDone, IdleFields
  <2> QED  BY <2>1 DEF Read, Match, Write, Sweep, Upsert, At, Indexing, disk
<1>3. CASE Write(x) \/ Sweep(x)
  <2>1. PICK s \in Indexing : To(x, s)
    BY <1>3 DEF Write, Sweep, Indexing
  <2>2. Alone(x) /\ act'[x].step = s  BY <1>1, <2>1, StepsOn DEF Steps, Indexing
  <2> QED  BY <1>3, <2>1, <2>2 DEF Write, Sweep, At, Indexing
<1>4. CASE Read(x) /\ ~Done(x)
  <2>1. act[x].at \in Places  BY <1>1, <1>4, Names DEF Read, At, Fielded, Indexing
  <2>2. PICK s \in {"upsert", "match"}, i \in Ids \cup {None} :
          act' = [act EXCEPT ![x].id = i, ![x].step = s]
    BY <1>1, <1>4, <2>1 DEF Read, Shaped
  <2>3. Alone(x) /\ act'[x].step = s  BY <1>1, <2>2 DEF Alone, Acts, Steps
  <2> QED  BY <1>4, <2>3 DEF Read, At, Indexing, disk
<1>5. CASE Match(x) /\ ~Done(x)
  <2>1. act[x].at \in Places  BY <1>1, <1>5, Names DEF Match, At, Fielded, Indexing
  <2>2. PICK i \in Ids \cup {None}, q \in Paths \cup {None} :
          act' = [act EXCEPT ![x].step = "write", ![x].id = i, ![x].to = q]
    <3>1. CASE \E i \in IF Exists(act[x].at) THEN Left(act[x].at) ELSE {} :
                 act' = [act EXCEPT ![x].step = "write", ![x].id = side[row[i].at],
                                    ![x].to = row[i].at]
      <4>1. PICK i \in Left(act[x].at) :
              act' = [act EXCEPT ![x].step = "write", ![x].id = side[row[i].at],
                                 ![x].to = row[i].at]
        BY <3>1
      <4>2. row[i].at \in Paths /\ side[row[i].at] \in Ids \cup {None}
        BY <1>1, <4>1, Names DEF Left, Shaped
      <4> QED  BY <4>1, <4>2
    <3>2. CASE /\ Exists(act[x].at)
               /\ \E i \in IF Embedded[file[act[x].at]] # None THEN {Embedded[file[act[x].at]]}
                           ELSE Fresh :
                    act' = [act EXCEPT ![x].step = "write", ![x].id = i, ![x].to = None]
      <4>1. file[act[x].at] \in Files  BY <1>1, <2>1, <3>2 DEF Shaped, Exists
      <4> QED  BY <3>2, <4>1, PlacesAssumption DEF Fresh
    <3> QED  BY <1>5, <3>1, <3>2 DEF Match, Throw
  <2>3. Alone(x) /\ act'[x].step = "write"  BY <1>1, <2>2, Names DEF Alone, Acts, Steps
  <2> QED  BY <1>5, <2>3 DEF Match, At, Indexing, disk
<1> QED  BY <1>2, <1>3, <1>4, <1>5 DEF Upsert, Throw

\* A step of no deletion that leaves the rows alone.
LEMMA PlainMoves ==
    ASSUME Typed, TrashInv, NEW x \in Actors, Alone(x), UNCHANGED <<row, process>>,
           act[x].step \notin Binning, act'[x].step # "delete",
           x = "starter" => act[x].step # "idle",
           x = "starter" /\ act[x].step \in {"list", "wipe"} => act'[x].step \in {"list", "wipe"},
           forgotten' = forgotten,
           \A b \in Bins : file'[b] \in {file[b], None}
    PROVE  TrashInv'
<1>1. (At("worker", "delete") => file[act["worker"].at] = None)'
  <2>1. CASE x = "worker"  BY <2>1 DEF At
  <2>2. CASE x # "worker"
    <3>1. act'["worker"] = act["worker"]  BY <2>2, Names DEF Alone
    <3>2. At("worker", "delete") => act["worker"].at \in Bins  BY Names, Facts DEF Fielded, At
    <3> QED  BY <3>1, <3>2 DEF At, TrashInv
  <2> QED  BY <2>1, <2>2
<1>2. \A i \in Ids : row'[i].at \in Bins => Trashed(i)'  BY DEF TrashInv, Trashed
<1> QED  BY <1>1, <1>2, TrashMoves

\* What a request does to its own record when it begins.
LEMMA AskAlone ==
    ASSUME Typed, NEW u \in Requests,
           AskScan(u) \/ AskCopy(u) \/ AskEdit(u) \/ AskRecover(u) \/ AskTrash(u) \/ AskRestore(u)
    PROVE  /\ Alone(u) /\ act[u].step = "idle" /\ act'[u].step # "delete"
           /\ UNCHANGED <<row, process, forgotten>> /\ \A b \in Bins : file'[b] = file[b]
<1>1. act \in [Actors -> Acts] /\ u \in Actors /\ Shaped /\ Owned  BY Names, Facts
<1>2. ASSUME NEW l \in Acts, act' = [act EXCEPT ![u] = l], l.step # "delete"
      PROVE  Alone(u) /\ act'[u].step # "delete"
  BY <1>1, <1>2, Sets
<1>3. CASE AskScan(u)
  <2>1. PICK s \in {"scan", "list"} : act' = [act EXCEPT ![u] = [Idle EXCEPT !.step = s]]
    BY <1>3 DEF AskScan, Begin
  <2>2. [Idle EXCEPT !.step = s] \in Acts /\ [Idle EXCEPT !.step = s].step = s
    BY IdleFields DEF Acts, Steps
  <2> QED  BY <1>2, <1>3, <2>1, <2>2 DEF AskScan, Free, At, disk
<1>4. CASE AskCopy(u)
  <2>1. PICK p \in Paths : \E f \in New :
          /\ act' = [act EXCEPT ![u] = [Idle EXCEPT !.step = "lock", !.at = p]]
          /\ file' = [file EXCEPT ![p] = f]
    BY <1>4 DEF AskCopy, Begin
  <2> DEFINE l == [Idle EXCEPT !.step = "lock", !.at = p]
  <2>2. l \in Acts /\ l.step = "lock"  BY IdleFields, Names DEF Acts, Steps
  <2>3. \A b \in Bins : file'[b] = file[b]  BY <1>1, <2>1, Names DEF Shaped
  <2> HIDE DEF l
  <2> QED  BY <1>2, <1>4, <2>1, <2>2, <2>3 DEF AskCopy, Free, At, l
<1>5. CASE AskEdit(u)
  <2>1. PICK p \in Paths : act' = [act EXCEPT ![u] = [Idle EXCEPT !.step = "note", !.at = p,
                                                                  !.seen = side[p]]]
    BY <1>5 DEF AskEdit, Begin, Asset
  <2> DEFINE l == [Idle EXCEPT !.step = "note", !.at = p, !.seen = side[p]]
  <2>2. l \in Acts /\ l.step = "note"  BY <1>1, IdleFields, Names DEF Acts, Steps, Shaped
  <2> HIDE DEF l
  <2> QED  BY <1>2, <1>5, <2>1, <2>2 DEF AskEdit, Free, At, l, disk
<1>6. CASE AskRecover(u)
  <2>1. PICK i \in Ids : act' = [act EXCEPT ![u] = [Idle EXCEPT !.step = "forget", !.at = row[i].at,
                                                                !.id = i]]
    BY <1>6 DEF AskRecover, Begin
  <2> DEFINE l == [Idle EXCEPT !.step = "forget", !.at = row[i].at, !.id = i]
  <2>2. l \in Acts /\ l.step = "forget"  BY <1>1, IdleFields, Names DEF Acts, Steps, Shaped, Rows
  <2> HIDE DEF l
  <2> QED  BY <1>2, <1>6, <2>1, <2>2 DEF AskRecover, Free, At, l, disk
<1>7. CASE AskTrash(u)
  <2>1. PICK i \in Ids, b \in EmptyBin :
          act' = [act EXCEPT ![u] = [Idle EXCEPT !.step = "bin", !.at = row[i].at, !.to = b,
                                                 !.id = i, !.seen = side[row[i].at]]]
          /\ row[i].at \in Paths
    BY <1>7 DEF AskTrash, Begin, Asset
  <2> DEFINE l == [Idle EXCEPT !.step = "bin", !.at = row[i].at, !.to = b, !.id = i,
                               !.seen = side[row[i].at]]
  <2>2. b \in Places  BY Names DEF EmptyBin
  <2>3. l \in Acts /\ l.step = "bin"
    BY <1>1, <2>1, <2>2, IdleFields, Names DEF Acts, Steps, Shaped
  <2> HIDE DEF l
  <2> QED  BY <1>2, <1>7, <2>1, <2>3 DEF AskTrash, Free, At, l, disk
<1>8. CASE AskRestore(u)
  <2>1. PICK i \in Ids :
          /\ row[i].from # None
          /\ act' = [act EXCEPT ![u] = [Idle EXCEPT !.step = "out", !.at = row[i].at, !.id = i,
                       !.to = IF Exists(row[i].from) THEN Beside[row[i].from] ELSE row[i].from]]
    BY <1>8 DEF AskRestore, Begin, Trashed
  <2> DEFINE l == [Idle EXCEPT !.step = "out", !.at = row[i].at, !.id = i,
                       !.to = IF Exists(row[i].from) THEN Beside[row[i].from] ELSE row[i].from]
  <2>2. row[i].from \in Paths /\ row[i].at \in Places \cup {None}  BY <1>1, <2>1 DEF Shaped, Rows
  <2>3. Beside[row[i].from] \in Paths  BY <2>2, PlacesAssumption
  <2>4. l \in Acts /\ l.step = "out"
    BY <2>2, <2>3, IdleFields, Names DEF Acts, Steps
  <2> HIDE DEF l
  <2> QED  BY <1>2, <1>8, <2>1, <2>4 DEF AskRestore, Free, At, l, disk
<1> QED  BY <1>3, <1>4, <1>5, <1>6, <1>7, <1>8

LEMMA IndexKept ==
    ASSUME Typed, TrashInv, NEW x \in Actors, IndexStep(x) PROVE TrashInv'
<1>1. /\ Alone(x) /\ act[x].step \in Indexing /\ act'[x].step \in Indexing \cup {"idle", "next"}
      /\ UNCHANGED <<file, process>> /\ act \in [Actors -> Acts] /\ Shaped /\ Owned
  BY IndexAlone, Facts DEF IndexStep
<1>2. act[x].step \notin Binning \cup {"idle", "list", "wipe"} /\ act'[x].step # "delete"
  BY <1>1 DEF Indexing, Binning
<1>3. CASE row' = row
  <2>1. CASE forgotten' = forgotten  BY <1>1, <1>2, <1>3, <2>1, PlainMoves
  <2>2. CASE forgotten' # forgotten
    <3>1. Upsert(x)  BY <2>2 DEF IndexStep, Read, Match, Write, Sweep
    <3>2. forgotten \subseteq forgotten'  BY <3>1 DEF Upsert
    <3>3. (At("worker", "delete") => file[act["worker"].at] = None)'
      BY <1>1, <1>2, Names DEF Alone, At, TrashInv
    <3> QED  BY <1>1, <1>2, <1>3, <3>2, <3>3, TrashMoves DEF TrashInv, Trashed
  <2> QED  BY <2>1, <2>2
<1>4. CASE row' # row
  <2>1. Upsert(x)  BY <1>4 DEF IndexStep, Read, Match, Write, Sweep
  <2>2. act[x].id \in Ids /\ act[x].at \in Paths
    BY <1>1, <2>1, Facts DEF Upsert, At, Fielded, Made, Indexing
  <2>3. /\ row' = [row EXCEPT ![act[x].id].at = act[x].at]
        /\ forgotten' = forgotten \cup (InTrash \cap {Held(row[act[x].id].at)})
    BY <1>4, <2>1 DEF Upsert
  <2>4. \A i \in Ids : row[i].at \in Bins =>
            row'[i].at = row[i].at \/ file[row[i].at] \in forgotten' \cup {None}
    <3> SUFFICES ASSUME NEW i \in Ids, row[i].at \in Bins, row'[i].at # row[i].at
                 PROVE  file[row[i].at] \in forgotten' \cup {None}
      OBVIOUS
    <3>1. i = act[x].id  BY <1>1, <2>3 DEF Shaped
    <3>2. InTrash \cap {Held(row[i].at)} = {file[row[i].at]} \ {None}  BY <1>1, HeldForgotten
    <3> QED  BY <2>3, <3>1, <3>2
  <2>5. \A i \in Ids : row'[i].at \in Bins => Trashed(i)'
    <3> SUFFICES ASSUME NEW i \in Ids, row'[i].at \in Bins PROVE row'[i].from # None
      BY DEF Trashed
    <3>1. i # act[x].id  BY <1>1, <2>2, <2>3, Names DEF Shaped, Rows
    <3>2. row'[i] = row[i]  BY <1>1, <2>3, <3>1 DEF Shaped
    <3> QED  BY <3>2 DEF TrashInv, Trashed
  <2>6. (At("worker", "delete") => file[act["worker"].at] = None)'
    BY <1>1, <1>2, Names DEF Alone, At, TrashInv
  <2>7. forgotten \subseteq forgotten'  BY <2>3
  <2> QED  BY <1>1, <1>2, <2>4, <2>5, <2>6, <2>7, TrashMoves
<1> QED  BY <1>3, <1>4

LEMMA ReindexKept ==
    ASSUME Typed, TrashInv, NEW x \in Actors, List(x) \/ Wipe(x) \/ NextFile(x) PROVE TrashInv'
<1>1. act \in [Actors -> Acts] /\ act[x] \in Acts /\ Shaped /\ Owned  BY Facts
<1>2. CASE List(x)
  <2>1. PICK s \in {"wipe", "idle", "next"}, t \in SUBSET Paths :
          act' = [act EXCEPT ![x].step = s, ![x].todo = t] /\ (At(x, "list") => s = "wipe")
    BY <1>2 DEF List, Present, At
  <2>2. Alone(x) /\ act'[x].step = s  BY <1>1, <2>1 DEF Alone, Acts, Steps
  <2>3. x = "starter" /\ act[x].step \in {"list", "wipe"} => act'[x].step \in {"list", "wipe"}
    BY <1>2, <2>1, <2>2 DEF List, At
  <2> QED  BY <1>2, <2>2, <2>3, PlainMoves DEF List, At, Binning, disk
<1>3. CASE Wipe(x)
  <2>1. Alone(x) /\ act'[x].step \in {"idle", "next"}
    <3>1. CASE act' = [act EXCEPT ![x] = Idle]  BY <1>1, <3>1, IdleFields, Sets
    <3>2. CASE To(x, "next")  BY <1>1, <3>2, StepsOn DEF Steps
    <3> QED  BY <1>3, <3>1, <3>2 DEF Wipe
  <2>2. /\ file' = file /\ process' = process /\ forgotten' = forgotten \cup InTrash
        /\ \A i \in Ids : row'[i].at = None
    BY <1>3 DEF Wipe, disk, NoRow
  <2>3. (process # "starting" => At("starter", "idle"))'
    BY <1>3, <2>1, <2>2, Names DEF TrashInv, Alone, At, Wipe
  <2>4. (At("worker", "delete") => file[act["worker"].at] = None)'
    BY <2>1, <2>2, Names DEF Alone, At, TrashInv
  <2>5. \A b \in Bins : Exists(b)' => Rested(b)'
    BY <1>1, <2>2, Names DEF Exists, Rested, InTrash, Holding, Shaped
  <2> QED  BY <2>2, <2>3, <2>4, <2>5, Names DEF TrashInv
<1>4. CASE NextFile(x)
  <2>1. PICK p \in act[x].todo :
          act' = [act EXCEPT ![x] = [Idle EXCEPT !.step = "lock", !.at = p,
                                                !.todo = act[x].todo \ {p}]]
    BY <1>4 DEF NextFile
  <2>2. p \in Paths /\ act[x].todo \subseteq Paths  BY <1>1 DEF Acts
  <2> DEFINE l == [Idle EXCEPT !.step = "lock", !.at = p, !.todo = act[x].todo \ {p}]
  <2>3. l \in Acts /\ l.step = "lock"  BY <2>2, IdleFields, Names DEF Acts, Steps
  <2> HIDE DEF l
  <2>4. Alone(x) /\ act'[x] = l  BY <1>1, <2>1, <2>3, Sets DEF l
  <2> QED  BY <1>4, <2>3, <2>4, PlainMoves DEF NextFile, At, Binning, disk
<1> QED  BY <1>2, <1>3, <1>4

\* A request takes a row out of the Trash, or to another place of the Library.
LEMMA RowLeaves ==
    ASSUME Typed, TrashInv, NEW u \in Requests, Alone(u), UNCHANGED <<file, process>>,
           act[u].step \notin Binning, NEW i \in Ids, NEW l, l.at \notin Bins,
           row' = row \/ row' = [row EXCEPT ![i] = l],
           forgotten' = forgotten \cup (InTrash \cap {Held(row[i].at)})
    PROVE  TrashInv'
<1>1. /\ u \in Actors /\ u # "starter" /\ u # "worker" /\ Shaped  BY Names, Facts
<1>2. ASSUME NEW j \in Ids, row'[j] # row[j] PROVE j = i /\ row'[j].at \notin Bins
  BY <1>1, <1>2 DEF Shaped
<1>3. \A j \in Ids : row'[j].at \in Bins => Trashed(j)'
  BY <1>2 DEF TrashInv, Trashed
<1>4. \A j \in Ids : row[j].at \in Bins =>
          row'[j].at = row[j].at \/ file[row[j].at] \in forgotten' \cup {None}
  <2> SUFFICES ASSUME NEW j \in Ids, row[j].at \in Bins, row'[j].at # row[j].at
               PROVE  file[row[j].at] \in forgotten' \cup {None}
    OBVIOUS
  <2>1. j = i  BY <1>2
  <2>2. InTrash \cap {Held(row[j].at)} = {file[row[j].at]} \ {None}  BY <1>1, HeldForgotten
  <2> QED  BY <2>1, <2>2
<1>5. (At("worker", "delete") => file[act["worker"].at] = None)'
  BY <1>1, Names DEF Alone, At, TrashInv
<1> QED  BY <1>1, <1>3, <1>4, <1>5, TrashMoves

LEMMA RequestKept ==
    ASSUME Typed, TrashInv, NEW u \in Requests, Request(u) PROVE TrashInv'
<1>1. /\ act \in [Actors -> Acts] /\ u \in Actors /\ act[u] \in Acts /\ u # "starter" /\ u # "worker"
      /\ Shaped /\ Owned /\ Fielded(act[u]) /\ Reserved(u)
  BY Names, Facts
<1>2. CASE AskScan(u) \/ AskCopy(u) \/ AskEdit(u) \/ AskRecover(u) \/ AskTrash(u) \/ AskRestore(u)
  <2>1. /\ Alone(u) /\ act[u].step = "idle" /\ act'[u].step # "delete"
        /\ UNCHANGED <<row, process, forgotten>> /\ \A b \in Bins : file'[b] = file[b]
    BY <1>2, AskAlone
  <2> QED  BY <1>1, <2>1, PlainMoves DEF Binning
<1>3. CASE Note(u) \/ Follow(u)
  <2>1. PICK s \in {"lock", "restored"} : To(u, s)  BY <1>3 DEF Note, Follow
  <2>2. Alone(u) /\ act'[u].step = s  BY <1>1, <2>1, StepsOn DEF Steps
  <2> QED  BY <1>1, <1>3, <2>2, PlainMoves DEF Note, Follow, At, Binning
<1>4. CASE Out(u)
  <2>1. Alone(u) /\ act'[u].step \in {"follow", "idle"}
    <3>1. CASE To(u, "follow")  BY <1>1, <3>1, StepsOn DEF Steps
    <3>2. CASE act' = [act EXCEPT ![u] = Idle]  BY <1>1, <3>2, IdleFields, Sets
    <3> QED  BY <1>4, <3>1, <3>2 DEF Out
  <2>2. act[u].at \in Places /\ act[u].to \in Paths  BY <1>1, <1>4 DEF Out, At, Fielded
  <2>3. \A b \in Bins : file'[b] \in {file[b], None}
    BY <1>1, <1>4, <2>2, Names DEF Out, Rename, Shaped
  <2> QED  BY <1>1, <1>4, <2>1, <2>3, PlainMoves DEF Out, At, Binning
<1>5. CASE Bin(u)
  <2>1. act[u].to \in Bins /\ act[u].at \in Paths  BY <1>1, <1>5 DEF Bin, At, Fielded, Binning
  <2>2. CASE Rename(act[u].at, act[u].to, Actors \ {u}) /\ To(u, IF act[u].seen # None THEN "stamp" ELSE "carry")
    <3>1. Alone(u) /\ act'[u].step \in {"stamp", "carry"} /\ act'[u].to = act[u].to
      BY <1>1, <2>2, StepsOn DEF Steps
    <3>2. \A b \in Bins \ {act[u].to} : file'[b] \in {file[b], None}
      BY <1>1, <2>1, <2>2, Names DEF Rename, Shaped
    <3>3. UNCHANGED <<row, process, forgotten>> /\ act[u].step = "bin"  BY <1>5 DEF Bin, At
    <3>4. \A i \in Ids : row'[i].at \in Bins => Trashed(i)'  BY <3>3 DEF TrashInv, Trashed
    <3> QED  BY <1>1, <3>1, <3>2, <3>3, <3>4, BinningMoves DEF Binning
  <2>3. CASE act' = [act EXCEPT ![u] = Idle] /\ UNCHANGED <<file, displaced>>
    <3>1. Alone(u) /\ act'[u].step = "idle"  BY <1>1, <2>3, IdleFields, Sets
    <3>2. UNCHANGED <<row, process, forgotten>> /\ act[u].step = "bin"  BY <1>5 DEF Bin, At
    <3>3. \A i \in Ids : row'[i].at \in Bins => Trashed(i)'  BY <3>2 DEF TrashInv, Trashed
    <3>4. file'[act[u].to] = None  BY <1>1, <2>3, <3>2 DEF Reserved, Binning
    <3> QED  BY <1>1, <2>3, <3>1, <3>2, <3>3, <3>4, BinningMoves DEF Binning
  <2> QED  BY <1>5, <2>2, <2>3 DEF Bin
<1>6. CASE Stamp(u) \/ Unlink(u) \/ Carry(u)
  <2>1. PICK s \in {"unlink", "trashed"} : To(u, s)  BY <1>6 DEF Stamp, Unlink, Carry
  <2>2. Alone(u) /\ act'[u].step = s /\ act'[u].to = act[u].to  BY <1>1, <2>1, StepsOn DEF Steps
  <2>3. UNCHANGED <<file, row, process, forgotten>> /\ act[u].step \in Binning
    BY <1>6 DEF Stamp, Unlink, Carry, At, Binning
  <2>4. \A i \in Ids : row'[i].at \in Bins => Trashed(i)'  BY <2>3 DEF TrashInv, Trashed
  <2> QED  BY <1>1, <2>2, <2>3, <2>4, BinningMoves DEF Binning
<1>7. CASE Trash(u)
  <2>1. act[u].step = "trashed" /\ act[u].to \in Bins /\ act[u].at \in Paths /\ act[u].id \in Ids
    BY <1>1, <1>7 DEF Trash, At, Fielded, Binning
  <2>2. Alone(u) /\ act'[u].step = "idle"  BY <1>1, <1>7, IdleFields, Sets DEF Trash
  <2>3. file' = file /\ process' = process /\ forgotten \subseteq forgotten'
    BY <1>7 DEF Trash, disk
  <2>4. CASE row' = row /\ file[act[u].to] \in forgotten'
    <3>1. \A i \in Ids : row'[i].at \in Bins => Trashed(i)'  BY <2>4 DEF TrashInv, Trashed
    <3> QED  BY <1>1, <2>1, <2>2, <2>3, <2>4, <3>1, BinningMoves DEF Binning
  <2>5. CASE /\ row' = [row EXCEPT ![act[u].id] = [at |-> act[u].to, from |-> act[u].at]]
             /\ forgotten' = forgotten \cup (InTrash \cap {Held(row[act[u].id].at)})
    <3>1. \A i \in Ids : row'[i].at \in Bins => Trashed(i)'
      <4> SUFFICES ASSUME NEW i \in Ids, row'[i].at \in Bins PROVE row'[i].from # None
        BY DEF Trashed
      <4>1. CASE i = act[u].id  BY <1>1, <2>1, <2>5, <4>1, Names DEF Shaped
      <4>2. CASE i # act[u].id  BY <1>1, <2>5, <4>2 DEF Shaped, TrashInv, Trashed
      <4> QED  BY <4>1, <4>2
    <3>2. \A i \in Ids : row[i].at \in Bins =>
              row'[i].at = row[i].at \/ file[row[i].at] \in forgotten' \cup {None}
      <4> SUFFICES ASSUME NEW i \in Ids, row[i].at \in Bins, row'[i].at # row[i].at
                   PROVE  file[row[i].at] \in forgotten' \cup {None}
        OBVIOUS
      <4>1. i = act[u].id  BY <1>1, <2>5 DEF Shaped
      <4>2. InTrash \cap {Held(row[i].at)} = {file[row[i].at]} \ {None}  BY <1>1, HeldForgotten
      <4> QED  BY <2>5, <4>1, <4>2
    <3>3. row'[act[u].id].at = act[u].to  BY <1>1, <2>1, <2>5 DEF Shaped
    <3> QED  BY <1>1, <2>1, <2>2, <2>3, <3>1, <3>2, <3>3, BinningMoves DEF Binning
  <2> QED  BY <1>7, <2>4, <2>5, <2>3 DEF Trash
<1>8. CASE Forget(u)
  <2>1. act[u].step = "forget" /\ act[u].id \in Ids  BY <1>1, <1>8 DEF Forget, At, Fielded
  <2>2. /\ row' = [row EXCEPT ![act[u].id] = NoRow] /\ file' = file /\ process' = process
        /\ forgotten' = forgotten \cup (InTrash \cap {Held(row[act[u].id].at)})
    BY <1>8 DEF Forget, disk
  <2>3. Alone(u)
    <3>1. CASE act[u].at \in Paths
      <4>1. act' = [act EXCEPT ![u] = [act[u] EXCEPT !.step = "lock", !.id = None]]
        BY <1>1, <1>8, <3>1 DEF Forget
      <4> QED  BY <1>1, <4>1 DEF Alone, Acts, Steps
    <3>2. CASE act[u].at \notin Paths
      <4>1. act' = [act EXCEPT ![u] = Idle]  BY <1>1, <1>8, <3>2 DEF Forget
      <4> QED  BY <1>1, <4>1, IdleFields, Sets
    <3> QED  BY <3>1, <3>2
  <2>4. NoRow.at \notin Bins  BY Names DEF NoRow
  <2> QED  BY <1>1, <2>1, <2>2, <2>3, <2>4, RowLeaves DEF Binning
<1>9. CASE Restore(u)
  <2>1. act[u].step = "restored" /\ act[u].id \in Ids /\ act[u].to \in Paths
    BY <1>1, <1>9 DEF Restore, At, Fielded
  <2>2. /\ file' = file /\ process' = process
        /\ forgotten' = forgotten \cup (InTrash \cap {Held(row[act[u].id].at)})
        /\ \/ row' = row
           \/ row' = [row EXCEPT ![act[u].id] = [at |-> act[u].to, from |-> None]]
    BY <1>9 DEF Restore, disk
  <2>3. Alone(u)  BY <1>1, <1>9, IdleFields, Sets DEF Restore
  <2>4. act[u].to \notin Bins  BY <2>1, Names
  <2> QED  BY <1>1, <2>1, <2>2, <2>3, <2>4, RowLeaves DEF Binning
<1> QED  BY <1>2, <1>3, <1>4, <1>5, <1>6, <1>7, <1>8, <1>9 DEF Request

LEMMA WorkerKept ==
    ASSUME Typed, TrashInv, Import \/ Purge \/ PurgeFile \/ PurgeRow PROVE TrashInv'
<1> DEFINE x == "worker"
<1>1. /\ act \in [Actors -> Acts] /\ x \in Actors /\ act[x] \in Acts /\ x # "starter"
      /\ Shaped /\ Owned /\ Fielded(act[x])
  BY Names, Facts
<1>2. CASE Import
  <2>1. PICK p \in Paths : act' = [act EXCEPT !["worker"] = [Idle EXCEPT !.step = "lock", !.at = p]]
    BY <1>1, <1>2 DEF Import, Shaped
  <2> DEFINE l == [Idle EXCEPT !.step = "lock", !.at = p]
  <2>2. l \in Acts /\ l.step = "lock"  BY IdleFields, Names DEF Acts, Steps
  <2> HIDE DEF l
  <2>3. Alone(x) /\ act'[x] = l  BY <1>1, <2>1, <2>2, Sets DEF l
  <2> QED  BY <1>1, <1>2, <2>2, <2>3, PlainMoves DEF Import, At, Binning, disk
<1>3. CASE Purge
  <2>1. PICK list \in SUBSET Entries :
          act' = [act EXCEPT !["worker"] = [Idle EXCEPT !.step = "purge", !.bins = list]]
    <3>1. PICK old \in SUBSET {i \in Ids : Trashed(i)} :
            act' = [act EXCEPT !["worker"] = [Idle EXCEPT !.step = "purge",
                                                          !.bins = {<<row[i].at, i>> : i \in old}]]
      BY <1>3 DEF Purge
    <3>2. {<<row[i].at, i>> : i \in old} \in SUBSET Entries
      BY <1>1 DEF Entries, Trashed, Owned, Shaped, Rows
    <3> QED  BY <3>1, <3>2
  <2> DEFINE l == [Idle EXCEPT !.step = "purge", !.bins = list]
  <2>2. l \in Acts /\ l.step = "purge"  BY IdleFields DEF Acts, Steps
  <2> HIDE DEF l
  <2>3. Alone(x) /\ act'[x] = l  BY <1>1, <2>1, <2>2, Sets DEF l
  <2> QED  BY <1>1, <1>3, <2>2, <2>3, PlainMoves DEF Purge, At, Binning, disk
<1>4. CASE PurgeFile
  <2>1. UNCHANGED <<row, process, forgotten>> /\ act[x].step = "purge"  BY <1>4 DEF PurgeFile, At
  <2>2. \A i \in Ids : row'[i].at \in Bins => Trashed(i)'  BY <2>1 DEF TrashInv, Trashed
  <2>3. PICK e \in act["worker"].bins :
        \/ /\ e[1] \in Bins
           /\ file' = [file EXCEPT ![e[1]] = None]
           /\ act' = [act EXCEPT !["worker"] = [@ EXCEPT !.step = "delete", !.at = e[1], !.id = e[2],
                                                         !.bins = act["worker"].bins \ {e}]]
        \/ /\ act' = [act EXCEPT !["worker"] = Idle]
           /\ file' = file
    BY <1>4 DEF PurgeFile, disk
  <2>4. CASE /\ e[1] \in Bins
             /\ file' = [file EXCEPT ![e[1]] = None]
             /\ act' = [act EXCEPT !["worker"] = [@ EXCEPT !.step = "delete", !.at = e[1], !.id = e[2],
                                                           !.bins = act["worker"].bins \ {e}]]
    <3>1. e[2] \in Ids  BY <1>1 DEF Acts, Entries
    <3> DEFINE rest == act[x].bins \ {e}
               l == [act[x] EXCEPT !.step = "delete", !.at = e[1], !.id = e[2], !.bins = rest]
    <3>2. act' = [act EXCEPT ![x] = l]  BY <2>4
    <3>3. rest \in SUBSET Entries  BY <1>1 DEF Acts
    <3> HIDE DEF rest
    <3>4. l \in Acts /\ l.step = "delete" /\ l.at = e[1]
      BY <1>1, <2>4, <3>1, <3>3, Names DEF Acts, Steps
    <3> HIDE DEF l
    <3>5. Alone(x) /\ act'[x] = l  BY <1>1, <3>2, <3>4, Sets
    <3>6. file'[e[1]] = None /\ \A b \in Bins : file'[b] \in {file[b], None}
      BY <1>1, <2>4, Names DEF Shaped
    <3>7. (At("worker", "delete") => file[act["worker"].at] = None)'
      BY <3>4, <3>5, <3>6
    <3> QED  BY <1>1, <2>1, <2>2, <3>5, <3>6, <3>7, TrashMoves DEF Binning
  <2>5. CASE act' = [act EXCEPT !["worker"] = Idle] /\ file' = file
    <3>1. Alone(x) /\ act'[x] = Idle  BY <1>1, <2>5, IdleFields, Sets
    <3> QED  BY <1>1, <2>1, <2>5, <3>1, IdleFields, PlainMoves DEF Binning
  <2> QED  BY <2>3, <2>4, <2>5
<1>5. CASE PurgeRow
  <2>1. act[x].step = "delete" /\ act[x].id \in Ids /\ act[x].at \in Bins /\ file[act[x].at] = None
    BY <1>1, <1>5 DEF PurgeRow, At, Fielded, TrashInv
  <2>2. /\ row' = [row EXCEPT ![act[x].id] = NoRow] /\ file' = file /\ process' = process
        /\ forgotten' = forgotten \cup ((InTrash \cap {Held(row[act[x].id].at)}) \ {None})
    <3>1. InTrash \cap {None} = {}  BY Names DEF InTrash
    <3> QED  BY <1>5, <2>1, <3>1 DEF PurgeRow, disk
  <2>3. Alone(x) /\ act'[x].step # "delete"
    <3>1. CASE act[x].bins = {}
      <4>1. act' = [act EXCEPT ![x] = Idle]  BY <1>1, <1>5, <3>1 DEF PurgeRow
      <4> QED  BY <1>1, <4>1, IdleFields, Sets
    <3>2. CASE act[x].bins # {}
      <4>1. act' = [act EXCEPT ![x] = [act[x] EXCEPT !.step = "purge", !.at = None, !.id = None]]
        BY <1>1, <1>5, <3>2 DEF PurgeRow
      <4> QED  BY <1>1, <4>1 DEF Alone, Acts, Steps
    <3> QED  BY <3>1, <3>2
  <2>4. \A j \in Ids : row'[j] # row[j] => j = act[x].id /\ row'[j].at = None
    BY <1>1, <2>2 DEF Shaped, NoRow
  <2>5. \A j \in Ids : row'[j].at \in Bins => Trashed(j)'
    BY <2>4, Names DEF TrashInv, Trashed
  <2>6. \A j \in Ids : row[j].at \in Bins =>
            row'[j].at = row[j].at \/ file[row[j].at] \in forgotten' \cup {None}
    <3> SUFFICES ASSUME NEW j \in Ids, row[j].at \in Bins, row'[j].at # row[j].at
                 PROVE  file[row[j].at] \in forgotten' \cup {None}
      OBVIOUS
    <3>1. j = act[x].id  BY <2>4
    <3>2. InTrash \cap {Held(row[j].at)} = {file[row[j].at]} \ {None}  BY <1>1, HeldForgotten
    <3> QED  BY <2>2, <3>1, <3>2
  <2>7. (At("worker", "delete") => file[act["worker"].at] = None)'  BY <2>3 DEF At
  <2>8. \A b \in Bins : file'[b] \in {file[b], None}  BY <2>2
  <2> QED  BY <1>1, <2>1, <2>2, <2>3, <2>5, <2>6, <2>7, <2>8, TrashMoves DEF Binning
<1> QED  BY <1>2, <1>3, <1>4, <1>5

LEMMA ProcessKept ==
    ASSUME Typed, TrashInv, Ready \/ Boot \/ Crash PROVE TrashInv'
<1>1. act \in [Actors -> Acts] /\ Shaped /\ Owned /\ "starter" \in Actors /\ "worker" \in Actors
  BY Names, Facts
<1>2. ASSUME file' = file, row' = row, forgotten' = forgotten
      PROVE  \A i \in Ids : row'[i].at \in Bins => Trashed(i)'
  BY <1>2 DEF TrashInv, Trashed
<1>3. CASE Ready
  <2>1. Alone("starter") /\ act'["starter"] = Idle  BY <1>1, <1>3, IdleFields, Sets DEF Ready
  <2>2. act'["worker"] = act["worker"]  BY <1>1, <2>1 DEF Alone
  <2>3. file' = file /\ row' = row /\ forgotten' = forgotten  BY <1>3 DEF Ready, disk
  <2>4. \A b \in Bins : Exists(b)' => Rested(b)'
    <3> SUFFICES ASSUME NEW b \in Bins, Exists(b)' PROVE Rested(b)'  OBVIOUS
    <3>1. process # "down"  BY <1>3 DEF Ready, TrashInv, At
    <3>2. Rested(b)  BY <1>3, <2>3, <3>1 DEF Ready, At, TrashInv, Settled, Exists
    <3>3. \A u \in Requests : act'[u] = act[u]  BY <2>1, Names DEF Alone
    <3> QED  BY <2>3, <3>2, <3>3, RestedKeeps
  <2> QED  BY <1>2, <2>1, <2>2, <2>3, <2>4, IdleFields DEF TrashInv, At
<1>4. CASE Boot
  <2> DEFINE l == [Idle EXCEPT !.step = "list"]
  <2>1. l \in Acts /\ l.step = "list"  BY IdleFields DEF Acts, Steps
  <2> HIDE DEF l
  <2>2. Alone("starter") /\ act'["starter"] = l  BY <1>1, <1>4, <2>1, Sets DEF Boot, l
  <2>3. act'["worker"] = act["worker"]  BY <1>1, <2>2, Names DEF Alone
  <2>4. file' = file /\ row' = row /\ forgotten' = forgotten /\ process' = "starting"
    BY <1>4 DEF Boot, disk
  <2> QED  BY <1>2, <2>1, <2>2, <2>3, <2>4 DEF TrashInv, At, Settled
<1>5. CASE Crash
  <2>1. \A x \in Actors : act'[x] = Idle  BY <1>5 DEF Crash
  <2>2. file' = file /\ row' = row /\ forgotten' = forgotten /\ process' = "down"
    BY <1>5 DEF Crash, disk
  <2> QED  BY <1>1, <1>2, <2>1, <2>2, IdleFields DEF TrashInv, At, Settled
<1> QED  BY <1>3, <1>4, <1>5

LEMMA OthersKept ==
    ASSUME Typed, TrashInv, Add \/ Move \/ Remove \/ Strip \/ UNCHANGED vars PROVE TrashInv'
<1>1. Shaped /\ "worker" \in Actors  BY Names, Facts
<1>2. UNCHANGED <<row, process, act, forgotten>>
  BY DEF Add, Move, Remove, Strip, vars
<1>3. \A b \in Bins : file'[b] = file[b]
  <2>1. CASE Add  BY <1>1, <2>1, Names DEF Add, Shaped
  <2>2. CASE Move  BY <1>1, <2>2, Names DEF Move, Shaped
  <2>3. CASE Remove  BY <1>1, <2>3, Names DEF Remove, Shaped
  <2>4. CASE Strip \/ UNCHANGED vars  BY <2>4 DEF Strip, vars, disk
  <2> QED  BY <2>1, <2>2, <2>3, <2>4
<1>4. \A i \in Ids : row'[i].at \in Bins => Trashed(i)'  BY <1>2 DEF TrashInv, Trashed
<1>5. (At("worker", "delete") => file[act["worker"].at] = None)'
  <2>1. At("worker", "delete") => act["worker"].at \in Bins  BY Names, Facts DEF Fielded, At
  <2> QED  BY <1>2, <1>3, <2>1 DEF TrashInv, At
<1>6. ASSUME Settled', NEW b \in Bins, Exists(b)' PROVE Rested(b)'
  <2>1. Settled /\ Exists(b)  BY <1>2, <1>3, <1>6 DEF Settled, Exists
  <2>2. Rested(b)  BY <2>1 DEF TrashInv
  <2> QED  BY <1>2, <1>3, <2>2, RestedKeeps
<1> QED  BY <1>2, <1>4, <1>5, <1>6 DEF TrashInv, At

LEMMA StepKept == ASSUME Typed, TrashInv, [Next]_vars PROVE TrashInv'
<1>1. ASSUME NEW x \in Actors, IndexStep(x) \/ List(x) \/ Wipe(x) \/ NextFile(x) PROVE TrashInv'
  BY <1>1, IndexKept, ReindexKept
<1> QED  BY <1>1, RequestKept, WorkerKept, ProcessKept, OthersKept DEF Next

LEMMA InitKept == Init => TrashInv
<1> SUFFICES ASSUME Init PROVE TrashInv  OBVIOUS
<1>1. /\ \A x \in Actors : act[x] = Idle
      /\ \A i \in Ids : row[i].at = None
      /\ process = "down"
  BY DEF Init, InitWith, NoRow
<1> QED  BY <1>1, IdleFields, Names DEF TrashInv, At, Settled

\* A file in the Trash at rest has its row there, with its original path, unless a step the
\* property names has taken the row from it: no overlap of deletions, restores, purges,
\* repairs and reindexes leaves one that can be neither restored nor purged.
THEOREM TrashHasRows == Spec => []TrashIsKept
<1>1. Init => Typed /\ TrashInv  BY InitTyped, InitKept
<1>2. Typed /\ TrashInv /\ [Next]_vars => Typed' /\ TrashInv'  BY StepTyped, StepKept
<1>3. Typed /\ TrashInv => TrashIsKept
  <2> SUFFICES ASSUME Typed, TrashInv, process = "up", NEW b \in Bins, Exists(b),
                      Untouched(b, Actors)
               PROVE  (\E i \in Ids : row[i].at = b /\ Trashed(i)) \/ file[b] \in forgotten
    BY DEF TrashIsKept
  <2>1. Settled  BY DEF TrashInv, Settled, At
  <2>2. Rested(b)  BY <2>1 DEF TrashInv
  <2>3. \A u \in Requests : act[u].to # b  BY Names DEF Untouched, Touches
  <2> QED  BY <2>2, <2>3 DEF Rested, TrashInv
<1> QED  BY <1>1, <1>2, <1>3, PTL DEF Spec
-----------------------------------------------------------------------------
(* The sidecars: what is beside a file, or about to be written beside it.   *)

\* The id of a file, or a pair of which nothing is said.
Fits(i, f) == owner[i] = f \/ {owner[i], f} \subseteq displaced

\* What an actor is about to write beside a place.
Writes(x, p, i) ==
    \/ act[x].step = "write" /\ act[x].at = p /\ act[x].id = i
    \/ act[x].step = "note" /\ act[x].at = p /\ act[x].seen = i
    \/ act[x].step = "stamp" /\ act[x].to = p /\ act[x].seen = i
Claimed(p, i) == side[p] = i \/ \E x \in Actors : Writes(x, p, i)

\* Every sidecar that is or will be beside a file suits it.
SidesFit == \A p \in Places, i \in Ids : Claimed(p, i) /\ file[p] # None => Fits(i, file[p])

\* The id a deletion has read, and will write into the Trash.
BinFits(u) == act[u].seen # None /\ file[act[u].at] # None => Fits(act[u].seen, file[act[u].at])

\* Between the two renames of a deletion: what is beside the old place belongs to the file
\* that left it.
CarryFits(u) ==
    LET p == act[u].at
        g == file[act[u].to] IN
    /\ \A i \in Ids : Claimed(p, i) => Fits(i, g)
    /\ file[p] # None => {file[p], g} \subseteq displaced

\* Between the two renames of a restore, from the Trash.
FollowFits(v) ==
    LET a == act[v].at
        p == act[v].to IN
    /\ \A i \in Ids : Claimed(a, i) /\ file[p] # None => Fits(i, file[p])
    /\ \A i \in Ids, u \in Requests :
         Claimed(a, i) /\ act[u].step = "carry" /\ act[u].at = p => Fits(i, file[act[u].to])

\* The same from a path of the Library, to which the row was moved: nothing is said of the
\* files it touches.
FollowAstray(v) ==
    LET a == act[v].at
        p == act[v].to IN
    /\ \A i \in Ids : Claimed(a, i) => owner[i] \in displaced
    /\ {file[a], file[p]} \subseteq displaced \cup {None}
    /\ \A u \in Requests : act[u].step = "carry" /\ act[u].at = p => file[act[u].to] \in displaced
    /\ \A i \in Ids, w \in Requests :
         act[w].step = "follow" /\ act[w].to = a /\ Claimed(act[w].at, i) => owner[i] \in displaced

SideInv ==
    /\ SidesFit
    /\ \A u \in Requests : act[u].step = "bin" => BinFits(u)
    /\ \A u \in Requests : act[u].step = "carry" => CarryFits(u)
    /\ \A v \in Requests : act[v].step = "follow" /\ act[v].at \in Bins => FollowFits(v)
    /\ \A v \in Requests : act[v].step = "follow" /\ act[v].at \in Paths => FollowAstray(v)

Same(u) == /\ act'[u].step = act[u].step /\ act'[u].at = act[u].at
           /\ act'[u].to = act[u].to /\ act'[u].seen = act[u].seen

\* The id of a sidecar, or one an operation has, is that of the same file as before, or of
\* files of which nothing is said.
InUse(i) == owner[i] # None /\ (Carried(i) \/ Pending(i))
OwnersKeep ==
    /\ displaced \subseteq displaced'
    /\ \A i \in Ids : InUse(i) =>
           owner'[i] = owner[i] \/ {owner[i], owner'[i]} \subseteq displaced'

LEMMA ClaimKnown ==
    ASSUME Typed, NEW p \in Places, NEW i \in Ids, Claimed(p, i) PROVE InUse(i)
<1>1. CASE side[p] = i  BY <1>1, Names DEF InUse, Carried, Typed, Owned, Made
<1>2. CASE \E x \in Actors : Writes(x, p, i)
  BY <1>2 DEF Writes, InUse, Pending, Typed, Fields, Fielded, Made
<1> QED  BY <1>1, <1>2 DEF Claimed

LEMMA FitsOn ==
    ASSUME OwnersKeep, NEW i \in Ids, InUse(i), NEW f
    PROVE  /\ owner[i] \in displaced => owner'[i] \in displaced'
           /\ Fits(i, f) => owner'[i] = f \/ {owner'[i], f} \subseteq displaced'
  BY DEF OwnersKeep, Fits

\* A sidecar that came to a place suits the file there, and those that were there.
Admitted(q, i) ==
    /\ file'[q] # None => owner'[i] = file'[q] \/ {owner'[i], file'[q]} \subseteq displaced'
    /\ \A u \in Requests : act'[u].step = "carry" /\ act'[u].at = q =>
         owner'[i] = file'[act'[u].to] \/ {owner'[i], file'[act'[u].to]} \subseteq displaced'
    /\ \A v \in Requests : act'[v].step = "follow" /\ act'[v].at = q =>
         q \in Paths /\ owner'[i] \in displaced'

LEMMA Calm ==
    ASSUME Typed, SideInv, OwnersKeep,
           \A q \in Places : file'[q] \in {file[q], None},
           \A u \in Requests : act[u].step = "carry" => file'[act[u].to] = file[act[u].to],
           \A q \in Places, i \in Ids : Claimed(q, i)' =>
               \/ Claimed(q, i)
               \/ /\ q \in Paths /\ file[q] # None /\ file'[q] = file[q]
                  /\ owner'[i] = file[q] \/ {owner'[i], file[q]} \subseteq displaced'
               \/ Admitted(q, i),
           \A u \in Requests : act'[u].step \in {"bin", "carry", "follow"} =>
               Same(u) \/ (act'[u].step = "bin" /\ BinFits(u)')
    PROVE  SideInv'
<1>0. /\ \A u \in Requests : act[u].step = "carry" => act[u].at \in Paths /\ act[u].to \in Bins
      /\ \A u \in Requests : act[u].step = "follow" => act[u].at \in Places /\ act[u].to \in Paths
      /\ \A u \in Requests : act[u].step = "bin" => act[u].at \in Paths
      /\ \A p \in Paths : p \in Places /\ p \notin Bins
  BY Names DEF Typed, Fields, Fielded, Binning
<1>1. SidesFit'
  <2> SUFFICES ASSUME NEW p \in Places, NEW i \in Ids, Claimed(p, i)', file'[p] # None
               PROVE  owner'[i] = file'[p] \/ {owner'[i], file'[p]} \subseteq displaced'
    BY DEF SidesFit, Fits
  <2>1. file'[p] = file[p]  OBVIOUS
  <2>2. CASE Claimed(p, i)
    <3>1. Fits(i, file[p])  BY <2>1, <2>2 DEF SideInv, SidesFit
    <3> QED  BY <2>1, <2>2, <3>1, ClaimKnown, FitsOn
  <2> QED  BY <2>1, <2>2 DEF Admitted
<1>2. ASSUME NEW u \in Requests, act'[u].step = "bin" PROVE BinFits(u)'
  <2>1. CASE Same(u)
    <3> SUFFICES ASSUME act'[u].seen # None, file'[act'[u].at] # None
                 PROVE  LET i == act'[u].seen  f == file'[act'[u].at]
                        IN  owner'[i] = f \/ {owner'[i], f} \subseteq displaced'
      BY DEF BinFits, Fits
    <3>1. /\ act[u].step = "bin" /\ act[u].at \in Paths /\ act'[u].seen = act[u].seen
          /\ act'[u].at = act[u].at
      BY <1>0, <1>2, <2>1 DEF Same
    <3>2. act[u].seen \in Ids /\ InUse(act[u].seen)
      BY <3>1, Names DEF Typed, Fields, Fielded, Made, Pending, InUse
    <3>3. file'[act[u].at] = file[act[u].at]  BY <1>0, <3>1
    <3>4. Fits(act[u].seen, file[act[u].at])  BY <3>1, <3>3 DEF SideInv, BinFits
    <3> QED  BY <3>1, <3>2, <3>3, <3>4, FitsOn
  <2> QED  BY <1>2, <2>1
<1>3. ASSUME NEW u \in Requests, act'[u].step = "carry" PROVE CarryFits(u)'
  <2>1. /\ act[u].step = "carry" /\ act'[u].at = act[u].at /\ act'[u].to = act[u].to
        /\ act[u].at \in Paths /\ act[u].at \in Places
    BY <1>0, <1>3 DEF Same
  <2> DEFINE p == act[u].at
             g == file[act[u].to]
  <2>2. CarryFits(u) /\ file'[act[u].to] = g  BY <2>1 DEF SideInv
  <2>3. ASSUME NEW i \in Ids, Claimed(p, i)'
        PROVE  owner'[i] = g \/ {owner'[i], g} \subseteq displaced'
    <3>1. CASE Claimed(p, i)
      <4>1. Fits(i, g)  BY <2>2, <3>1 DEF CarryFits
      <4> QED  BY <2>1, <3>1, <4>1, ClaimKnown, FitsOn
    <3>2. CASE /\ file[p] # None
               /\ owner'[i] = file[p] \/ {owner'[i], file[p]} \subseteq displaced'
      BY <2>2, <3>2 DEF CarryFits, OwnersKeep
    <3>3. CASE Admitted(p, i)  BY <1>3, <2>1, <2>2, <3>3 DEF Admitted
    <3> QED  BY <2>1, <2>3, <3>1, <3>2, <3>3
  <2>4. file'[p] # None => {file'[p], g} \subseteq displaced'
    BY <2>1, <2>2 DEF CarryFits, OwnersKeep
  <2> QED  BY <2>1, <2>2, <2>3, <2>4 DEF CarryFits, Fits
<1>4. ASSUME NEW v \in Requests, act'[v].step = "follow", act'[v].at \in Bins PROVE FollowFits(v)'
  <2>1. /\ act[v].step = "follow" /\ act'[v].at = act[v].at /\ act'[v].to = act[v].to
        /\ act[v].at \in Bins /\ act[v].at \notin Paths /\ act[v].at \in Places /\ act[v].to \in Places
    BY <1>0, <1>4, Names DEF Same
  <2> DEFINE a == act[v].at
             p == act[v].to
  <2>2. FollowFits(v)  BY <2>1 DEF SideInv
  <2>3. ASSUME NEW i \in Ids, Claimed(a, i)' PROVE Claimed(a, i) /\ InUse(i)
    <3>1. ~Admitted(a, i)  BY <1>4, <2>1 DEF Admitted
    <3> QED  BY <2>1, <2>3, <3>1, ClaimKnown
  <2>4. ASSUME NEW i \in Ids, Claimed(a, i)', file'[p] # None
        PROVE  owner'[i] = file'[p] \/ {owner'[i], file'[p]} \subseteq displaced'
    <3>1. file'[p] = file[p] /\ Fits(i, file[p])  BY <2>1, <2>2, <2>3, <2>4 DEF FollowFits
    <3> QED  BY <2>3, <2>4, <3>1, FitsOn
  <2>5. ASSUME NEW i \in Ids, NEW u \in Requests, Claimed(a, i)',
               act'[u].step = "carry", act'[u].at = p
        PROVE  LET g == file'[act'[u].to] IN owner'[i] = g \/ {owner'[i], g} \subseteq displaced'
    <3>1. act[u].step = "carry" /\ act[u].at = p /\ act'[u].to = act[u].to  BY <2>5 DEF Same
    <3>2. file'[act'[u].to] = file[act[u].to] /\ Fits(i, file[act[u].to])
      BY <2>2, <2>3, <2>5, <3>1 DEF FollowFits
    <3> QED  BY <2>3, <2>5, <3>2, FitsOn
  <2> QED  BY <2>1, <2>4, <2>5 DEF FollowFits, Fits
<1>5. ASSUME NEW v \in Requests, act'[v].step = "follow", act'[v].at \in Paths PROVE FollowAstray(v)'
  <2>1. /\ act[v].step = "follow" /\ act'[v].at = act[v].at /\ act'[v].to = act[v].to
        /\ act[v].at \in Paths /\ act[v].at \in Places /\ act[v].to \in Places
    BY <1>0, <1>5, Names DEF Same
  <2> DEFINE a == act[v].at
             p == act[v].to
  <2>2. FollowAstray(v)  BY <2>1 DEF SideInv
  <2>3. ASSUME NEW i \in Ids, Claimed(a, i)' PROVE owner'[i] \in displaced'
    <3>1. CASE Claimed(a, i)
      <4>1. owner[i] \in displaced  BY <2>2, <3>1 DEF FollowAstray
      <4> QED  BY <2>1, <3>1, <4>1, ClaimKnown, FitsOn
    <3>2. CASE /\ file[a] # None
               /\ owner'[i] = file[a] \/ {owner'[i], file[a]} \subseteq displaced'
      BY <2>2, <3>2 DEF FollowAstray, OwnersKeep
    <3>3. CASE Admitted(a, i)  BY <1>5, <2>1, <3>3 DEF Admitted
    <3> QED  BY <2>1, <2>3, <3>1, <3>2, <3>3
  <2>4. {file'[a], file'[p]} \subseteq displaced' \cup {None}
    BY <2>1, <2>2 DEF FollowAstray, OwnersKeep
  <2>5. ASSUME NEW u \in Requests, act'[u].step = "carry", act'[u].at = p
        PROVE  file'[act'[u].to] \in displaced'
    <3>1. act[u].step = "carry" /\ act[u].at = p /\ act'[u].to = act[u].to  BY <2>5 DEF Same
    <3> QED  BY <2>2, <3>1 DEF FollowAstray, OwnersKeep
  <2>6. ASSUME NEW i \in Ids, NEW w \in Requests, act'[w].step = "follow", act'[w].to = a,
               Claimed(act[w].at, i)'
        PROVE  owner'[i] \in displaced'
    <3>1. act[w].step = "follow" /\ act[w].to = a /\ act'[w].at = act[w].at  BY <2>6 DEF Same
    <3> DEFINE b == act[w].at
    <3>2. b \in Places /\ (b \in Paths \/ b \in Bins)  BY <1>0, <3>1 DEF Places
    <3>3. \/ Claimed(b, i) \/ Admitted(b, i)
          \/ /\ b \in Paths /\ file[b] # None
             /\ owner'[i] = file[b] \/ {owner'[i], file[b]} \subseteq displaced'
      BY <2>6, <3>1, <3>2
    <3>4. CASE Claimed(b, i)
      <4>1. owner[i] \in displaced  BY <2>2, <3>1, <3>4 DEF FollowAstray
      <4> QED  BY <3>2, <3>4, <4>1, ClaimKnown, FitsOn
    <3>5. CASE /\ b \in Paths /\ file[b] # None
               /\ owner'[i] = file[b] \/ {owner'[i], file[b]} \subseteq displaced'
      <4>1. FollowAstray(w)  BY <3>1, <3>5 DEF SideInv
      <4> QED  BY <3>5, <4>1 DEF FollowAstray, OwnersKeep
    <3>6. CASE Admitted(b, i)  BY <2>6, <3>1, <3>6 DEF Admitted
    <3> QED  BY <3>3, <3>4, <3>5, <3>6
  <2> QED  BY <2>1, <2>3, <2>4, <2>5, <2>6 DEF FollowAstray
<1> QED  BY <1>1, <1>2, <1>3, <1>4, <1>5 DEF SideInv

\* What a file put under the hands of others brings with it.
LEMMA CrossedHas ==
    ASSUME Typed, NEW by, NEW y \in by, y \in Actors, NEW p, Touches(y, p), NEW f
    PROVE  /\ f \in Crossed(f, p, by)
           /\ act[y].to \in Places
              => (file[act[y].to] # None => file[act[y].to] \in Crossed(f, p, by))
           /\ \A i \in Ids : owner[i] # None /\ i \in {act[y].id, act[y].seen, IdAt(act[y].at)}
                             => owner[i] \in Crossed(f, p, by)
<1>1. ASSUME NEW g \in {f} \cup Concerned(y) PROVE g \in Crossed(f, p, by)
  <2>1. y \in {z \in by : Touches(z, p)}  OBVIOUS
  <2> QED  BY <1>1, <2>1 DEF Crossed
<1>2. Shaped  BY Names, Facts
<1>3. act[y].to \in Places /\ file[act[y].to] # None => file[act[y].to] \in Concerned(y)
  BY <1>2, Names DEF Concerned, Held, Shaped
<1>4. \A i \in Ids : owner[i] # None /\ i \in {act[y].id, act[y].seen, IdAt(act[y].at)}
                     => owner[i] \in Concerned(y)
  BY <1>2 DEF Concerned, Shaped
<1> QED  BY <1>1, <1>3, <1>4

\* Beside a file of the Trash that is being restored nobody writes.
LEMMA BinClaim ==
    ASSUME Typed, NEW v \in Requests, act[v].step = "follow", act[v].at \in Bins,
           NEW i \in Ids, Claimed(act[v].at, i)
    PROVE  side[act[v].at] = i /\ IdAt(act[v].at) = i /\ owner[i] # None
<1>1. ASSUME NEW y \in Actors, Writes(y, act[v].at, i) PROVE FALSE
  <2>1. CASE act[y].step \in {"write", "note"}
    <3>1. act[y].at \in Paths  BY <2>1 DEF Typed, Fields, Fielded, Indexing
    <3> QED  BY <1>1, <2>1, <3>1, Names DEF Writes
  <2>2. CASE act[y].step = "stamp"
    <3>1. y \in Requests /\ y # v /\ v \in Actors /\ act[y].to = act[v].at
      BY <1>1, <2>2, Names DEF Typed, Fields, ReqSteps, Writes
    <3>2. Reserved(y)  BY <3>1 DEF Typed
    <3> QED  BY <2>2, <3>1, <3>2 DEF Reserved, Binning
  <2> QED  BY <1>1, <2>1, <2>2 DEF Writes
<1>2. side[act[v].at] = i  BY <1>1 DEF Claimed
<1> QED  BY <1>2, Names DEF IdAt, Typed, Owned, Made

\* An operation goes on as it was, or it is the one that brings a file to a path.
GoesOrBrings(u, x, p, f) ==
    \/ Same(u)
    \/ /\ u = x /\ act'[x].step = "follow" /\ act'[x].at = act[x].at /\ act'[x].to = p
       /\ act[x].at \in Places /\ file[act[x].at] = f
       /\ act[x].at \in Paths => f \in displaced'

\* A file comes to a path.
LEMMA Arrives ==
    ASSUME Typed, SideInv, NEW x, NEW p \in Paths, NEW f \in Files,
           file'[p] = f, \A q \in Places \ {p} : file'[q] \in {file[q], None},
           \A u \in Requests : act[u].step = "carry" => file'[act[u].to] = file[act[u].to],
           owner' = owner,
           displaced \cup Clash(f, p) \cup Crossed(f, p, Actors \ {x}) \subseteq displaced',
           x \in Actors => act[x].step \notin {"bin", "carry", "follow", "write", "note", "stamp"},
           \A q \in Places, i \in Ids : Claimed(q, i)' =>
               Claimed(q, i) \/ (q = p /\ Untouched(p, Actors) /\ Fits(i, f)),
           \A u \in Requests : act'[u].step \in {"bin", "carry", "follow"} => GoesOrBrings(u, x, p, f)
    PROVE  SideInv'
<1> USE DEF GoesOrBrings
<1>0. /\ \A u \in Requests : act[u].step = "carry" => act[u].at \in Paths /\ act[u].to \in Bins
      /\ \A u \in Requests : act[u].step = "follow" => act[u].at \in Places /\ act[u].to \in Paths
      /\ \A u \in Requests : act[u].step = "bin" => act[u].at \in Paths /\ act[u].seen \in Ids \cup {None}
      /\ \A u \in Requests : act[u].step = "carry" => file[act[u].to] # None
      /\ \A u \in Requests : u \in Actors
      /\ \A q \in Paths : q \in Places /\ q \notin Bins
      /\ Shaped /\ Owned /\ f # None
  BY Names, Facts DEF Typed, Fields, Fielded, Binning, Reserved, Made
<1>1. \A i \in Ids, g \in Files : Fits(i, g) => owner'[i] = g \/ {owner'[i], g} \subseteq displaced'
  BY DEF Fits
<1>2. ASSUME NEW y \in Actors \ {x}, Touches(y, p)
      PROVE  /\ f \in displaced'
             /\ act[y].to \in Places => (file[act[y].to] # None => file[act[y].to] \in displaced')
             /\ \A i \in Ids : owner[i] # None /\ i \in {act[y].id, act[y].seen, IdAt(act[y].at)}
                               => owner[i] \in displaced'
  BY <1>2, CrossedHas
<1>3. ASSUME NEW i \in Ids, Claimed(p, i) PROVE {f, owner[i]} \subseteq displaced'
  <2>1. CASE side[p] = i  BY <1>0, <1>3, <2>1, Names DEF Clash, Exists
  <2>2. CASE side[p] # i
    <3>1. PICK y \in Actors : Writes(y, p, i)  BY <1>3, <2>2 DEF Claimed
    <3>2. y # x  BY <3>1 DEF Writes
    <3>3. Touches(y, p) /\ i \in {act[y].id, act[y].seen}  BY <3>1 DEF Writes, Touches
    <3>4. owner[i] # None  BY <3>1 DEF Writes, Typed, Fields, Fielded, Made, Indexing
    <3> QED  BY <1>2, <3>2, <3>3, <3>4
  <2> QED  BY <2>1, <2>2
<1>4. SidesFit'
  <2> SUFFICES ASSUME NEW q \in Places, NEW i \in Ids, Claimed(q, i)', file'[q] # None
               PROVE  owner'[i] = file'[q] \/ {owner'[i], file'[q]} \subseteq displaced'
    BY DEF SidesFit, Fits
  <2>1. CASE Claimed(q, i) /\ q = p  BY <1>3, <2>1
  <2>2. CASE Claimed(q, i) /\ q # p
    <3>1. file'[q] = file[q]  BY <2>2
    <3>2. Fits(i, file[q])  BY <2>2, <3>1 DEF SideInv, SidesFit
    <3> QED  BY <3>1, <3>2 DEF Fits
  <2>3. CASE q = p /\ Fits(i, f)  BY <1>1, <2>3
  <2> QED  BY <2>1, <2>2, <2>3
<1>5. ASSUME NEW u \in Requests, act'[u].step = "bin" PROVE BinFits(u)'
  <2>1. act[u].step = "bin" /\ act'[u].seen = act[u].seen /\ act'[u].at = act[u].at
    BY <1>5 DEF Same
  <2> SUFFICES ASSUME act[u].seen # None, file'[act[u].at] # None
               PROVE  LET i == act[u].seen  g == file'[act[u].at]
                      IN  owner'[i] = g \/ {owner'[i], g} \subseteq displaced'
    BY <2>1 DEF BinFits, Fits
  <2>2. act[u].seen \in Ids /\ owner[act[u].seen] # None
    BY <2>1 DEF Typed, Fields, Fielded, Made, Actors
  <2>3. CASE act[u].at = p
    <3>1. u \in Actors \ {x} /\ Touches(u, p)  BY <1>0, <2>1, <2>3 DEF Touches
    <3> QED  BY <1>2, <2>2, <2>3, <3>1
  <2>4. CASE act[u].at # p
    <3>1. file'[act[u].at] = file[act[u].at]  BY <1>0, <2>1, <2>4
    <3>2. Fits(act[u].seen, file[act[u].at])  BY <2>1, <3>1 DEF SideInv, BinFits
    <3> QED  BY <3>1, <3>2 DEF Fits
  <2> QED  BY <2>3, <2>4
<1>6. ASSUME NEW u \in Requests, act'[u].step = "carry" PROVE CarryFits(u)'
  <2>1. /\ act[u].step = "carry" /\ act'[u].at = act[u].at /\ act'[u].to = act[u].to
        /\ act[u].at \in Paths /\ act[u].at \in Places /\ act[u].to \in Places
    BY <1>0, <1>6, Names DEF Same
  <2> DEFINE a == act[u].at
             g == file[act[u].to]
  <2>2. CarryFits(u) /\ file'[act[u].to] = g /\ g # None  BY <1>0, <2>1 DEF SideInv
  <2>3. u \in Actors \ {x} /\ Touches(u, a)  BY <1>0, <2>1 DEF Touches
  <2>4. ASSUME NEW i \in Ids, Claimed(a, i)' PROVE owner'[i] = g \/ {owner'[i], g} \subseteq displaced'
    <3>1. Claimed(a, i)  BY <2>1, <2>3, <2>4 DEF Untouched
    <3>2. Fits(i, g)  BY <2>2, <3>1 DEF CarryFits
    <3> QED  BY <3>2 DEF Fits
  <2>5. file'[a] # None => {file'[a], g} \subseteq displaced'
    <3>1. CASE a = p  BY <1>2, <2>1, <2>2, <2>3, <3>1
    <3>2. CASE a # p  BY <2>1, <2>2, <3>2 DEF CarryFits
    <3> QED  BY <3>1, <3>2
  <2> QED  BY <2>1, <2>2, <2>4, <2>5 DEF CarryFits, Fits
<1>7. ASSUME NEW v \in Requests, Same(v), act[v].step = "follow", act[v].at \in Bins PROVE FollowFits(v)'
  <2>1. /\ act'[v].at = act[v].at /\ act'[v].to = act[v].to /\ act[v].at \notin Paths
        /\ act[v].at \in Places /\ act[v].to \in Places /\ v \in Actors \ {x}
    BY <1>0, <1>7, Names DEF Same
  <2> DEFINE a == act[v].at
             q == act[v].to
  <2>2. FollowFits(v)  BY <1>7 DEF SideInv
  <2>3. ASSUME NEW i \in Ids, Claimed(a, i)' PROVE Claimed(a, i) /\ IdAt(a) = i /\ owner[i] # None
    BY <1>7, <2>1, <2>3, BinClaim
  <2>4. ASSUME NEW i \in Ids, Claimed(a, i)', file'[q] # None
        PROVE  owner'[i] = file'[q] \/ {owner'[i], file'[q]} \subseteq displaced'
    <3>1. CASE q = p
      <4>1. Touches(v, p)  BY <3>1 DEF Touches
      <4> QED  BY <1>2, <2>1, <2>3, <2>4, <3>1, <4>1
    <3>2. CASE q # p
      <4>1. file'[q] = file[q] /\ Fits(i, file[q])  BY <2>1, <2>2, <2>3, <2>4, <3>2 DEF FollowFits
      <4> QED  BY <4>1 DEF Fits
    <3> QED  BY <3>1, <3>2
  <2>5. ASSUME NEW i \in Ids, NEW u \in Requests, Claimed(a, i)',
               act'[u].step = "carry", act'[u].at = q
        PROVE  LET g == file'[act'[u].to] IN owner'[i] = g \/ {owner'[i], g} \subseteq displaced'
    <3>1. act[u].step = "carry" /\ act[u].at = q /\ act'[u].to = act[u].to  BY <2>5 DEF Same
    <3>2. file'[act'[u].to] = file[act[u].to] /\ Fits(i, file[act[u].to])
      BY <2>2, <2>3, <2>5, <3>1 DEF FollowFits
    <3> QED  BY <3>2 DEF Fits
  <2> QED  BY <2>1, <2>4, <2>5 DEF FollowFits, Fits
<1>8. ASSUME NEW v \in Requests, Same(v), act[v].step = "follow", act[v].at \in Paths PROVE FollowAstray(v)'
  <2>1. /\ act'[v].at = act[v].at /\ act'[v].to = act[v].to
        /\ act[v].at \in Places /\ act[v].to \in Places /\ v \in Actors \ {x}
    BY <1>0, <1>8 DEF Same
  <2> DEFINE a == act[v].at
             q == act[v].to
  <2>2. FollowAstray(v)  BY <1>8 DEF SideInv
  <2>3. ASSUME NEW i \in Ids, Claimed(a, i)' PROVE owner'[i] \in displaced'
    <3>1. Claimed(a, i)  BY <2>1, <2>3 DEF Untouched, Touches
    <3> QED  BY <2>2, <3>1 DEF FollowAstray
  <2>4. {file'[a], file'[q]} \subseteq displaced' \cup {None}
    <3>1. p \in {a, q} => f \in displaced'  BY <1>2, <2>1 DEF Touches
    <3> QED  BY <2>1, <2>2, <3>1 DEF FollowAstray
  <2>5. ASSUME NEW u \in Requests, act'[u].step = "carry", act'[u].at = q
        PROVE  file'[act'[u].to] \in displaced'
    <3>1. act[u].step = "carry" /\ act[u].at = q /\ act'[u].to = act[u].to  BY <2>5 DEF Same
    <3> QED  BY <2>2, <3>1 DEF FollowAstray
  <2>6. ASSUME NEW i \in Ids, NEW w \in Requests, act'[w].step = "follow", act'[w].to = a,
               Claimed(act[w].at, i)'
        PROVE  owner'[i] \in displaced'
    <3>1. CASE Same(w)
      <4>1. act[w].step = "follow" /\ act[w].to = a /\ act[w].at \in Places /\ w \in Actors
        BY <1>0, <2>6, <3>1 DEF Same
      <4>2. act'[w].at = act[w].at  BY <3>1 DEF Same
      <4>3. Claimed(act[w].at, i)  BY <2>6, <4>1, <4>2 DEF Untouched, Touches
      <4> QED  BY <2>2, <4>1, <4>3 DEF FollowAstray
    <3>2. CASE /\ w = x /\ act'[x].at = act[x].at /\ act'[x].to = p
               /\ act[x].at \in Places /\ file[act[x].at] = f
      <4>1. Touches(v, p)  BY <2>6, <3>2 DEF Touches
      <4>2. f \in displaced' /\ ~Untouched(p, Actors)  BY <1>2, <2>1, <4>1 DEF Untouched
      <4>3. Claimed(act[w].at, i)  BY <2>6, <3>2, <4>2
      <4>4. Fits(i, f)  BY <1>0, <3>2, <4>3 DEF SideInv, SidesFit
      <4> QED  BY <4>2, <4>4 DEF Fits
    <3> QED  BY <2>6, <3>1, <3>2
  <2> QED  BY <2>1, <2>3, <2>4, <2>5, <2>6 DEF FollowAstray
<1>9. ASSUME x \in Requests, act'[x].step = "follow", act'[x].at = act[x].at, act'[x].to = p,
             act[x].at \in Places, file[act[x].at] = f, act[x].at \in Paths => f \in displaced'
      PROVE  /\ act'[x].at \in Bins => FollowFits(x)'
             /\ act'[x].at \in Paths => FollowAstray(x)'
  <2> DEFINE a == act[x].at
  <2>1. ASSUME NEW i \in Ids, Claimed(a, i)' PROVE Fits(i, f)
    BY <1>0, <1>9, <2>1 DEF SideInv, SidesFit
  <2>2. ASSUME NEW u \in Requests, act'[u].step = "carry", act'[u].at = p
        PROVE  {f, file'[act'[u].to]} \subseteq displaced' /\ file'[act'[u].to] \in Files
    <3>1. act[u].step = "carry" /\ act[u].at = p /\ act'[u].to = act[u].to  BY <2>2 DEF Same
    <3>2. Touches(u, p) /\ u \in Actors \ {x} /\ file[act[u].to] # None
      BY <1>0, <1>9, <3>1 DEF Touches
    <3>3. f \in displaced' /\ file[act[u].to] \in displaced' /\ act[u].to \in Places
      BY <1>0, <1>2, <3>1, <3>2, Names
    <3>4. file'[act[u].to] = file[act[u].to]  BY <3>1
    <3>5. file[act[u].to] \in Files  BY <1>0, <3>2, <3>3 DEF Shaped
    <3> QED  BY <3>1, <3>3, <3>4, <3>5
  <2>3. CASE a \in Bins
    <3>1. \A i \in Ids : Claimed(a, i)' /\ file'[p] # None
            => owner'[i] = file'[p] \/ {owner'[i], file'[p]} \subseteq displaced'
      BY <1>1, <2>1
    <3>2. \A i \in Ids, u \in Requests :
            Claimed(a, i)' /\ act'[u].step = "carry" /\ act'[u].at = p
            => LET g == file'[act'[u].to] IN owner'[i] = g \/ {owner'[i], g} \subseteq displaced'
      BY <1>1, <2>1, <2>2
    <3> QED  BY <1>9, <2>3, <3>1, <3>2, Names DEF FollowFits, Fits
  <2>4. CASE a \in Paths
    <3>1. \A i \in Ids : Claimed(a, i)' => owner'[i] \in displaced'
      BY <1>1, <1>9, <2>1, <2>4
    <3>2. {file'[a], file'[p]} \subseteq displaced' \cup {None}
      <4>1. CASE a = p  BY <1>9, <2>4, <4>1
      <4>2. CASE a # p
        <5>1. file'[a] \in {f, None}  BY <1>9, <4>2
        <5> QED  BY <1>9, <2>4, <5>1
      <4> QED  BY <4>1, <4>2
    <3>3. ASSUME NEW i \in Ids, NEW w \in Requests, act'[w].step = "follow", act'[w].to = a,
                 Claimed(act[w].at, i)'
          PROVE  owner'[i] \in displaced'
      <4>1. CASE Same(w)
        <5>1. /\ act[w].step = "follow" /\ act[w].to = a /\ act[w].at \in Places /\ w \in Actors
              /\ act'[w].at = act[w].at
          BY <1>0, <3>3, <4>1 DEF Same
        <5>2. Claimed(act[w].at, i)  BY <3>3, <5>1 DEF Untouched, Touches
        <5>3. CASE act[w].at \in Bins
          <6>1. FollowFits(w)  BY <5>1, <5>3 DEF SideInv
          <6>2. Fits(i, f)  BY <1>0, <1>9, <5>1, <5>2, <6>1 DEF FollowFits
          <6> QED  BY <1>9, <2>4, <6>2 DEF Fits
        <5>4. CASE act[w].at \in Paths
          <6>1. FollowAstray(w)  BY <5>1, <5>4 DEF SideInv
          <6> QED  BY <5>2, <6>1 DEF FollowAstray
        <5> QED  BY <5>1, <5>3, <5>4 DEF Places
      <4>2. CASE w = x  BY <1>9, <3>1, <3>3, <4>2
      <4> QED  BY <3>3, <4>1, <4>2
    <3>4. \A u \in Requests : act'[u].step = "carry" /\ act'[u].at = p => file'[act'[u].to] \in displaced'
      BY <2>2
    <3>5. \A i \in Ids, w \in Requests :
            act'[w].step = "follow" /\ act'[w].to = a /\ Claimed(act[w].at, i)' => owner'[i] \in displaced'
      BY <3>3
    <3>6. act'[x].at = a /\ act'[x].to = p  BY <1>9
    <3> QED  BY <2>4, <3>1, <3>2, <3>4, <3>5, <3>6, Names DEF FollowAstray
  <2> QED  BY <1>9, <2>3, <2>4, Names
<1>10. ASSUME NEW v \in Requests, act'[v].step = "follow"
       PROVE  /\ act'[v].at \in Bins => FollowFits(v)'
              /\ act'[v].at \in Paths => FollowAstray(v)'
  <2>1. CASE Same(v)  BY <1>7, <1>8, <1>10, <2>1 DEF Same
  <2>2. CASE ~Same(v)  BY <1>9, <1>10, <2>2
  <2> QED  BY <2>1, <2>2
<1> QED  BY <1>4, <1>5, <1>6, <1>10 DEF SideInv

\* What no writer touches.
LEMMA Claimless ==
    ASSUME NEW x \in Actors, Alone(x), act'[x].step \notin {"write", "note", "stamp"},
           NEW q \in Places, NEW i \in Ids, side'[q] \in {side[q], None}, Claimed(q, i)'
    PROVE  Claimed(q, i)
<1>1. CASE side'[q] = i  BY <1>1, Names DEF Claimed
<1>2. CASE \E y \in Actors : Writes(y, q, i)'
  <2>1. PICK y \in Actors : Writes(y, q, i)'  BY <1>2
  <2>2. y # x  BY <2>1 DEF Writes
  <2>3. Writes(y, q, i)  BY <2>1, <2>2 DEF Writes, Alone
  <2> QED  BY <2>3 DEF Claimed
<1> QED  BY <1>1, <1>2 DEF Claimed

LEMMA Plain ==
    ASSUME Typed, SideInv, NEW x \in Actors, Alone(x),
           act'[x].step \notin {"write", "note", "stamp", "bin", "carry", "follow"},
           owner' = owner, displaced \subseteq displaced',
           \A q \in Places : side'[q] \in {side[q], None} /\ file'[q] \in {file[q], None},
           \A u \in Requests : act[u].step = "carry" => file'[act[u].to] = file[act[u].to]
    PROVE  SideInv'
<1>1. OwnersKeep  BY DEF OwnersKeep
<1>2. \A u \in Requests : act'[u].step \in {"bin", "carry", "follow"} => Same(u)
  BY Names DEF Alone, Same
<1>3. \A q \in Places, i \in Ids : Claimed(q, i)' => Claimed(q, i)  BY Claimless
<1> QED  BY <1>1, <1>2, <1>3, Calm

LEMMA ReadSides == ASSUME Typed, SideInv, NEW x \in Actors, Read(x) PROVE SideInv'
<1>1. /\ act \in [Actors -> Acts] /\ act[x] \in Acts /\ act[x].at \in Places /\ Shaped
  BY Facts, Names DEF Read, At, Fielded, Indexing
<1>2. UNCHANGED <<file, side, owner>> /\ displaced \subseteq displaced'  BY DEF Read, disk
<1>3. Alone(x) /\ act'[x].step \in {"idle", "next", "upsert", "match"}
  <2>1. CASE Done(x)  BY <1>1, <2>1, StepsDone, IdleFields
  <2>2. CASE ~Done(x)
    <3>1. PICK t \in {"upsert", "match"}, i \in Ids \cup {None} :
            act' = [act EXCEPT ![x].id = i, ![x].step = t]
      BY <1>1, <2>2 DEF Read, Shaped
    <3> QED  BY <1>1, <3>1 DEF Alone, Acts, Steps
  <2> QED  BY <2>1, <2>2
<1> QED  BY <1>2, <1>3, Plain

\* The id an indexer takes from a moved file's sidecar, or makes.
LEMMA MatchSides == ASSUME Typed, SideInv, NEW x \in Actors, Match(x) PROVE SideInv'
<1>1. /\ act \in [Actors -> Acts] /\ act[x] \in Acts /\ act[x].at \in Paths /\ Shaped /\ Owned
      /\ At(x, "match")
  BY Facts DEF Match, At, Fielded, Indexing
<1> DEFINE p == act[x].at
           f == file[p]
<1>2. UNCHANGED <<file, side, row>>  BY DEF Match, disk
<1>3. CASE Throw(x) /\ UNCHANGED <<owner, displaced>>
  <2>1. Alone(x) /\ act'[x].step \in {"idle", "next"}
    BY <1>1, <1>3, StepsDone, IdleFields DEF Throw
  <2> QED  BY <1>2, <1>3, <2>1, Plain
<1>4. ASSUME NEW i \in Ids, NEW t \in Paths \cup {None}, f # None, OwnersKeep,
             act' = [act EXCEPT ![x].step = "write", ![x].id = i, ![x].to = t],
             owner'[i] = f \/ {owner'[i], f} \subseteq displaced'
      PROVE  SideInv'
  <2>1. Alone(x) /\ act'[x].step = "write" /\ act'[x].at = p /\ act'[x].id = i
    BY <1>1, <1>4, Names DEF Alone, Acts, Steps
  <2>2. ASSUME NEW q \in Places, NEW j \in Ids, Claimed(q, j)', ~Claimed(q, j)
        PROVE  q = p /\ j = i
    <3>1. PICK y \in Actors : Writes(y, q, j)'  BY <1>2, <2>2 DEF Claimed
    <3>2. y = x
      <4> SUFFICES ASSUME y # x PROVE FALSE  OBVIOUS
      <4>1. Writes(y, q, j)  BY <2>1, <3>1 DEF Writes, Alone
      <4> QED  BY <2>2, <4>1 DEF Claimed
    <3> QED  BY <2>1, <3>1, <3>2 DEF Writes
  <2>3. \A u \in Requests : act'[u].step \in {"bin", "carry", "follow"} => Same(u)
    BY <2>1, Names DEF Alone, Same
  <2>4. \A q \in Places, j \in Ids : Claimed(q, j)' =>
            \/ Claimed(q, j)
            \/ /\ q \in Paths /\ file[q] # None /\ file'[q] = file[q]
               /\ owner'[j] = file[q] \/ {owner'[j], file[q]} \subseteq displaced'
    BY <1>1, <1>2, <1>4, <2>2
  <2> QED  BY <1>2, <1>4, <2>3, <2>4, Calm
<1>5. CASE \E i \in IF Exists(p) THEN Left(p) ELSE {} :
             /\ act' = [act EXCEPT ![x].step = "write", ![x].id = side[row[i].at], ![x].to = row[i].at]
             /\ displaced' = IF Taken(i, f) \/ ~Untouched(row[i].at, Actors \ {x})
                             THEN displaced \cup {f, owner[i], owner[side[row[i].at]]} ELSE displaced
             /\ UNCHANGED <<lock, owner, missed>>
  <2>1. PICK i \in Left(p) :
             /\ act' = [act EXCEPT ![x].step = "write", ![x].id = side[row[i].at], ![x].to = row[i].at]
             /\ displaced' = IF Taken(i, f) \/ ~Untouched(row[i].at, Actors \ {x})
                             THEN displaced \cup {f, owner[i], owner[side[row[i].at]]} ELSE displaced
             /\ UNCHANGED <<lock, owner, missed>>
    BY <1>5
  <2>2. row[i].at \in Paths /\ side[row[i].at] \in Ids /\ f # None
    BY <1>1, <1>5, <2>1, Names DEF Left, Twins, Shaped, Exists
  <2>3. OwnersKeep  BY <2>1 DEF OwnersKeep
  <2>4. owner'[side[row[i].at]] = f \/ {owner'[side[row[i].at]], f} \subseteq displaced'
    <3>1. Content[owner[i]] = Content[f]  BY <2>1 DEF Left, Twins
    <3> QED  BY <2>1, <3>1 DEF Taken
  <2> QED  BY <1>4, <2>1, <2>2, <2>3, <2>4
<1>6. CASE /\ Exists(p)
           /\ \E i \in IF Embedded[f] # None THEN {Embedded[f]} ELSE Fresh :
                /\ act' = [act EXCEPT ![x].step = "write", ![x].id = i, ![x].to = None]
                /\ owner' = [owner EXCEPT ![i] = f]
                /\ displaced' = IF Shared(i, f) THEN displaced \cup {f, owner[i]} ELSE displaced
  <2>1. f \in Files  BY <1>1, <1>6, Names DEF Shaped, Exists
  <2>2. PICK i \in Ids : /\ act' = [act EXCEPT ![x].step = "write", ![x].id = i, ![x].to = None]
                          /\ owner' = [owner EXCEPT ![i] = f]
                          /\ displaced' = IF Shared(i, f) THEN displaced \cup {f, owner[i]} ELSE displaced
    BY <1>6, <2>1, PlacesAssumption DEF Fresh
  <2>3. owner'[i] = f /\ \A j \in Ids \ {i} : owner'[j] = owner[j]  BY <1>1, <2>2 DEF Shaped
  <2>4. InUse(i) /\ owner[i] # f => Shared(i, f)  BY DEF InUse, Shared
  <2>5. InUse(i) => owner[i] = f \/ {owner[i], f} \subseteq displaced'  BY <2>2, <2>4
  <2>6. displaced \subseteq displaced'  BY <2>2
  <2>7. OwnersKeep  BY <2>3, <2>5, <2>6 DEF OwnersKeep
  <2> QED  BY <1>4, <2>1, <2>2, <2>3, <2>7, Names
<1> QED  BY <1>3, <1>5, <1>6 DEF Match

\* A sidecar is written as its writer said.
LEMMA Puts ==
    ASSUME Typed, SideInv, NEW x \in Actors, Alone(x), NEW p \in Places, NEW i \in Ids, Writes(x, p, i),
           side' = [side EXCEPT ![p] = i], UNCHANGED <<file, owner, displaced>>,
           act'[x].step \notin {"write", "note", "stamp", "bin", "carry", "follow"}
    PROVE  SideInv'
<1>1. OwnersKeep  BY DEF OwnersKeep
<1>2. \A u \in Requests : act'[u].step \in {"bin", "carry", "follow"} => Same(u)
  BY Names DEF Alone, Same
<1>3. ASSUME NEW q \in Places, NEW j \in Ids, Claimed(q, j)' PROVE Claimed(q, j)
  <2>1. CASE q = p /\ j = i  BY <2>1 DEF Claimed
  <2>2. CASE ~(q = p /\ j = i)
    <3>1. side'[q] = side[q] \/ (q = p /\ side'[q] # j)  BY <2>2 DEF Typed, TypeOK
    <3>2. CASE side'[q] = side[q]  BY <1>3, <3>2, Claimless
    <3>3. CASE side'[q] # j
      <4>1. PICK y \in Actors : Writes(y, q, j)'  BY <1>3, <3>3 DEF Claimed
      <4>2. y # x  BY <4>1 DEF Writes
      <4>3. Writes(y, q, j)  BY <4>1, <4>2 DEF Writes, Alone
      <4> QED  BY <4>3 DEF Claimed
    <3> QED  BY <3>1, <3>2, <3>3
  <2> QED  BY <2>1, <2>2
<1> QED  BY <1>1, <1>2, <1>3, Calm

LEMMA WriteSides == ASSUME Typed, SideInv, NEW x \in Actors, Write(x) PROVE SideInv'
<1>1. /\ act \in [Actors -> Acts] /\ act[x].at \in Places /\ act[x].id \in Ids
      /\ Writes(x, act[x].at, act[x].id)
  BY Facts, Names DEF Write, At, Fielded, Indexing, Made, Writes
<1>2. Alone(x) /\ act'[x].step \in {"sweep", "upsert"}  BY <1>1, StepsOn DEF Write, Steps
<1> QED  BY <1>1, <1>2, Puts DEF Write

LEMMA NoteSides == ASSUME Typed, SideInv, NEW u \in Requests, Note(u) PROVE SideInv'
<1>1. /\ act \in [Actors -> Acts] /\ act[u].at \in Places /\ act[u].seen \in Ids /\ u \in Actors
      /\ Writes(u, act[u].at, act[u].seen)
  BY Facts, Names DEF Note, At, Fielded, Made, Writes
<1>2. Alone(u) /\ act'[u].step = "lock"  BY <1>1, StepsOn DEF Note, Steps
<1> QED  BY <1>1, <1>2, Puts DEF Note

LEMMA StampSides == ASSUME Typed, SideInv, NEW u \in Requests, Stamp(u) PROVE SideInv'
<1>1. /\ act \in [Actors -> Acts] /\ act[u].to \in Places /\ act[u].seen \in Ids /\ u \in Actors
      /\ Writes(u, act[u].to, act[u].seen)
  BY Facts, Names DEF Stamp, At, Fielded, Made, Writes, Binning
<1>2. Alone(u) /\ act'[u].step = "unlink"  BY <1>1, StepsOn DEF Stamp, Steps
<1> QED  BY <1>1, <1>2, Puts DEF Stamp

LEMMA UpsertSides == ASSUME Typed, SideInv, NEW x \in Actors, Sweep(x) \/ Upsert(x) PROVE SideInv'
<1>1. act \in [Actors -> Acts] /\ Shaped  BY Facts
<1>2. CASE Sweep(x)
  <2>1. Alone(x) /\ act'[x].step = "upsert"  BY <1>1, <1>2, StepsOn DEF Sweep, Steps
  <2>2. /\ \A q \in Places : side'[q] \in {side[q], None}
        /\ UNCHANGED <<file, owner, displaced>>
    BY <1>1, <1>2 DEF Sweep, Shaped
  <2> QED  BY <2>1, <2>2, Plain
<1>3. CASE Upsert(x)
  <2>1. Alone(x) /\ act'[x].step \in {"idle", "next"}
    BY <1>1, <1>3, StepsDone, IdleFields DEF Upsert, Throw
  <2>2. UNCHANGED <<file, side, owner>> /\ displaced \subseteq displaced'  BY <1>3 DEF Upsert, disk
  <2> QED  BY <2>1, <2>2, Plain
<1> QED  BY <1>2, <1>3

LEMMA ReindexSides ==
    ASSUME Typed, SideInv, NEW x \in Actors, List(x) \/ Wipe(x) \/ NextFile(x) PROVE SideInv'
<1>1. act \in [Actors -> Acts] /\ act[x] \in Acts  BY Facts
<1>2. UNCHANGED <<file, side, owner>> /\ displaced \subseteq displaced'  BY DEF List, Wipe, NextFile, disk
<1>3. CASE List(x)
  <2>1. PICK t \in {"wipe", "idle", "next"}, z \in SUBSET Paths :
          act' = [act EXCEPT ![x].step = t, ![x].todo = z]
    BY <1>3 DEF List, Present
  <2>2. Alone(x) /\ act'[x].step = t  BY <1>1, <2>1 DEF Alone, Acts, Steps
  <2> QED  BY <1>2, <2>2, Plain
<1>4. CASE Wipe(x)
  <2>1. CASE act' = [act EXCEPT ![x] = Idle]
    <3>1. Alone(x) /\ act'[x].step = "idle"  BY <1>1, <2>1, IdleFields, Sets
    <3> QED  BY <1>2, <3>1, Plain
  <2>2. CASE To(x, "next")
    <3>1. Alone(x) /\ act'[x].step = "next"  BY <1>1, <2>2, StepsOn DEF Steps
    <3> QED  BY <1>2, <3>1, Plain
  <2> QED  BY <1>4, <2>1, <2>2 DEF Wipe
<1>5. CASE NextFile(x)
  <2>1. PICK p \in act[x].todo :
          act' = [act EXCEPT ![x] = [Idle EXCEPT !.step = "lock", !.at = p,
                                                !.todo = act[x].todo \ {p}]]
    BY <1>5 DEF NextFile
  <2>2. p \in Paths /\ act[x].todo \subseteq Paths  BY <1>1 DEF Acts
  <2> DEFINE l == [Idle EXCEPT !.step = "lock", !.at = p, !.todo = act[x].todo \ {p}]
  <2>3. l \in Acts /\ l.step = "lock"  BY <2>2, IdleFields, Names DEF Acts, Steps
  <2> HIDE DEF l
  <2>4. Alone(x) /\ act'[x] = l  BY <1>1, <2>1, <2>3, Sets DEF l
  <2> QED  BY <1>2, <2>3, <2>4, Plain
<1> QED  BY <1>3, <1>4, <1>5

\* A request begins on what fits.
LEMMA Begins ==
    ASSUME Typed, SideInv, NEW u \in Requests, NEW l \in Acts, act' = [act EXCEPT ![u] = l],
           l.step \notin {"write", "stamp", "carry", "follow"}, act[u].step = "idle",
           UNCHANGED <<file, side, owner, displaced>>,
           l.step = "bin" /\ l.seen # None =>
               l.at \in Places /\ l.seen \in Ids /\ side[l.at] = l.seen /\ file[l.at] # None,
           l.step = "note" => l.at \in Places /\ l.seen \in Ids /\ side[l.at] = l.seen
    PROVE  SideInv'
<1>1. /\ act \in [Actors -> Acts] /\ u \in Actors /\ Alone(u) /\ act'[u] = l
  BY Facts, Names, Sets
<1>2. OwnersKeep  BY DEF OwnersKeep
<1>3. ASSUME NEW v \in Requests, act'[v].step \in {"bin", "carry", "follow"}
      PROVE  Same(v) \/ (act'[v].step = "bin" /\ BinFits(v)')
  <2>1. CASE v # u  BY <1>1, <2>1, Names DEF Alone, Same
  <2>2. CASE v = u
    <3>1. act'[v].step = "bin"  BY <1>1, <1>3, <2>2
    <3>2. CASE l.seen = None  BY <1>1, <2>2, <3>1, <3>2 DEF BinFits
    <3>3. CASE l.seen # None
      <4>1. Fits(l.seen, file[l.at])  BY <1>1, <2>2, <3>1, <3>3 DEF SideInv, SidesFit, Claimed
      <4> QED  BY <1>1, <2>2, <3>1, <4>1 DEF BinFits, Fits
    <3> QED  BY <3>2, <3>3
  <2> QED  BY <2>1, <2>2
<1>4. ASSUME NEW q \in Places, NEW i \in Ids, Claimed(q, i)' PROVE Claimed(q, i)
  <2>1. CASE side'[q] = i  BY <2>1 DEF Claimed
  <2>2. CASE \E y \in Actors : Writes(y, q, i)'
    <3>1. PICK y \in Actors : Writes(y, q, i)'  BY <2>2
    <3>2. CASE y = u  BY <1>1, <3>1, <3>2 DEF Writes, Claimed
    <3>3. CASE y # u
      <4>1. Writes(y, q, i)  BY <1>1, <3>1, <3>3 DEF Writes, Alone
      <4> QED  BY <4>1 DEF Claimed
    <3> QED  BY <3>2, <3>3
  <2> QED  BY <1>4, <2>1, <2>2 DEF Claimed
<1> QED  BY <1>2, <1>3, <1>4, Calm

LEMMA AskSides ==
    ASSUME Typed, SideInv, NEW u \in Requests,
           AskScan(u) \/ AskEdit(u) \/ AskRecover(u) \/ AskTrash(u) \/ AskRestore(u)
    PROVE  SideInv'
<1>1. act \in [Actors -> Acts] /\ u \in Actors /\ Shaped /\ Owned  BY Names, Facts
<1>2. UNCHANGED <<file, side, owner, displaced>> /\ act[u].step = "idle"
  BY DEF AskScan, AskEdit, AskRecover, AskTrash, AskRestore, Free, At, disk
<1>3. CASE AskScan(u)
  <2>1. PICK t \in {"scan", "list"} : act' = [act EXCEPT ![u] = [Idle EXCEPT !.step = t]]
    BY <1>3 DEF AskScan, Begin
  <2>2. [Idle EXCEPT !.step = t] \in Acts /\ [Idle EXCEPT !.step = t].step = t
    BY IdleFields DEF Acts, Steps
  <2> QED  BY <1>2, <2>1, <2>2, Begins
<1>4. CASE AskEdit(u)
  <2>1. PICK p \in Paths : /\ act' = [act EXCEPT ![u] = [Idle EXCEPT !.step = "note", !.at = p,
                                                                     !.seen = side[p]]]
                           /\ side[p] # None
    BY <1>4 DEF AskEdit, Begin, Asset
  <2> DEFINE l == [Idle EXCEPT !.step = "note", !.at = p, !.seen = side[p]]
  <2>2. l \in Acts /\ l.step = "note" /\ l.at = p /\ l.seen = side[p] /\ side[p] \in Ids
    BY <1>1, <2>1, IdleFields, Names DEF Acts, Steps, Shaped
  <2> HIDE DEF l
  <2> QED  BY <1>2, <2>1, <2>2, Begins, Names DEF l
<1>5. CASE AskRecover(u)
  <2>1. PICK i \in Ids : act' = [act EXCEPT ![u] = [Idle EXCEPT !.step = "forget", !.at = row[i].at,
                                                                !.id = i]]
    BY <1>5 DEF AskRecover, Begin
  <2> DEFINE l == [Idle EXCEPT !.step = "forget", !.at = row[i].at, !.id = i]
  <2>2. l \in Acts /\ l.step = "forget"  BY <1>1, IdleFields, Names DEF Acts, Steps, Shaped, Rows
  <2> HIDE DEF l
  <2> QED  BY <1>2, <2>1, <2>2, Begins DEF l
<1>6. CASE AskTrash(u)
  <2>1. PICK i \in Ids, b \in EmptyBin :
          /\ act' = [act EXCEPT ![u] = [Idle EXCEPT !.step = "bin", !.at = row[i].at, !.to = b,
                                                    !.id = i, !.seen = side[row[i].at]]]
          /\ row[i].at \in Paths /\ file[row[i].at] # None
    BY <1>6 DEF AskTrash, Begin, Asset, Exists
  <2> DEFINE l == [Idle EXCEPT !.step = "bin", !.at = row[i].at, !.to = b, !.id = i,
                               !.seen = side[row[i].at]]
  <2>2. b \in Places  BY Names DEF EmptyBin
  <2>3. l \in Acts /\ l.step = "bin" /\ l.at = row[i].at /\ l.seen = side[row[i].at]
    BY <1>1, <2>1, <2>2, IdleFields, Names DEF Acts, Steps, Shaped
  <2>4. l.at \in Places /\ l.seen \in Ids \cup {None}  BY <1>1, <2>1, <2>3, Names DEF Shaped
  <2> HIDE DEF l
  <2> QED  BY <1>2, <2>1, <2>3, <2>4, Begins DEF l
<1>7. CASE AskRestore(u)
  <2>1. PICK i \in Ids :
          /\ row[i].from # None
          /\ act' = [act EXCEPT ![u] = [Idle EXCEPT !.step = "out", !.at = row[i].at, !.id = i,
                       !.to = IF Exists(row[i].from) THEN Beside[row[i].from] ELSE row[i].from]]
    BY <1>7 DEF AskRestore, Begin, Trashed
  <2> DEFINE l == [Idle EXCEPT !.step = "out", !.at = row[i].at, !.id = i,
                       !.to = IF Exists(row[i].from) THEN Beside[row[i].from] ELSE row[i].from]
  <2>2. row[i].from \in Paths /\ row[i].at \in Places \cup {None}  BY <1>1, <2>1 DEF Shaped, Rows
  <2>3. Beside[row[i].from] \in Paths  BY <2>2, PlacesAssumption
  <2>4. l \in Acts /\ l.step = "out"
    BY <2>2, <2>3, IdleFields, Names DEF Acts, Steps
  <2> HIDE DEF l
  <2> QED  BY <1>2, <2>1, <2>4, Begins DEF l
<1> QED  BY <1>3, <1>4, <1>5, <1>6, <1>7

\* The last steps of the requests, and one that finds its file gone.
LEMMA EndSides ==
    ASSUME Typed, SideInv, NEW u \in Requests,
           \/ Forget(u) \/ Unlink(u) \/ Trash(u) \/ Restore(u)
           \/ act' = [act EXCEPT ![u] = Idle] /\ UNCHANGED <<file, side, owner, displaced>>
    PROVE  SideInv'
<1>1. act \in [Actors -> Acts] /\ act[u] \in Acts /\ u \in Actors /\ Shaped  BY Names, Facts
<1>2. CASE act' = [act EXCEPT ![u] = Idle] /\ UNCHANGED <<file, side, owner, displaced>>
  <2>1. Alone(u) /\ act'[u].step = "idle"  BY <1>1, <1>2, IdleFields, Sets
  <2> QED  BY <1>1, <1>2, <2>1, Plain
<1>3. CASE Trash(u) \/ Restore(u)
  <2>1. UNCHANGED <<file, side, owner>> /\ displaced \subseteq displaced'
    BY <1>3 DEF Trash, Restore, disk
  <2>2. Alone(u) /\ act'[u].step = "idle"  BY <1>1, <1>3, IdleFields, Sets DEF Trash, Restore
  <2> QED  BY <1>1, <2>1, <2>2, Plain
<1>4. CASE Unlink(u)
  <2>1. Alone(u) /\ act'[u].step = "trashed"  BY <1>1, <1>4, StepsOn DEF Unlink, Steps
  <2>2. /\ \A q \in Places : side'[q] \in {side[q], None}
        /\ UNCHANGED <<file, owner, displaced>>
    BY <1>1, <1>4 DEF Unlink, Shaped
  <2> QED  BY <1>1, <2>1, <2>2, Plain
<1>5. CASE Forget(u)
  <2>1. UNCHANGED <<file, side, owner>> /\ displaced \subseteq displaced'  BY <1>5 DEF Forget, disk
  <2>2. Alone(u) /\ act'[u].step \in {"idle", "lock"}
    BY <1>1, <1>5, IdleFields DEF Forget, Alone, Acts, Steps
  <2> QED  BY <1>1, <2>1, <2>2, Plain
<1> QED  BY <1>2, <1>3, <1>4, <1>5

LEMMA CopySides == ASSUME Typed, SideInv, NEW u \in Requests, AskCopy(u) PROVE SideInv'
<1>1. PICK p \in Paths, f \in New :
        /\ file' = [file EXCEPT ![p] = f]
        /\ displaced' = displaced \cup Clash(f, p) \cup Crossed(f, p, Actors \ {u})
        /\ act' = [act EXCEPT ![u] = [Idle EXCEPT !.step = "lock", !.at = p]]
  BY DEF AskCopy, Begin
<1>2. act \in [Actors -> Acts] /\ u \in Actors /\ Shaped /\ f \in Files /\ p \in Places /\ p \notin Bins
  BY Names, Facts DEF New
<1>3. UNCHANGED <<side, owner>> /\ act[u].step = "idle"  BY DEF AskCopy, Free, At
<1>4. Alone(u) /\ act'[u].step = "lock"
  <2> DEFINE l == [Idle EXCEPT !.step = "lock", !.at = p]
  <2>1. l \in Acts /\ l.step = "lock"  BY IdleFields, Names DEF Acts, Steps
  <2> HIDE DEF l
  <2> QED  BY <1>1, <1>2, <2>1, Sets DEF l
<1>5. \A v \in Requests : act[v].step = "carry" => file'[act[v].to] = file[act[v].to]
  <2> SUFFICES ASSUME NEW v \in Requests, act[v].step = "carry" PROVE act[v].to # p
    BY <1>1, <1>2 DEF Shaped
  <2> QED  BY <1>2, Names DEF Typed, Fields, Fielded, Binning
<1>6. \A q \in Places, i \in Ids : Claimed(q, i)' => Claimed(q, i)  BY <1>2, <1>3, <1>4, Claimless
<1>7. \A v \in Requests : act'[v].step \in {"bin", "carry", "follow"} => GoesOrBrings(v, u, p, f)
  BY <1>4, Names DEF Alone, Same, GoesOrBrings
<1>8. /\ file'[p] = f /\ \A q \in Places \ {p} : file'[q] \in {file[q], None}
      /\ displaced \cup Clash(f, p) \cup Crossed(f, p, Actors \ {u}) \subseteq displaced'
  BY <1>1, <1>2 DEF Shaped
<1> QED  BY <1>2, <1>3, <1>5, <1>6, <1>7, <1>8, Arrives

\* The places of the carriers, and of those who restore.
LEMMA BinSides == ASSUME Typed, SideInv, NEW u \in Requests, Bin(u) PROVE SideInv'
<1>1. /\ act \in [Actors -> Acts] /\ act[u] \in Acts /\ act[u].at \in Paths /\ act[u].to \in Bins
      /\ Shaped /\ Owned /\ u \in Actors /\ act[u].step = "bin" /\ Reserved(u)
      /\ act[u].at \in Places /\ act[u].to \in Places /\ act[u].at # act[u].to
      /\ act[u].seen # None => Made(act[u].seen)
  BY Facts, Names DEF Bin, At, Fielded, Binning
<1>2. UNCHANGED <<side, owner>>  BY DEF Bin
<1>3. CASE act' = [act EXCEPT ![u] = Idle] /\ UNCHANGED <<file, displaced>>
  BY <1>2, <1>3, EndSides
<1>4. CASE /\ Exists(act[u].at)
           /\ Rename(act[u].at, act[u].to, Actors \ {u})
           /\ To(u, IF act[u].seen # None THEN "stamp" ELSE "carry")
  <2> DEFINE p == act[u].at
             b == act[u].to
             f == file[act[u].at]
  <2>1. /\ Alone(u) /\ act'[u].at = p /\ act'[u].to = b /\ act'[u].seen = act[u].seen
        /\ act'[u].step = (IF act[u].seen # None THEN "stamp" ELSE "carry")
    BY <1>1, <1>4, StepsOn DEF Steps
  <2>2. /\ f \in Files /\ file'[p] = None /\ file'[b] = f
        /\ \A q \in Places \ {p, b} : file'[q] = file[q]
        /\ displaced \cup Clash(f, b) \subseteq displaced'
    BY <1>1, <1>4, Names DEF Rename, Shaped, Exists
  <2>3. \A v \in Requests \ {u} : v \in Actors /\ act'[v] = act[v] /\ act[v].at # b /\ act[v].to # b
    BY <1>1, <2>1, Names DEF Alone, Reserved, Binning
  <2>4. ASSUME NEW q \in Places, NEW i \in Ids, Claimed(q, i)'
        PROVE  Claimed(q, i) \/ (q = b /\ i = act[u].seen /\ act[u].seen # None)
    <3>1. CASE side'[q] = i  BY <1>2, <3>1 DEF Claimed
    <3>2. CASE \E y \in Actors : Writes(y, q, i)'
      <4>1. PICK y \in Actors : Writes(y, q, i)'  BY <3>2
      <4>2. CASE y = u  BY <2>1, <4>1, <4>2 DEF Writes
      <4>3. CASE y # u
        <5>1. Writes(y, q, i)  BY <2>1, <4>1, <4>3 DEF Writes, Alone
        <5> QED  BY <5>1 DEF Claimed
      <4> QED  BY <4>2, <4>3
    <3> QED  BY <2>4, <3>1, <3>2 DEF Claimed
  <2>5. ASSUME NEW i \in Ids, Claimed(b, i) PROVE {owner[i], f} \subseteq displaced'
    <3>1. side[b] = i
      <4> SUFFICES ASSUME NEW y \in Actors, Writes(y, b, i) PROVE FALSE  BY <2>5 DEF Claimed
      <4>1. y # u  BY <1>1 DEF Writes
      <4> QED  BY <1>1, <4>1 DEF Writes, Reserved, Binning
    <3> QED  BY <1>1, <2>2, <3>1, Names DEF Clash
  <2>6. \A i \in Ids, g \in Files : Fits(i, g) => owner'[i] = g \/ {owner'[i], g} \subseteq displaced'
    BY <1>2, <2>2 DEF Fits
  <2>7. SidesFit'
    <3> SUFFICES ASSUME NEW q \in Places, NEW i \in Ids, Claimed(q, i)', file'[q] # None
                 PROVE  owner'[i] = file'[q] \/ {owner'[i], file'[q]} \subseteq displaced'
      BY DEF SidesFit, Fits
    <3>1. CASE q = b /\ Claimed(b, i)  BY <1>2, <2>2, <2>5, <3>1
    <3>2. CASE q = b /\ i = act[u].seen
      <4>1. Fits(i, f)  BY <1>1, <2>2, <3>2, Names DEF SideInv, BinFits
      <4> QED  BY <2>2, <2>6, <3>2, <4>1
    <3>3. CASE q # b
      <4>1. q # p /\ Claimed(q, i)  BY <2>2, <2>4, <3>3
      <4>2. file'[q] = file[q] /\ file[q] \in Files  BY <1>1, <2>2, <3>3, <4>1 DEF Shaped
      <4>3. Fits(i, file[q])  BY <4>1, <4>2, Names DEF SideInv, SidesFit
      <4> QED  BY <2>6, <4>2, <4>3
    <3> QED  BY <2>4, <3>1, <3>2, <3>3
  <2>8. ASSUME NEW v \in Requests, act'[v].step = "bin" PROVE BinFits(v)'
    <3>1. v # u /\ act'[v] = act[v] /\ act[v].step = "bin" /\ act[v].at # b  BY <2>1, <2>3, <2>8
    <3>2. act[v].at \in Places  BY <2>3, <3>1, Facts, Names DEF Fielded, Binning
    <3>3. file'[act[v].at] # None => file'[act[v].at] = file[act[v].at]  BY <2>2, <3>1, <3>2
    <3>4. BinFits(v)  BY <3>1 DEF SideInv
    <3> QED  BY <1>2, <2>2, <3>1, <3>3, <3>4 DEF BinFits, Fits
  <2>9. ASSUME NEW v \in Requests, act'[v].step = "carry" PROVE CarryFits(v)'
    <3>1. CASE v = u
      <4>1. ASSUME NEW i \in Ids, Claimed(p, i)' PROVE owner'[i] = f \/ {owner'[i], f} \subseteq displaced'
        <5>1. Claimed(p, i)  BY <1>1, <2>1, <2>4, <4>1
        <5>2. Fits(i, f)  BY <1>1, <2>2, <5>1, Names DEF SideInv, SidesFit
        <5> QED  BY <2>2, <2>6, <5>2
      <4> QED  BY <2>1, <2>2, <3>1, <4>1 DEF CarryFits, Fits
    <3>2. CASE v # u
      <4> DEFINE a == act[v].at
                 g == file[act[v].to]
      <4>1. /\ act[v].step = "carry" /\ act'[v] = act[v] /\ a \in Places /\ a # b
            /\ act[v].to \in Places /\ act[v].to # b /\ act[v].to # p /\ g \in Files
        BY <1>1, <2>3, <2>9, <3>2, Facts, Names DEF Fielded, Binning, Reserved, Shaped
      <4>2. CarryFits(v) /\ file'[act[v].to] = g  BY <2>2, <4>1 DEF SideInv
      <4>3. ASSUME NEW i \in Ids, Claimed(a, i)' PROVE owner'[i] = g \/ {owner'[i], g} \subseteq displaced'
        <5>1. Claimed(a, i)  BY <2>4, <4>1, <4>3
        <5>2. Fits(i, g)  BY <4>2, <5>1 DEF CarryFits
        <5> QED  BY <2>6, <4>1, <5>2
      <4>4. file'[a] # None => {file'[a], g} \subseteq displaced'
        <5>1. file'[a] # None => file'[a] = file[a]  BY <2>2, <4>1
        <5> QED  BY <2>2, <4>2, <5>1 DEF CarryFits
      <4> QED  BY <4>1, <4>2, <4>3, <4>4 DEF CarryFits, Fits
    <3> QED  BY <3>1, <3>2
  <2>10. ASSUME NEW v \in Requests, act'[v].step = "follow"
         PROVE  /\ v # u /\ act'[v] = act[v] /\ act[v].step = "follow"
                /\ act[v].at \in Places /\ act[v].at # b /\ act[v].to \in Paths /\ act[v].to \in Places
                /\ act[v].to # b
                /\ file'[act[v].at] \in {file[act[v].at], None}
                /\ file'[act[v].to] \in {file[act[v].to], None}
                /\ \A i \in Ids : Claimed(act[v].at, i)' => Claimed(act[v].at, i)
    <3>1. v # u /\ act'[v] = act[v] /\ act[v].step = "follow" /\ v \in Actors  BY <2>1, <2>3, <2>10
    <3>2. act[v].at \in Places /\ act[v].at # b /\ act[v].to \in Paths /\ act[v].to \in Places
          /\ act[v].to # b
      BY <2>3, <3>1, Facts, Names DEF Fielded
    <3>3. \A i \in Ids : Claimed(act[v].at, i)' => Claimed(act[v].at, i)
      <4> SUFFICES ASSUME NEW i \in Ids, Claimed(act[v].at, i)' PROVE Claimed(act[v].at, i)  OBVIOUS
      <4> DEFINE a == act[v].at
      <4>1. Claimed(a, i)  BY <2>4, <3>1, <3>2
      <4> QED  BY <4>1
    <3> QED  BY <2>2, <3>1, <3>2, <3>3
  <2>11. ASSUME NEW v \in Requests, act'[v].step = "follow", act'[v].at \in Bins PROVE FollowFits(v)'
    <3> DEFINE a == act[v].at
               q == act[v].to
    <3>1. FollowFits(v) /\ act'[v] = act[v]  BY <2>10, <2>11 DEF SideInv
    <3>2. ASSUME NEW i \in Ids, Claimed(a, i)', file'[q] # None
          PROVE  owner'[i] = file'[q] \/ {owner'[i], file'[q]} \subseteq displaced'
      <4>1. file'[q] = file[q] /\ file[q] \in Files  BY <1>1, <2>10, <2>11, <3>2 DEF Shaped
      <4>2. Claimed(a, i)  BY <2>10, <2>11, <3>2
      <4>3. Fits(i, file[q])  BY <3>1, <3>2, <4>1, <4>2 DEF FollowFits
      <4> QED  BY <2>6, <4>1, <4>3
    <3>3. ASSUME NEW i \in Ids, NEW w \in Requests, Claimed(a, i)',
                 act'[w].step = "carry", act'[w].at = q
          PROVE  LET g == file'[act'[w].to] IN owner'[i] = g \/ {owner'[i], g} \subseteq displaced'
      <4>1. Claimed(a, i)  BY <2>10, <2>11, <3>3
      <4>2. CASE w = u
        <5>1. q = p /\ file'[act'[w].to] = f  BY <2>1, <2>2, <3>3, <4>2
        <5>2. Fits(i, f)  BY <2>2, <3>1, <4>1, <5>1, Names DEF FollowFits
        <5> QED  BY <2>2, <2>6, <5>1, <5>2
      <4>3. CASE w # u
        <5>1. act'[w] = act[w] /\ act[w].step = "carry" /\ w \in Actors /\ act[w].to # b
          BY <2>3, <3>3, <4>3
        <5>2. act[w].to \in Places /\ act[w].to # p /\ file[act[w].to] \in Files
          BY <1>1, <5>1, Facts, Names DEF Fielded, Binning, Reserved, Shaped
        <5>3. Fits(i, file[act[w].to])  BY <3>1, <3>3, <4>1, <5>1 DEF FollowFits
        <5> QED  BY <2>2, <2>6, <5>1, <5>2, <5>3
      <4> QED  BY <4>2, <4>3
    <3> QED  BY <3>1, <3>2, <3>3 DEF FollowFits, Fits
  <2>12. ASSUME NEW v \in Requests, act'[v].step = "follow", act'[v].at \in Paths PROVE FollowAstray(v)'
    <3> DEFINE a == act[v].at
               q == act[v].to
    <3>1. FollowAstray(v) /\ act'[v] = act[v]  BY <2>10, <2>12 DEF SideInv
    <3>2. \A i \in Ids : Claimed(a, i)' => owner'[i] \in displaced'
      BY <1>2, <2>2, <2>10, <2>12, <3>1 DEF FollowAstray
    <3>3. {file'[a], file'[q]} \subseteq displaced' \cup {None}
      BY <2>2, <2>10, <2>12, <3>1 DEF FollowAstray
    <3>4. ASSUME NEW w \in Requests, act'[w].step = "carry", act'[w].at = q
          PROVE  file'[act'[w].to] \in displaced'
      <4>1. CASE w = u
        <5>1. q = p /\ file'[act'[w].to] = f  BY <2>1, <2>2, <3>4, <4>1
        <5> QED  BY <2>2, <3>1, <5>1, Names DEF FollowAstray
      <4>2. CASE w # u
        <5>1. act'[w] = act[w] /\ act[w].step = "carry" /\ w \in Actors /\ act[w].to # b
          BY <2>3, <3>4, <4>2
        <5>2. act[w].to \in Places /\ act[w].to # p
          BY <1>1, <5>1, Facts, Names DEF Fielded, Binning
        <5> QED  BY <2>2, <3>1, <3>4, <5>1, <5>2 DEF FollowAstray
      <4> QED  BY <4>1, <4>2
    <3>5. ASSUME NEW i \in Ids, NEW w \in Requests, act'[w].step = "follow", act'[w].to = a,
                 Claimed(act[w].at, i)'
          PROVE  owner'[i] \in displaced'
      <4>1. act'[w] = act[w] /\ act[w].step = "follow" /\ Claimed(act[w].at, i)  BY <2>10, <3>5
      <4> QED  BY <1>2, <2>2, <3>1, <3>5, <4>1 DEF FollowAstray
    <3> QED  BY <3>1, <3>2, <3>3, <3>4, <3>5 DEF FollowAstray
  <2> QED  BY <2>7, <2>8, <2>9, <2>11, <2>12 DEF SideInv
<1> QED  BY <1>3, <1>4 DEF Bin

LEMMA OutSides == ASSUME Typed, SideInv, NEW u \in Requests, Out(u) PROVE SideInv'
<1>1. /\ act \in [Actors -> Acts] /\ act[u] \in Acts /\ act[u].at \in Places /\ act[u].to \in Paths
      /\ Shaped /\ u \in Actors /\ act[u].step = "out" /\ act[u].to \in Places /\ act[u].to \notin Bins
  BY Facts, Names DEF Out, At, Fielded
<1>2. UNCHANGED <<side, owner>>  BY DEF Out
<1>3. CASE act' = [act EXCEPT ![u] = Idle] /\ UNCHANGED <<file, displaced>>
  BY <1>2, <1>3, EndSides
<1>4. CASE /\ Exists(act[u].at)
           /\ Rename(act[u].at, act[u].to, Actors \ {u})
           /\ To(u, "follow")
  <2>0. SUFFICES ASSUME NEW p \in Paths, p = act[u].to, NEW f \in Files, f = file[act[u].at]
                 PROVE  SideInv'
    BY <1>1, <1>4 DEF Shaped, Exists
  <2>1. Alone(u) /\ act'[u].at = act[u].at /\ act'[u].to = p /\ act'[u].step = "follow"
    BY <1>1, <1>4, <2>0, StepsOn DEF Steps
  <2>2. /\ f \in Files /\ file'[p] = f
        /\ \A q \in Places \ {p} : file'[q] \in {file[q], None}
        /\ \A q \in Places \ {p, act[u].at} : file'[q] = file[q]
        /\ displaced \cup Clash(f, p) \cup Crossed(f, p, Actors \ {u}) \subseteq displaced'
        /\ act[u].at \in Paths => f \in displaced'
    BY <1>1, <1>4, <2>0 DEF Rename, Shaped, Exists
  <2>3. \A v \in Requests : act[v].step = "carry" => file'[act[v].to] = file[act[v].to]
    <3> SUFFICES ASSUME NEW v \in Requests, act[v].step = "carry"
                 PROVE  act[v].to \in Places \ {p, act[u].at}
      BY <2>0, <2>2
    <3>1. act[v].to \in Bins /\ v # u /\ Reserved(v)
      BY <1>1, Facts, Names DEF Fielded, Binning
    <3> QED  BY <1>1, <2>0, <3>1, Names DEF Reserved, Binning
  <2>4. \A q \in Places, i \in Ids : Claimed(q, i)' => Claimed(q, i)  BY <1>1, <1>2, <2>1, Claimless
  <2>5. \A v \in Requests : act'[v].step \in {"bin", "carry", "follow"} => GoesOrBrings(v, u, p, f)
    BY <1>1, <2>0, <2>1, <2>2, Names DEF Alone, Same, GoesOrBrings
  <2>6. /\ p \in Paths /\ f \in Files
        /\ u \in Actors => act[u].step \notin {"bin", "carry", "follow", "write", "note", "stamp"}
        /\ owner' = owner
        /\ \A q \in Places, i \in Ids : Claimed(q, i)' =>
              Claimed(q, i) \/ (q = p /\ Untouched(p, Actors) /\ Fits(i, f))
    BY <1>1, <1>2, <2>0, <2>2, <2>4
  <2> QED  BY <2>2, <2>3, <2>5, <2>6, Arrives
<1> QED  BY <1>3, <1>4 DEF Out

\* A sidecar moves from the place of an operation to the other.
LEMMA SideComes ==
    ASSUME Typed, SideInv, NEW u \in Requests, Alone(u), act'[u].step \in {"trashed", "restored"},
           NEW a \in Places, NEW b \in Places, side[a] # None, UNCHANGED <<file, owner, displaced>>,
           side' = [side EXCEPT ![a] = None, ![b] = side[a]], Admitted(b, side[a])
    PROVE  SideInv'
<1>1. Shaped /\ u \in Actors  BY Names, Facts
<1>2. ASSUME NEW q \in Places, NEW i \in Ids, Claimed(q, i)' PROVE Claimed(q, i) \/ Admitted(q, i)
  <2>1. CASE q = b /\ i = side[a]  BY <2>1
  <2>2. CASE ~(q = b /\ i = side[a])
    <3>1. CASE side'[q] = i
      <4>1. side[q] = i  BY <1>1, <2>2, <3>1, Names DEF Shaped
      <4> QED  BY <4>1 DEF Claimed
    <3>2. CASE side'[q] # i
      <4>1. PICK y \in Actors : Writes(y, q, i)'  BY <1>2, <3>2 DEF Claimed
      <4>2. y # u  BY <4>1 DEF Writes
      <4>3. Writes(y, q, i)  BY <4>1, <4>2 DEF Writes, Alone
      <4> QED  BY <4>3 DEF Claimed
    <3> QED  BY <3>1, <3>2
  <2> QED  BY <2>1, <2>2
<1>3. OwnersKeep  BY DEF OwnersKeep
<1>4. \A v \in Requests : act'[v].step \in {"bin", "carry", "follow"} => Same(v)
  BY Names DEF Alone, Same
<1> QED  BY <1>2, <1>3, <1>4, Calm

LEMMA CarrySides == ASSUME Typed, SideInv, NEW u \in Requests, Carry(u) PROVE SideInv'
<1>1. /\ act \in [Actors -> Acts] /\ act[u].at \in Paths /\ act[u].to \in Bins /\ Shaped /\ u \in Actors
      /\ act[u].step = "carry" /\ act[u].at \in Places /\ act[u].to \in Places /\ Reserved(u)
      /\ act[u].at # act[u].to
  BY Facts, Names DEF Carry, At, Fielded, Binning
<1> DEFINE a == act[u].at
           b == act[u].to
<1>2. Alone(u) /\ act'[u].step = "trashed" /\ UNCHANGED <<file, owner, displaced>>
  BY <1>1, StepsOn DEF Carry, Steps
<1>3. CASE side[a] = None
  <2>1. side' = side  BY <1>3 DEF Carry
  <2> QED  BY <1>1, <1>2, <2>1, Plain
<1>4. CASE side[a] # None
  <2>1. side' = [side EXCEPT ![a] = None, ![b] = side[a]] /\ side[a] \in Ids
    BY <1>1, <1>4 DEF Carry, Shaped
  <2>2. Fits(side[a], file[b])  BY <1>1, <2>1 DEF SideInv, CarryFits, Claimed
  <2>3. ASSUME NEW v \in Requests, act'[v].step \in {"carry", "follow"} PROVE act'[v].at # b
    <3>1. v \in Actors \ {u} /\ act'[v] = act[v]  BY <1>2, <2>3, Names DEF Alone
    <3> QED  BY <1>1, <3>1 DEF Reserved, Binning
  <2>4. Admitted(b, side[a])  BY <1>2, <2>2, <2>3 DEF Admitted, Fits
  <2> QED  BY <1>1, <1>2, <1>4, <2>1, <2>4, SideComes
<1> QED  BY <1>3, <1>4

LEMMA FollowSides == ASSUME Typed, SideInv, NEW u \in Requests, Follow(u) PROVE SideInv'
<1>1. /\ act \in [Actors -> Acts] /\ act[u].at \in Places /\ act[u].to \in Paths /\ Shaped /\ u \in Actors
      /\ act[u].step = "follow" /\ act[u].to \in Places
  BY Facts, Names DEF Follow, At, Fielded
<1> DEFINE a == act[u].at
           p == act[u].to
           i == side[a]
<1>2. Alone(u) /\ act'[u].step = "restored" /\ UNCHANGED <<file, owner, displaced>>
  BY <1>1, StepsOn DEF Follow, Steps
<1>3. CASE side[a] = None
  <2>1. side' = side  BY <1>3 DEF Follow
  <2> QED  BY <1>1, <1>2, <2>1, Plain
<1>4. CASE side[a] # None
  <2>1. side' = [side EXCEPT ![a] = None, ![p] = side[a]] /\ i \in Ids /\ Claimed(a, i)
    BY <1>1, <1>4 DEF Follow, Shaped, Claimed
  <2>2. /\ file[p] # None => Fits(i, file[p])
        /\ \A w \in Requests : act[w].step = "carry" /\ act[w].at = p => Fits(i, file[act[w].to])
    <3>1. CASE a \in Bins
      <4>1. FollowFits(u)  BY <1>1, <3>1 DEF SideInv
      <4> QED  BY <2>1, <4>1 DEF FollowFits
    <3>2. CASE a \in Paths
      <4>1. FollowAstray(u)  BY <1>1, <3>2 DEF SideInv
      <4> QED  BY <2>1, <4>1 DEF FollowAstray, Fits
    <3> QED  BY <1>1, <3>1, <3>2 DEF Places
  <2>3. ASSUME NEW v \in Requests, act'[v].step = "follow", act'[v].at = p PROVE owner[i] \in displaced
    <3>1. act[v].step = "follow" /\ act[v].at = p  BY <1>2, <2>3, Names DEF Alone
    <3>2. FollowAstray(v)  BY <1>1, <3>1 DEF SideInv
    <3> QED  BY <1>1, <2>1, <3>1, <3>2 DEF FollowAstray
  <2>4. \A w \in Requests : act'[w].step = "carry" => act'[w] = act[w]  BY <1>2, Names DEF Alone
  <2>5. Admitted(p, i)  BY <1>1, <1>2, <2>2, <2>3, <2>4 DEF Admitted, Fits
  <2> QED  BY <1>1, <1>2, <1>4, <2>1, <2>5, SideComes
<1> QED  BY <1>3, <1>4
LEMMA WorkSides ==
    ASSUME Typed, SideInv, Import \/ Purge \/ PurgeFile \/ PurgeRow PROVE SideInv'
<1> DEFINE x == "worker"
<1>1. /\ act \in [Actors -> Acts] /\ act[x] \in Acts /\ x \in Actors /\ Shaped /\ Fielded(act[x])
  BY Names, Facts
<1>2. CASE Import
  <2>1. PICK p \in due : act' = [act EXCEPT ![x] = [Idle EXCEPT !.step = "lock", !.at = p]]
    BY <1>2 DEF Import
  <2> DEFINE l == [Idle EXCEPT !.step = "lock", !.at = p]
  <2>2. p \in Paths  BY <1>1 DEF Shaped
  <2>3. l \in Acts /\ l.step = "lock"  BY <2>2, IdleFields, Names DEF Acts, Steps
  <2> HIDE DEF l
  <2>4. Alone(x) /\ act'[x] = l  BY <1>1, <2>1, <2>3, Sets DEF l
  <2> QED  BY <1>1, <1>2, <2>3, <2>4, Plain DEF Import, disk
<1>3. CASE Purge
  <2>1. PICK list \in SUBSET Entries :
          act' = [act EXCEPT ![x] = [Idle EXCEPT !.step = "purge", !.bins = list]]
    <3>1. PICK old \in SUBSET {i \in Ids : Trashed(i)} :
            act' = [act EXCEPT ![x] = [Idle EXCEPT !.step = "purge",
                                                   !.bins = {<<row[i].at, i>> : i \in old}]]
      BY <1>3 DEF Purge
    <3>2. {<<row[i].at, i>> : i \in old} \in SUBSET Entries
      BY <1>1, Facts DEF Entries, Trashed, Owned, Shaped, Rows
    <3> QED  BY <3>1, <3>2
  <2> DEFINE l == [Idle EXCEPT !.step = "purge", !.bins = list]
  <2>2. l \in Acts /\ l.step = "purge"  BY IdleFields DEF Acts, Steps
  <2> HIDE DEF l
  <2>3. Alone(x) /\ act'[x] = l  BY <1>1, <2>1, <2>2, Sets DEF l
  <2> QED  BY <1>1, <1>3, <2>2, <2>3, Plain DEF Purge, disk
<1>4. CASE PurgeFile
  <2>1. PICK e \in act["worker"].bins :
        \/ /\ e[1] \in Bins
           /\ file' = [file EXCEPT ![e[1]] = None]
           /\ side' = [side EXCEPT ![e[1]] = None]
           /\ displaced \subseteq displaced'
           /\ act' = [act EXCEPT !["worker"] = [@ EXCEPT !.step = "delete", !.at = e[1], !.id = e[2],
                                                         !.bins = act["worker"].bins \ {e}]]
        \/ /\ act' = [act EXCEPT !["worker"] = Idle]
           /\ UNCHANGED <<file, side, displaced>>
    BY <1>4 DEF PurgeFile, disk
  <2>2. owner' = owner  BY <1>4 DEF PurgeFile
  <2>3. CASE /\ e[1] \in Bins
             /\ file' = [file EXCEPT ![e[1]] = None]
             /\ side' = [side EXCEPT ![e[1]] = None]
             /\ displaced \subseteq displaced'
             /\ act' = [act EXCEPT !["worker"] = [@ EXCEPT !.step = "delete", !.at = e[1], !.id = e[2],
                                                           !.bins = act["worker"].bins \ {e}]]
    <3>1. e[2] \in Ids  BY <1>1 DEF Acts, Entries
    <3> DEFINE rest == act[x].bins \ {e}
               l == [act[x] EXCEPT !.step = "delete", !.at = e[1], !.id = e[2], !.bins = rest]
    <3>2. act' = [act EXCEPT ![x] = l]  BY <2>3
    <3>3. rest \in SUBSET Entries  BY <1>1 DEF Acts
    <3> HIDE DEF rest
    <3>4. l \in Acts /\ l.step = "delete"  BY <1>1, <2>3, <3>1, <3>3, Names DEF Acts, Steps
    <3> HIDE DEF l
    <3>5. Alone(x) /\ act'[x] = l  BY <1>1, <3>2, <3>4, Sets
    <3>6. \A q \in Places : side'[q] \in {side[q], None} /\ file'[q] \in {file[q], None}
      BY <1>1, <2>3 DEF Shaped
    <3>7. ASSUME NEW u \in Requests, act[u].step = "carry" PROVE file'[act[u].to] = file[act[u].to]
      <4>1. act[u].to # e[1] /\ act[u].to \in Places
        BY <2>1, <3>7, Names DEF Typed, Reserved, Fields, Fielded, Binning
      <4> QED  BY <1>1, <2>3, <4>1 DEF Shaped
    <3> QED  BY <1>1, <2>2, <2>3, <3>4, <3>5, <3>6, <3>7, Plain
  <2>4. CASE act' = [act EXCEPT !["worker"] = Idle] /\ UNCHANGED <<file, side, displaced>>
    <3>1. Alone(x) /\ act'[x].step = "idle"  BY <1>1, <2>4, IdleFields, Sets
    <3> QED  BY <1>1, <2>2, <2>4, <3>1, Plain
  <2> QED  BY <2>1, <2>3, <2>4
<1>5. CASE PurgeRow
  <2>1. Alone(x) /\ act'[x].step \in {"idle", "purge"}
    <3>1. CASE act[x].bins = {}
      <4>1. act' = [act EXCEPT ![x] = Idle]  BY <1>1, <1>5, <3>1 DEF PurgeRow
      <4> QED  BY <1>1, <4>1, IdleFields, Sets
    <3>2. CASE act[x].bins # {}
      <4>1. act' = [act EXCEPT ![x] = [act[x] EXCEPT !.step = "purge", !.at = None, !.id = None]]
        BY <1>1, <1>5, <3>2 DEF PurgeRow
      <4> QED  BY <1>1, <4>1 DEF Alone, Acts, Steps
    <3> QED  BY <3>1, <3>2
  <2>2. UNCHANGED <<file, side, owner>> /\ displaced \subseteq displaced'  BY <1>5 DEF PurgeRow, disk
  <2> QED  BY <1>1, <2>1, <2>2, Plain
<1> QED  BY <1>2, <1>3, <1>4, <1>5

LEMMA ProcessSides == ASSUME Typed, SideInv, Ready \/ Boot \/ Crash PROVE SideInv'
<1> DEFINE x == "starter"
<1>1. act \in [Actors -> Acts] /\ x \in Actors  BY Names, Facts
<1>2. UNCHANGED <<file, side, owner>> /\ displaced \subseteq displaced'  BY DEF Ready, Boot, Crash, disk
<1>3. CASE Ready
  <2>1. Alone(x) /\ act'[x].step = "idle"  BY <1>1, <1>3, IdleFields, Sets DEF Ready
  <2> QED  BY <1>1, <1>2, <2>1, Plain
<1>4. CASE Boot
  <2> DEFINE l == [Idle EXCEPT !.step = "list"]
  <2>1. l \in Acts /\ l.step = "list"  BY IdleFields DEF Acts, Steps
  <2> HIDE DEF l
  <2>2. Alone(x) /\ act'[x] = l  BY <1>1, <1>4, <2>1, Sets DEF Boot, l
  <2> QED  BY <1>1, <1>2, <2>1, <2>2, Plain
<1>5. CASE Crash
  <2>1. \A y \in Actors : act'[y].step = "idle"  BY <1>5, IdleFields DEF Crash
  <2>2. OwnersKeep  BY <1>2 DEF OwnersKeep
  <2>3. \A q \in Places, i \in Ids : Claimed(q, i)' => Claimed(q, i)  BY <1>2, <2>1 DEF Claimed, Writes
  <2>4. \A u \in Requests : act'[u].step \notin {"bin", "carry", "follow"}  BY <2>1, Names
  <2> QED  BY <1>2, <2>2, <2>3, <2>4, Calm
<1> QED  BY <1>3, <1>4, <1>5

\* The user puts nothing under an operation.
LEMMA NobodyCrossed ==
    ASSUME NEW p, NEW f, NEW by, Untouched(p, by) PROVE Crossed(f, p, by) = {}
  BY DEF Crossed, Untouched

LEMMA UserSides == ASSUME Typed, SideInv, Add \/ Move \/ Remove \/ Strip \/ UNCHANGED vars PROVE SideInv'
<1>1. Shaped /\ Owned /\ \A q \in Paths : q \in Places /\ q \notin Bins
  BY Names, Facts
<1>2. UNCHANGED <<owner, act>> /\ displaced \subseteq displaced'  BY DEF Add, Move, Remove, Strip, vars
<1>3. OwnersKeep /\ (\A u \in Requests : Same(u)) /\ None \notin Actors
  BY <1>2, PlacesAssumption DEF OwnersKeep, Same
<1>4. \A u \in Requests : act[u].step = "carry" => act[u].to \in Bins
  BY Names DEF Typed, Fields, Fielded, Binning
<1>5. ASSUME NEW q \in Places, NEW i \in Ids, Claimed(q, i)' PROVE side'[q] = i \/ Claimed(q, i)
  <2>1. CASE side'[q] = i  BY <2>1
  <2>2. CASE \E y \in Actors : Writes(y, q, i)'  BY <1>2, <2>2 DEF Writes, Claimed
  <2> QED  BY <1>5, <2>1, <2>2 DEF Claimed
<1>6. CASE Add \/ Move
  <2>1. PICK p \in Paths, f \in Files :
        /\ file[p] = None /\ side[p] = None /\ Untouched(p, Actors) /\ file'[p] = f
        /\ \A q \in Places \ {p} : file'[q] \in {file[q], None}
        /\ \A q \in Bins : file'[q] = file[q]
        /\ \A q \in Places : side'[q] \in {side[q], None} \/ (q = p /\ Fits(side'[q], f))
    <3>1. CASE Add  BY <1>1, <3>1 DEF Add, New, Shaped
    <3>2. CASE Move
      <4>1. PICK o \in Paths, p \in Paths :
            /\ file[o] # None /\ file[p] = None /\ side[p] = None /\ Untouched(p, Actors)
            /\ file' = [file EXCEPT ![o] = None, ![p] = file[o]]
            /\ side' \in {side, [side EXCEPT ![o] = None, ![p] = side[o]]}
        BY <3>2 DEF Move, Exists
      <4>2. file[o] \in Files /\ o \in Places /\ p \in Places /\ o # p  BY <1>1, <4>1 DEF Shaped
      <4>3. \A q \in Places : side'[q] \in {side[q], None} \/ (q = p /\ side'[q] = side[o] /\ side[o] \in Ids)
        BY <1>1, <4>1, <4>2 DEF Shaped
      <4>4. side[o] \in Ids => Fits(side[o], file[o])
        BY <4>1, <4>2 DEF SideInv, SidesFit, Claimed
      <4>5. /\ \A q \in Places \ {p} : file'[q] \in {file[q], None}
            /\ \A q \in Bins : file'[q] = file[q]
            /\ file'[p] = file[o]
        BY <1>1, <4>1, <4>2, Names DEF Shaped
      <4>6. \A q \in Places : side'[q] \in {side[q], None} \/ (q = p /\ Fits(side'[q], file[o]))
        BY <4>3, <4>4
      <4> QED  BY <4>1, <4>2, <4>5, <4>6
    <3> QED  BY <1>6, <3>1, <3>2
  <2>2. displaced \cup Clash(f, p) \cup Crossed(f, p, Actors \ {None}) \subseteq displaced'
    <3>1. Crossed(f, p, Actors \ {None}) = {}
      <4>1. Untouched(p, Actors \ {None})  BY <2>1 DEF Untouched
      <4> QED  BY <4>1, NobodyCrossed
    <3>2. Clash(f, p) = {}  BY <2>1 DEF Clash, Exists
    <3> QED  BY <1>2, <3>1, <3>2
  <2>3. \A q \in Places, i \in Ids : Claimed(q, i)' =>
           Claimed(q, i) \/ (q = p /\ Untouched(p, Actors) /\ Fits(i, f))
    BY <1>5, <2>1, Names DEF Claimed
  <2>4. \A u \in Requests : act[u].step = "carry" => file'[act[u].to] = file[act[u].to]
    BY <1>4, <2>1
  <2>5. None \in Actors => act[None].step \notin {"bin", "carry", "follow", "write", "note", "stamp"}
    BY <1>3
  <2>6. \A u \in Requests : act'[u].step \in {"bin", "carry", "follow"} => GoesOrBrings(u, None, p, f)
    BY <1>3 DEF GoesOrBrings
  <2>7. /\ file'[p] = f /\ \A q \in Places \ {p} : file'[q] \in {file[q], None}
        /\ owner' = owner
    BY <1>2, <2>1
  <2> QED  BY <2>2, <2>3, <2>4, <2>5, <2>6, <2>7, Arrives
<1>7. CASE Remove \/ Strip \/ UNCHANGED vars
  <2>1. /\ \A q \in Places : side'[q] \in {side[q], None} /\ file'[q] \in {file[q], None}
        /\ \A q \in Bins : file'[q] = file[q]
    <3>1. CASE Remove  BY <1>1, <3>1 DEF Remove, Shaped
    <3>2. CASE Strip  BY <1>1, <3>2 DEF Strip, Shaped
    <3>3. CASE UNCHANGED vars  BY <3>3 DEF vars, disk
    <3> QED  BY <1>7, <3>1, <3>2, <3>3
  <2>2. \A q \in Places, i \in Ids : Claimed(q, i)' => Claimed(q, i)
    BY <1>5, <2>1, Names DEF Claimed
  <2> QED  BY <1>3, <1>4, <2>1, <2>2, Calm
<1> QED  BY <1>6, <1>7

LEMMA StepSides == ASSUME Typed, SideInv, [Next]_vars PROVE SideInv'
<1>1. ASSUME NEW x \in Actors, IndexStep(x) \/ List(x) \/ Wipe(x) \/ NextFile(x) PROVE SideInv'
  BY <1>1, ReadSides, MatchSides, WriteSides, UpsertSides, ReindexSides DEF IndexStep
<1>2. ASSUME NEW u \in Requests, Request(u) PROVE SideInv'
  BY <1>2, AskSides, CopySides, NoteSides, EndSides, BinSides, StampSides, CarrySides, OutSides,
     FollowSides DEF Request
<1> QED  BY <1>1, <1>2, WorkSides, ProcessSides, UserSides DEF Next

LEMMA InitSides == Init => SideInv
<1> SUFFICES ASSUME Init PROVE SideInv  OBVIOUS
<1>1. /\ \A x \in Actors : act[x].step = "idle"
      /\ \A p \in Places : side[p] = None /\ file[p] = None
  BY IdleFields DEF Init, InitWith
<1> QED  BY <1>1, Names DEF SideInv, SidesFit

\* The sidecar beside a file is its own: no indexer, edit, import or move through the Trash,
\* in whatever order their steps fall, leaves a file with the asset id of another, unless one
\* of the two came to a place under the hands of somebody else.
THEOREM SidecarIsItsFiles == Spec => []IdFollowsFile
<1>1. Init => Typed /\ SideInv  BY InitTyped, InitSides
<1>2. Typed /\ SideInv /\ [Next]_vars => Typed' /\ SideInv'  BY StepTyped, StepSides
<1>3. Typed /\ SideInv => IdFollowsFile
  <2> SUFFICES ASSUME Typed, SideInv, NEW p \in Places, Exists(p), side[p] # None
               PROVE  owner[side[p]] = file[p] \/ {owner[side[p]], file[p]} \subseteq displaced
    BY DEF IdFollowsFile
  <2>1. side[p] \in Ids  BY Names, Facts DEF Shaped
  <2>2. Fits(side[p], file[p])  BY <2>1 DEF SideInv, SidesFit, Claimed, Exists
  <2> QED  BY <2>2 DEF Fits
<1> QED  BY <1>1, <1>2, <1>3, PTL DEF Spec
===============================================================================
