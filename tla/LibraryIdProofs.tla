-------------------------- MODULE LibraryIdProofs ---------------------------
(***************************************************************************)
(* The ids and the index of the Library, for any places, files, ids and    *)
(* requests: every id that may come back to a file is the one that lies    *)
(* beside it, or the only one anybody would find for it; and every file    *)
(* has its row, or somebody who will see to it.                            *)
(***************************************************************************)
EXTENDS LibraryProofs, FiniteSetTheorems

\* A file of which OneId says something, and that does not bring its id with it.
Clean(f) == f \in Files \ displaced /\ Embedded[f] = None
Mine(i) == Clean(owner[i])

\* An indexer has an id for its path.
Naming(x) == act[x].step \in {"write", "sweep", "upsert"}
\* An id an actor will write, or that a row or a sidecar has.
Holds(x, i) ==
    \/ Naming(x) /\ act[x].id = i
    \/ act[x].step \in {"note", "bin", "stamp"} /\ act[x].seen = i
Live(i) == Carried(i) \/ \E x \in Actors : Holds(x, i)

\* A restore will put this sidecar at a path.
Follows(u, p, i) ==
    act[u].step = "follow" /\ act[u].at \in Bins /\ act[u].to = p /\ side[act[u].at] = i
\* This sidecar is at a path, or will be.
Expected(p, i) ==
    \/ side[p] = i
    \/ \E y \in Actors : act[y].step = "write" /\ act[y].at = p /\ act[y].id = i
    \/ \E u \in Requests : Follows(u, p, i)
\* No other sidecar will be there.
OnlyId(p, i) ==
    /\ \A k \in Ids : Claimed(p, k) => k = i
    /\ \A u \in Requests : act[u].step = "follow" /\ act[u].to = p =>
         act[u].at \in Bins /\ side[act[u].at] \in {None, i}

\* The sidecar of a path is to be moved or removed.
Passing(x, p) ==
    \/ act[x].step \in {"write", "sweep"} /\ act[x].to = p
    \/ act[x].step \in {"stamp", "unlink", "carry", "follow"} /\ act[x].at = p
\* Only by the deletion that moved the file there.
BoundFor(p, b) ==
    \A x \in Actors : Passing(x, p) => act[x].step \in Binning /\ act[x].to = b
\* A file of the Trash will be restored there, or beside.
Origin(b, p) ==
    /\ \A i \in Ids : row[i].at = b => row[i].from = p
    /\ \A u \in Requests : act[u].step \in Binning /\ act[u].to = b => act[u].at = p
    /\ \A u \in Requests : act[u].step = "out" /\ act[u].at = b => act[u].to = p
\* The file in the Trash whose sidecar is still at its path.
Orphan(b, p, i) == ~Exists(p) /\ OnlyId(p, i) /\ BoundFor(p, b) /\ Origin(b, p)
\* The file that was moved without its sidecar, which its row still knows.
Parted(i, q) ==
    /\ q \in Paths /\ row[i].at = q /\ ~Exists(q) /\ side[q] = i /\ OnlyId(q, i)
    /\ \A x \in Actors : Passing(x, q) =>
         act[x].step = "write" /\ act[x].to = q /\ act[x].id = i
\* The id of a file is found with it.
Sure(r, i) ==
    \/ r \in Paths /\ Expected(r, i)
    \/ r \in Bins /\ (side[r] = i \/ \E p \in Paths : Expected(p, i) /\ Orphan(r, p, i))

PassesNone(x) == \A p \in Places : Passing(x, p) /\ Exists(p) => file[p] \in displaced
HasLock(x) == Naming(x) \/ act[x].step = "match" => lock[act[x].at] = x
LeftBin(x) == act[x].step = "follow" /\ act[x].at \in Bins => ~Exists(act[x].at)
Signed(x) == act[x].step = "unlink" => side[act[x].to] # None
NoteFits(x) ==
    act[x].step = "note" /\ Exists(act[x].at) /\ Clean(file[act[x].at])
    => side[act[x].at] = act[x].seen
Bare(p) == \A k \in Ids : ~Claimed(p, k) /\ \A u \in Requests : ~Follows(u, p, k)
MatchBare(x) ==
    act[x].step = "match" /\ Exists(act[x].at) /\ Clean(file[act[x].at]) => Bare(act[x].at)
\* An id that was made is nobody's yet; one that was found is at its old path.
WriteFits(x) ==
    act[x].step = "write" /\ Mine(act[x].id) =>
        IF act[x].to = None
        THEN ~Carried(act[x].id) /\ \A y \in Actors \ {x} : ~Holds(y, act[x].id)
        ELSE Parted(act[x].id, act[x].to) /\ act[x].to # act[x].at
NamedAt(x) ==
    Naming(x) /\ Mine(act[x].id) => \A r \in Places : Holding(r, owner[act[x].id]) =>
        r = act[x].at \/ (r \in Bins /\ Orphan(r, act[x].at, act[x].id))
NamedSure(x) ==
    act[x].step \in {"sweep", "upsert"} /\ Mine(act[x].id) =>
        \A r \in Places : Holding(r, owner[act[x].id]) => Sure(r, act[x].id)
Heeds(x) ==
    /\ PassesNone(x) /\ HasLock(x) /\ LeftBin(x) /\ Signed(x) /\ NoteFits(x) /\ MatchBare(x)
NamesFit(x) == WriteFits(x) /\ NamedAt(x) /\ NamedSure(x)

\* Two restores do not move one file, and two indexers do not have one id.
Apart(x, y) ==
    /\ act[x].step = "follow" /\ act[y].step = "follow" /\ act[x].at = act[y].at
       /\ act[x].at \in Bins => x = y
    /\ Naming(x) /\ Naming(y) /\ act[x].id = act[y].id /\ Mine(act[x].id) => x = y

\* The id in the metadata of a file is its own, and no other file's.
Marked ==
    \A i \in Ids : owner[i] # None =>
        IF Embedded[owner[i]] = None THEN \A f \in Files : Embedded[f] # i
        ELSE i = Embedded[owner[i]]
\* A file is at one place.
Single == \A p, q \in Places : Exists(p) /\ file[p] = file[q] => p = q
Uniq == \A i, j \in Ids : owner[i] = owner[j] /\ Mine(i) /\ Live(i) /\ Live(j) => i = j
Found ==
    \A i \in Ids, r \in Places : Mine(i) /\ Live(i) /\ Holding(r, owner[i]) =>
        Sure(r, i) \/ \E q \in Paths : Parted(i, q)

IdInv ==
    /\ Marked /\ Single /\ Uniq /\ Found
    /\ \A x \in Actors : Heeds(x) /\ NamesFit(x)
    /\ \A x, y \in Actors : Apart(x, y)
-----------------------------------------------------------------------------
(* What a step keeps of it.                                                  *)

\* What a step says of the ids, S being the actors that move, N the ids it makes.
LiveBefore(S, N) ==
    /\ \A i \in Ids \ N : Mine(i)' /\ Carried(i)' => Carried(i) \/ \E x \in S : Holds(x, i)
    /\ \A i \in Ids \ N, x \in S : Mine(i)' /\ Holds(x, i)' => Carried(i) \/ \E z \in S : Holds(z, i)
OrphansStay ==
    \A b \in Bins, p \in Paths, i \in Ids :
        /\ Mine(i)' /\ file[b] = owner[i] /\ file'[b] = owner[i] /\ Orphan(b, p, i)
        /\ Expected(p, i) \/ \E y \in Actors : Naming(y) /\ act[y].at = p /\ act[y].id = i
        => Orphan(b, p, i)'
SureStays ==
    \A i \in Ids, r \in Places :
        Mine(i)' /\ Live(i) /\ file[r] = owner[i] /\ file'[r] = owner[i] /\ Sure(r, i) => Sure(r, i)'
PartedStays(S) ==
    \A i \in Ids, q \in Paths : Mine(i)' /\ Live(i) /\ Parted(i, q) =>
        \/ Parted(i, q)'
        \/ /\ \A r \in Places : file[r] = owner[i] /\ file'[r] = owner[i] => Sure(r, i)'
           /\ \A y \in Actors \ S : act[y].step = "write" => act[y].id # i
FilesArrive(S) ==
    \A i \in Ids, r \in Places : Mine(i)' /\ Live(i) /\ file[r] # owner[i] /\ file'[r] = owner[i] =>
        /\ Sure(r, i)' \/ \E q \in Paths : Parted(i, q)'
        /\ \A y \in Actors \ S : Naming(y) /\ act[y].id = i =>
             /\ r = act[y].at \/ (r \in Bins /\ Orphan(r, act[y].at, i)')
             /\ act[y].step \in {"sweep", "upsert"} => Sure(r, i)'

LEMMA MineBefore ==
    ASSUME owner' = owner, displaced \subseteq displaced', NEW i, Mine(i)' PROVE Mine(i) /\ owner'[i] = owner[i]
  BY DEF Mine, Clean

\* The ids made by a step, N, are for files that had none.
IdsMade(S, N) ==
    /\ \A i \in Ids \ N : Mine(i)' => Mine(i) /\ owner'[i] = owner[i]
    /\ \A n \in N : Mine(n)' =>
         /\ \A j \in Ids \ {n} : owner'[j] = owner'[n] => ~Live(j)'
         /\ \A r \in Places : file'[r] = owner'[n] => Sure(r, n)'
         /\ \A y \in Actors \ S : Naming(y) => act[y].id # n

LEMMA IdsFrom ==
    ASSUME Typed, IdInv, NEW S \in SUBSET Actors, NEW N \in SUBSET Ids,
           \A y \in Actors \ S : act'[y] = act[y] /\ Heeds(y)',
           IdsMade(S, N), Marked', Single',
           LiveBefore(S, N), OrphansStay, SureStays, PartedStays(S), FilesArrive(S),
           \A x \in S : Heeds(x)' /\ NamesFit(x)',
           \A x \in S, y \in Actors : Apart(x, y)'
    PROVE  IdInv'
<1>1. \A i \in Ids \ N : Mine(i)' => Mine(i) /\ owner'[i] = owner[i]  BY DEF IdsMade
<1>2. ASSUME NEW i \in Ids, Mine(i)', Live(i)' PROVE Live(i) \/ i \in N
  <2>0. CASE i \in N  BY <2>0
  <2>1. CASE i \notin N /\ Carried(i)'  BY <1>2, <2>1 DEF LiveBefore, Live
  <2>2. ASSUME i \notin N, NEW x \in Actors, Holds(x, i)' PROVE Live(i)
    <3>1. CASE x \in S  BY <1>2, <2>2, <3>1 DEF LiveBefore, Live
    <3>2. CASE x \notin S  BY <2>2, <3>2 DEF Holds, Naming, Live
    <3> QED  BY <3>1, <3>2
  <2> QED  BY <1>2, <2>0, <2>1, <2>2 DEF Live
<1>4. Uniq'
  <2> SUFFICES ASSUME NEW i \in Ids, NEW j \in Ids, owner'[i] = owner'[j], Mine(i)', Live(i)', Live(j)'
               PROVE  i = j
    BY DEF Uniq
  <2>1. Mine(j)'  BY DEF Mine
  <2>2. CASE i \in N \/ j \in N  BY <2>1, <2>2 DEF IdsMade
  <2>3. CASE i \notin N /\ j \notin N  BY <1>1, <1>2, <2>1, <2>3 DEF IdInv, Uniq
  <2> QED  BY <2>2, <2>3
<1>5. Found'
  <2> SUFFICES ASSUME NEW i \in Ids, NEW r \in Places, Mine(i)', Live(i)', file'[r] = owner'[i]
               PROVE  Sure(r, i)' \/ \E q \in Paths : Parted(i, q)'
    BY DEF Found, Holding
  <2>1. CASE i \in N  BY <2>1 DEF IdsMade
  <2>2. CASE i \notin N
    <3>1. Live(i) /\ Mine(i) /\ owner'[i] = owner[i]  BY <1>1, <1>2, <2>2
    <3>2. CASE file[r] = owner[i]
      <4>1. Sure(r, i) \/ \E q \in Paths : Parted(i, q)  BY <3>1, <3>2 DEF IdInv, Found, Holding
      <4>2. CASE Sure(r, i)  BY <3>1, <3>2, <4>2 DEF SureStays
      <4>3. CASE \E q \in Paths : Parted(i, q)  BY <3>1, <3>2, <4>3 DEF PartedStays
      <4> QED  BY <4>1, <4>2, <4>3
    <3> QED  BY <3>1, <3>2 DEF FilesArrive
  <2> QED  BY <2>1, <2>2
<1>6. ASSUME NEW y \in Actors \ S PROVE NamesFit(y)'
  <2> DEFINE i == act[y].id
  <2>1. act'[y] = act[y] /\ (Naming(y) => i \in Ids /\ act[y].at \in Paths /\ Live(i))
        /\ NamesFit(y)
    BY DEF Typed, Fields, Fielded, Made, Naming, Indexing, Live, Holds, IdInv
  <2>2. Naming(y) /\ Mine(i)' => Mine(i) /\ owner'[i] = owner[i] /\ i \notin N
    BY <2>1 DEF IdsMade
  <2>3. WriteFits(y)'
    <3> SUFFICES ASSUME act[y].step = "write", Mine(i)'
                 PROVE  IF act[y].to = None
                        THEN ~Carried(i)' /\ \A x \in Actors \ {y} : ~Holds(x, i)'
                        ELSE Parted(i, act[y].to)' /\ act[y].to # act[y].at
      BY <2>1 DEF WriteFits
    <3>1. i \in Ids \ N /\ Naming(y) /\ Mine(i)  BY <2>1, <2>2 DEF Naming
    <3>2. CASE act[y].to = None
      <4>1. ~Carried(i) /\ \A x \in Actors \ {y} : ~Holds(x, i)
        BY <2>1, <3>1, <3>2 DEF WriteFits, NamesFit
      <4>2. ~Carried(i)'  BY <3>1, <4>1 DEF LiveBefore
      <4>3. ASSUME NEW x \in Actors \ {y} PROVE ~Holds(x, i)'
        <5>1. CASE x \in S  BY <3>1, <4>1, <5>1 DEF LiveBefore
        <5>2. CASE x \notin S  BY <4>1, <5>2 DEF Holds, Naming
        <5> QED  BY <5>1, <5>2
      <4> QED  BY <3>2, <4>2, <4>3
    <3>3. CASE act[y].to # None
      <4>1. Parted(i, act[y].to) /\ act[y].to # act[y].at /\ act[y].to \in Paths
        BY <2>1, <3>1, <3>3 DEF WriteFits, NamesFit, Parted
      <4>2. Parted(i, act[y].to)'  BY <2>1, <3>1, <4>1 DEF PartedStays
      <4> QED  BY <3>3, <4>1, <4>2
    <3> QED  BY <3>2, <3>3
  <2>4. ASSUME Naming(y), Mine(i)', NEW r \in Places, file'[r] = owner'[i]
        PROVE  /\ r = act[y].at \/ (r \in Bins /\ Orphan(r, act[y].at, i)')
               /\ act[y].step \in {"sweep", "upsert"} => Sure(r, i)'
    <3>1. i \in Ids /\ act[y].at \in Paths /\ Live(i) /\ Mine(i) /\ owner'[i] = owner[i]
      BY <2>1, <2>2, <2>4
    <3>2. CASE file[r] = owner[i]
      <4>1. r = act[y].at \/ (r \in Bins /\ Orphan(r, act[y].at, i))
        BY <2>1, <2>4, <3>1, <3>2 DEF NamesFit, NamedAt, Holding
      <4>2. act[y].step \in {"sweep", "upsert"} => Sure(r, i)
        BY <2>1, <2>4, <3>1, <3>2 DEF NamesFit, NamedSure, Holding
      <4>3. act[y].step \in {"sweep", "upsert"} => Sure(r, i)'
        BY <2>4, <3>1, <3>2, <4>2 DEF SureStays
      <4>4. r \in Bins /\ Orphan(r, act[y].at, i) => Orphan(r, act[y].at, i)'
        BY <2>4, <3>1, <3>2 DEF OrphansStay
      <4> QED  BY <4>1, <4>3, <4>4
    <3> QED  BY <2>4, <3>1, <3>2 DEF FilesArrive
  <2>5. Naming(y)' <=> Naming(y)  BY <2>1 DEF Naming
  <2>6. NamedAt(y)'  BY <2>1, <2>4, <2>5 DEF NamedAt, Holding
  <2>7. NamedSure(y)'  BY <2>1, <2>4, <2>5 DEF NamedSure, Holding, Naming
  <2> QED  BY <2>3, <2>6, <2>7 DEF NamesFit
<1>7. ASSUME NEW x \in Actors, NEW y \in Actors PROVE Apart(x, y)'
  <2>1. CASE x \in S  BY <2>1
  <2>2. CASE y \in S
    <3>1. Apart(y, x)'  BY <2>2
    <3> QED  BY <3>1 DEF Apart
  <2>3. CASE x \notin S /\ y \notin S
    <3>1. act'[x] = act[x] /\ act'[y] = act[y] /\ Apart(x, y)  BY <2>3 DEF IdInv
    <3>2. Naming(x) => act[x].id \in Ids
      BY DEF Typed, Fields, Fielded, Made, Naming
    <3>3. Naming(x) /\ Mine(act[x].id)' => Mine(act[x].id)  BY <2>3, <3>1, <3>2 DEF IdsMade
    <3> QED  BY <3>1, <3>3 DEF Apart, Naming
  <2> QED  BY <2>1, <2>2, <2>3
<1> QED  BY <1>4, <1>5, <1>6, <1>7 DEF IdInv

LEMMA IdsOn ==
    ASSUME Typed, IdInv, NEW S \in SUBSET Actors,
           \A y \in Actors \ S : act'[y] = act[y] /\ Heeds(y)',
           owner' = owner, displaced \subseteq displaced', Single',
           LiveBefore(S, {}), OrphansStay, SureStays, PartedStays(S), FilesArrive(S),
           \A x \in S : Heeds(x)' /\ NamesFit(x)',
           \A x \in S, y \in Actors : Apart(x, y)'
    PROVE  IdInv'
<1>1. IdsMade(S, {})  BY MineBefore DEF IdsMade
<1>2. Marked'  BY DEF Marked, IdInv
<1> QED  BY <1>1, <1>2, IdsFrom

-----------------------------------------------------------------------------
(* Steps that leave the disk as it is.                                       *)

OriginsStay ==
    \A b \in Bins, p \in Paths : Exists(b) /\ ~Exists(p) /\ Origin(b, p) => Origin(b, p)'

\* Files and sidecars stay, and nobody begins or ends to move one.
LEMMA Unmoved ==
    ASSUME Typed, NEW x \in Actors, Alone(x), UNCHANGED <<file, side>>,
           act[x].step \notin {"write", "follow"},
           act'[x].step \notin {"write", "sweep", "stamp", "unlink", "carry", "follow"},
           act'[x].step = "note" => side[act'[x].at] = act'[x].seen
    PROVE  /\ \A p \in Places, k \in Ids : Claimed(p, k)' => Claimed(p, k)
           /\ \A u \in Requests, p \in Places, k \in Ids : Follows(u, p, k)' <=> Follows(u, p, k)
           /\ \A p \in Places, i \in Ids : Expected(p, i) => Expected(p, i)'
           /\ \A p \in Places, i \in Ids : OnlyId(p, i) => OnlyId(p, i)'
           /\ \A y \in Actors, p \in Places : Passing(y, p)' => Passing(y, p) /\ act'[y] = act[y]
<1>0. \A u \in Requests : u \in Actors  BY Names
<1>1. ASSUME NEW p \in Places, NEW k \in Ids, Claimed(p, k)' PROVE Claimed(p, k)
  <2>1. CASE side'[p] = k  BY <2>1 DEF Claimed
  <2>2. ASSUME NEW y \in Actors, Writes(y, p, k)' PROVE Claimed(p, k)
    <3>1. CASE y = x
      <4>1. act'[x].step = "note" /\ act'[x].at = p /\ act'[x].seen = k  BY <2>2, <3>1 DEF Writes
      <4> QED  BY <4>1 DEF Claimed
    <3>2. CASE y # x
      <4>1. Writes(y, p, k)  BY <2>2, <3>2 DEF Writes, Alone
      <4> QED  BY <4>1 DEF Claimed
    <3> QED  BY <3>1, <3>2
  <2> QED  BY <1>1, <2>1, <2>2 DEF Claimed
<1>2. ASSUME NEW u \in Requests
      PROVE  /\ act'[u].step = "follow" <=> act[u].step = "follow"
             /\ act[u].step = "follow" => act'[u] = act[u]
  BY <1>0 DEF Alone
<1>3. \A u \in Requests, p \in Places, k \in Ids : Follows(u, p, k)' <=> Follows(u, p, k)
  BY <1>2 DEF Follows
<1>4. ASSUME NEW p \in Places, NEW i \in Ids, Expected(p, i) PROVE Expected(p, i)'
  <2>1. CASE \E y \in Actors : act[y].step = "write" /\ act[y].at = p /\ act[y].id = i
    BY <2>1 DEF Alone, Expected
  <2> QED  BY <1>3, <1>4, <2>1 DEF Expected
<1>5. \A p \in Places, i \in Ids : OnlyId(p, i) => OnlyId(p, i)'  BY <1>1, <1>2 DEF OnlyId
<1>6. \A y \in Actors, p \in Places : Passing(y, p)' => Passing(y, p) /\ act'[y] = act[y]
  BY DEF Passing, Alone
<1> QED  BY <1>1, <1>3, <1>4, <1>5, <1>6

LEMMA IdsCalm ==
    ASSUME Typed, IdInv, NEW x \in Actors, Alone(x), UNCHANGED <<file, side, owner>>,
           displaced \subseteq displaced',
           act[x].step \notin {"write", "follow"},
           act'[x].step \notin {"write", "sweep", "stamp", "unlink", "carry", "follow"},
           act'[x].step = "note" => side[act'[x].at] = act'[x].seen,
           \A p \in Paths : lock'[p] = lock[p] \/ lock[p] \in {None, x},
           \A i \in Ids : Mine(i)' /\ row'[i].at # None => row[i].at # None \/ Holds(x, i),
           \A i \in Ids : Mine(i)' /\ Holds(x, i)' => Carried(i) \/ Holds(x, i),
           OriginsStay,
           \A i \in Ids, q \in Paths : Mine(i)' /\ Live(i) /\ Parted(i, q) =>
               \/ row'[i].at = q
               \/ /\ \A r \in Places : file[r] = owner[i] => Sure(r, i)
                  /\ \A y \in Actors \ {x} : act[y].step = "write" => act[y].id # i,
           HasLock(x)', MatchBare(x)', NamedAt(x)', NamedSure(x)',
           \A y \in Actors : Apart(x, y)'
    PROVE  IdInv'
<1>1. /\ \A p \in Places, k \in Ids : Claimed(p, k)' => Claimed(p, k)
      /\ \A u \in Requests, p \in Places, k \in Ids : Follows(u, p, k)' <=> Follows(u, p, k)
      /\ \A p \in Places, i \in Ids : Expected(p, i) => Expected(p, i)'
      /\ \A p \in Places, i \in Ids : OnlyId(p, i) => OnlyId(p, i)'
      /\ \A y \in Actors, p \in Places : Passing(y, p)' => Passing(y, p) /\ act'[y] = act[y]
  BY Unmoved
<1>2. \A p \in Paths : p \in Places  BY Names
<1>3. ASSUME NEW b \in Bins, NEW p \in Paths, NEW i \in Ids, Exists(b), Orphan(b, p, i)
      PROVE  Orphan(b, p, i)'
  <2>1. ~Exists(p)' /\ OnlyId(p, i)'  BY <1>1, <1>2, <1>3 DEF Orphan, Exists
  <2>2. BoundFor(p, b)'
    <3>1. BoundFor(p, b)  BY <1>3 DEF Orphan
    <3> QED  BY <1>1, <1>2, <3>1 DEF BoundFor
  <2>3. Origin(b, p)'  BY <1>3 DEF Orphan, OriginsStay
  <2> QED  BY <2>1, <2>2, <2>3 DEF Orphan
<1>4. \A i \in Ids : Mine(i)' => owner[i] # None /\ owner[i] \in Files
  BY Names DEF Mine, Clean
<1>5. ASSUME NEW i \in Ids, NEW r \in Places, Mine(i)', file[r] = owner[i], Sure(r, i)
      PROVE  Sure(r, i)'
  <2>1. Exists(r)  BY <1>4, <1>5 DEF Exists
  <2>2. CASE r \in Paths /\ Expected(r, i)  BY <1>1, <2>2 DEF Sure
  <2>3. CASE r \in Bins /\ side[r] = i  BY <2>3 DEF Sure
  <2>4. ASSUME r \in Bins, NEW p \in Paths, Expected(p, i), Orphan(r, p, i) PROVE Sure(r, i)'
    <3>1. Expected(p, i)' /\ Orphan(r, p, i)'  BY <1>1, <1>2, <1>3, <2>1, <2>4
    <3> QED  BY <2>4, <3>1 DEF Sure
  <2> QED  BY <1>5, <2>2, <2>3, <2>4 DEF Sure
<1>6. OrphansStay  BY <1>3, <1>4 DEF OrphansStay, Exists
<1>7. SureStays  BY <1>5 DEF SureStays
<1>8. ASSUME NEW i \in Ids, NEW q \in Paths, Parted(i, q), row'[i].at = q PROVE Parted(i, q)'
  <2>1. OnlyId(q, i)' /\ ~Exists(q)'  BY <1>1, <1>2, <1>8 DEF Parted, Exists
  <2> QED  BY <1>1, <1>2, <1>8, <2>1 DEF Parted
<1>9. PartedStays({x})  BY <1>5, <1>8 DEF PartedStays
<1>10. FilesArrive({x})  BY DEF FilesArrive
<1>11. LiveBefore({x}, {})  BY DEF LiveBefore, Carried
<1>12. Single'  BY DEF IdInv, Single, Exists
<1>13. ASSUME NEW y \in Actors PROVE PassesNone(y)'
  <2>1. PassesNone(y)  BY DEF IdInv, Heeds
  <2> QED  BY <1>1, <2>1 DEF PassesNone, Exists
<1>14. ASSUME NEW y \in Actors \ {x} PROVE act'[y] = act[y] /\ Heeds(y)'
  <2>1. act'[y] = act[y] /\ Heeds(y)  BY DEF IdInv, Alone
  <2>2. HasLock(y)'
    <3>1. Naming(y) \/ act[y].step = "match" => act[y].at \in Paths
      BY DEF Naming, Typed, Fields, Fielded, Indexing
    <3> QED  BY <2>1, <3>1, PlacesAssumption DEF Heeds, HasLock, Naming
  <2>3. LeftBin(y)' /\ Signed(y)'  BY <2>1 DEF Heeds, LeftBin, Signed, Exists
  <2>4. NoteFits(y)'  BY <2>1 DEF Heeds, NoteFits, Exists, Clean
  <2>5. MatchBare(y)'
    <3> SUFFICES ASSUME act[y].step = "match", Exists(act[y].at)', Clean(file[act[y].at])'
                 PROVE  Bare(act[y].at)'
      BY <2>1 DEF MatchBare
    <3>1. act[y].at \in Places  BY Names DEF Typed, Fields, Fielded, Indexing
    <3>2. Bare(act[y].at)  BY <2>1 DEF Heeds, MatchBare, Exists, Clean
    <3> QED  BY <1>1, <2>1, <3>1, <3>2 DEF Bare
  <2> QED  BY <1>13, <2>1, <2>2, <2>3, <2>4, <2>5 DEF Heeds
<1>15. Heeds(x)' /\ NamesFit(x)'
  <2>1. LeftBin(x)' /\ Signed(x)' /\ WriteFits(x)'  BY DEF LeftBin, Signed, WriteFits
  <2>2. NoteFits(x)'  BY DEF NoteFits
  <2> QED  BY <1>13, <2>1, <2>2 DEF Heeds, NamesFit
<1> QED  BY <1>6, <1>7, <1>9, <1>10, <1>11, <1>12, <1>14, <1>15, IdsOn

\* A step of an actor that neither gets nor gives an id.
LEMMA IdsPlain ==
    ASSUME Typed, IdInv, NEW x \in Actors, Alone(x), UNCHANGED <<file, side, owner, row>>,
           displaced \subseteq displaced',
           act[x].step \notin {"write", "follow"},
           act'[x].step \notin {"write", "sweep", "stamp", "unlink", "carry", "follow",
                                "note", "bin", "match", "upsert", "trashed", "out"},
           \A p \in Paths : lock'[p] = lock[p] \/ lock[p] \in {None, x}
    PROVE  IdInv'
<1>0. x \in Actors /\ ~Naming(x)'  BY DEF Naming
<1>1. OriginsStay
  <2> SUFFICES ASSUME NEW b \in Bins, NEW p \in Paths, Origin(b, p) PROVE Origin(b, p)'
    BY DEF OriginsStay
  <2>1. ASSUME NEW u \in Requests, act'[u].step \in Binning \cup {"out"} PROVE act'[u] = act[u]
    BY <2>1, Names DEF Alone, Binning
  <2> QED  BY <2>1 DEF Origin
<1>2. HasLock(x)' /\ MatchBare(x)' /\ NamedAt(x)' /\ NamedSure(x)'
  BY <1>0 DEF HasLock, MatchBare, NamedAt, NamedSure
<1>3. \A y \in Actors : Apart(x, y)'  BY <1>0 DEF Apart
<1>4. \A i \in Ids : ~Holds(x, i)'  BY <1>0 DEF Holds
<1>5. \A i \in Ids, q \in Paths : Parted(i, q) => row'[i].at = q  BY DEF Parted
<1> QED  BY <1>1, <1>2, <1>3, <1>4, <1>5, IdsCalm

LEMMA ReindexIds == ASSUME Typed, IdInv, NEW x \in Actors, List(x) \/ NextFile(x) PROVE IdInv'
<1>1. act \in [Actors -> Acts] /\ act[x] \in Acts  BY Facts
<1>2. /\ UNCHANGED <<file, side, owner, row, displaced, lock>>
      /\ act[x].step \in {"list", "scan", "next"}
  BY DEF List, NextFile, disk, At
<1>3. CASE List(x)
  <2>1. PICK t \in {"wipe", "idle", "next"}, z \in SUBSET Paths :
          act' = [act EXCEPT ![x].step = t, ![x].todo = z]
    BY <1>3 DEF List, Present
  <2>2. Alone(x) /\ act'[x].step = t  BY <1>1, <2>1 DEF Alone, Acts, Steps
  <2> QED  BY <1>2, <2>2, IdsPlain
<1>4. CASE NextFile(x)
  <2>1. PICK p \in act[x].todo :
          act' = [act EXCEPT ![x] = [Idle EXCEPT !.step = "lock", !.at = p,
                                                !.todo = act[x].todo \ {p}]]
    BY <1>4 DEF NextFile
  <2>2. p \in Paths /\ act[x].todo \subseteq Paths  BY <1>1 DEF Acts
  <2> DEFINE l == [Idle EXCEPT !.step = "lock", !.at = p, !.todo = act[x].todo \ {p}]
  <2>3. l \in Acts /\ l.step = "lock"  BY <2>2, IdleFields, Names DEF Acts, Steps
  <2> HIDE DEF l
  <2>4. Alone(x) /\ act'[x] = l  BY <1>1, <2>1, <2>3, Sets DEF l
  <2> QED  BY <1>2, <2>3, <2>4, IdsPlain
<1> QED  BY <1>3, <1>4

\* While the process is down nobody does anything.
Stopped == process = "down" => \A x \in Actors : act[x].step = "idle"

LEMMA ServeIds ==
    ASSUME Typed, IdInv, Stopped, Ready \/ Import \/ Purge \/ Boot PROVE IdInv'
<1>1. act \in [Actors -> Acts] /\ Shaped /\ "worker" \in Actors /\ "starter" \in Actors
  BY Names, Facts
<1>2. UNCHANGED <<file, side, owner, row, displaced, lock>>
  BY DEF Ready, Import, Purge, Boot, disk
<1>3. CASE Ready
  <2>1. Alone("starter") /\ act'["starter"].step = "idle" /\ act["starter"].step = "next"
    BY <1>1, <1>3, IdleFields, Sets DEF Ready, At
  <2> QED  BY <1>1, <1>2, <2>1, IdsPlain
<1>4. CASE Import
  <2>1. PICK p \in due : act' = [act EXCEPT !["worker"] = [Idle EXCEPT !.step = "lock", !.at = p]]
    BY <1>4 DEF Import
  <2> DEFINE l == [Idle EXCEPT !.step = "lock", !.at = p]
  <2>2. l \in Acts /\ l.step = "lock"  BY <1>1, <2>1, IdleFields, Names DEF Acts, Steps, Shaped
  <2> HIDE DEF l
  <2>3. Alone("worker") /\ act'["worker"] = l  BY <1>1, <2>1, <2>2, Sets DEF l
  <2> QED  BY <1>1, <1>2, <1>4, <2>2, <2>3, IdsPlain DEF Import, At
<1>5. CASE Purge
  <2>1. PICK old \in SUBSET {i \in Ids : Trashed(i)} :
          act' = [act EXCEPT !["worker"] = [Idle EXCEPT !.step = "purge",
                                                        !.bins = {<<row[i].at, i>> : i \in old}]]
    BY <1>5 DEF Purge
  <2> DEFINE list == {<<row[i].at, i>> : i \in old}
             l == [Idle EXCEPT !.step = "purge", !.bins = list]
  <2>2. list \in SUBSET Entries
    BY <1>1, <2>1 DEF Entries, Trashed, Typed, Owned, Shaped, Rows
  <2> HIDE DEF list
  <2>3. l \in Acts /\ l.step = "purge"  BY <2>2, IdleFields DEF Acts, Steps
  <2> HIDE DEF l
  <2>4. Alone("worker") /\ act'["worker"] = l  BY <1>1, <2>1, <2>3, Sets DEF l, list
  <2> QED  BY <1>1, <1>2, <1>5, <2>3, <2>4, IdsPlain DEF Purge, At
<1>6. CASE Boot
  <2> DEFINE l == [Idle EXCEPT !.step = "list"]
  <2>1. l \in Acts /\ l.step = "list"  BY IdleFields DEF Acts, Steps
  <2> HIDE DEF l
  <2>2. Alone("starter") /\ act'["starter"] = l /\ act["starter"].step = "idle"
    BY <1>1, <1>6, <2>1, Sets DEF Boot, Stopped, l
  <2> QED  BY <1>1, <1>2, <2>1, <2>2, IdsPlain
<1> QED  BY <1>3, <1>4, <1>5, <1>6

LEMMA AskIds ==
    ASSUME Typed, IdInv, NEW u \in Requests,
           AskScan(u) \/ AskEdit(u) \/ AskRecover(u) \/ AskTrash(u) \/ AskRestore(u)
    PROVE  IdInv'
<1>1. act \in [Actors -> Acts] /\ u \in Actors /\ Shaped /\ Owned  BY Names, Facts
<1>2. UNCHANGED <<file, side, owner, row, displaced, lock>> /\ act[u].step = "idle"
  BY DEF AskScan, AskEdit, AskRecover, AskTrash, AskRestore, Free, At, disk
<1>3. ASSUME NEW l \in Acts, act' = [act EXCEPT ![u] = l], l.step \in {"note", "bin", "out"},
             l.step = "note" => side[l.at] = l.seen,
             l.step # "out" => l.at \in Places /\ l.seen \in {None, side[l.at]},
             l.step = "bin" => l.to \in EmptyBin,
             l.step = "out" => \A p \in Paths : ~Exists(p) /\ Origin(l.at, p) => l.to = p
      PROVE  IdInv'
  <2>1. Alone(u) /\ act'[u] = l  BY <1>1, <1>3, Sets
  <2>2. OriginsStay
    <3> SUFFICES ASSUME NEW b \in Bins, NEW p \in Paths, Exists(b), ~Exists(p), Origin(b, p)
                 PROVE  Origin(b, p)'
      BY DEF OriginsStay
    <3>1. \A v \in Requests \ {u} : act'[v] = act[v]  BY <2>1, Names DEF Alone
    <3>2. l.step \in Binning => l.to # b  BY <1>3 DEF EmptyBin, Exists, Binning
    <3>3. l.step = "out" /\ l.at = b => l.to = p  BY <1>3
    <3> QED  BY <1>2, <2>1, <3>1, <3>2, <3>3 DEF Origin
  <2>3. ~Naming(u)' /\ act'[u].step \notin {"match", "sweep", "follow"}  BY <1>3, <2>1 DEF Naming
  <2>4. HasLock(u)' /\ MatchBare(u)' /\ NamedAt(u)' /\ NamedSure(u)'
    BY <2>3 DEF HasLock, MatchBare, NamedAt, NamedSure, Naming
  <2>5. \A y \in Actors : Apart(u, y)'  BY <2>3 DEF Apart
  <2>6. \A i \in Ids : Holds(u, i)' => Carried(i)
    BY <1>3, <2>1, <2>3, Names DEF Holds, Carried
  <2>7. \A i \in Ids, q \in Paths : Parted(i, q) => row'[i].at = q  BY <1>2 DEF Parted
  <2> QED  BY <1>1, <1>2, <1>3, <2>1, <2>2, <2>4, <2>5, <2>6, <2>7, IdsCalm
<1>4. CASE AskScan(u)
  <2>1. PICK t \in {"scan", "list"} : act' = [act EXCEPT ![u] = [Idle EXCEPT !.step = t]]
    BY <1>4 DEF AskScan, Begin
  <2>2. [Idle EXCEPT !.step = t] \in Acts /\ [Idle EXCEPT !.step = t].step = t
    BY IdleFields DEF Acts, Steps
  <2>3. Alone(u) /\ act'[u].step = t  BY <1>1, <2>1, <2>2, Sets
  <2> QED  BY <1>1, <1>2, <2>3, IdsPlain
<1>5. CASE AskEdit(u)
  <2>1. PICK p \in Paths : /\ act' = [act EXCEPT ![u] = [Idle EXCEPT !.step = "note", !.at = p,
                                                                     !.seen = side[p]]]
                           /\ side[p] # None
    BY <1>5 DEF AskEdit, Begin, Asset
  <2> DEFINE l == [Idle EXCEPT !.step = "note", !.at = p, !.seen = side[p]]
  <2>2. l \in Acts /\ l.step = "note" /\ l.at = p /\ l.seen = side[p] /\ side[p] \in Ids
    BY <1>1, <2>1, IdleFields, Names DEF Acts, Steps, Shaped
  <2> HIDE DEF l
  <2> QED  BY <1>3, <2>1, <2>2, Names DEF l
<1>6. CASE AskRecover(u)
  <2>1. PICK i \in Ids : act' = [act EXCEPT ![u] = [Idle EXCEPT !.step = "forget", !.at = row[i].at,
                                                                !.id = i]]
    BY <1>6 DEF AskRecover, Begin
  <2> DEFINE l == [Idle EXCEPT !.step = "forget", !.at = row[i].at, !.id = i]
  <2>2. l \in Acts /\ l.step = "forget"  BY <1>1, IdleFields, Names DEF Acts, Steps, Shaped, Rows
  <2> HIDE DEF l
  <2>3. Alone(u) /\ act'[u] = l  BY <1>1, <2>1, <2>2, Sets DEF l
  <2> QED  BY <1>1, <1>2, <2>2, <2>3, IdsPlain
<1>7. CASE AskTrash(u)
  <2>1. PICK i \in Ids, b \in EmptyBin :
          /\ act' = [act EXCEPT ![u] = [Idle EXCEPT !.step = "bin", !.at = row[i].at, !.to = b,
                                                    !.id = i, !.seen = side[row[i].at]]]
          /\ row[i].at \in Paths /\ file[row[i].at] # None
    BY <1>7 DEF AskTrash, Begin, Asset, Exists
  <2> DEFINE l == [Idle EXCEPT !.step = "bin", !.at = row[i].at, !.to = b, !.id = i,
                               !.seen = side[row[i].at]]
  <2>2. b \in Places  BY Names DEF EmptyBin
  <2>3. l \in Acts /\ l.step = "bin" /\ l.at = row[i].at /\ l.seen = side[row[i].at] /\ l.to = b
    BY <1>1, <2>1, <2>2, IdleFields, Names DEF Acts, Steps, Shaped
  <2>4. l.at \in Places  BY <2>1, <2>3, Names
  <2> HIDE DEF l
  <2> QED  BY <1>3, <2>1, <2>3, <2>4 DEF l
<1>8. CASE AskRestore(u)
  <2>1. PICK i \in Ids :
          /\ row[i].from # None
          /\ act' = [act EXCEPT ![u] = [Idle EXCEPT !.step = "out", !.at = row[i].at, !.id = i,
                       !.to = IF Exists(row[i].from) THEN Beside[row[i].from] ELSE row[i].from]]
    BY <1>8 DEF AskRestore, Begin, Trashed
  <2> DEFINE l == [Idle EXCEPT !.step = "out", !.at = row[i].at, !.id = i,
                       !.to = IF Exists(row[i].from) THEN Beside[row[i].from] ELSE row[i].from]
  <2>2. row[i].from \in Paths /\ row[i].at \in Places \cup {None}  BY <1>1, <2>1 DEF Shaped, Rows
  <2>3. Beside[row[i].from] \in Paths  BY <2>2, PlacesAssumption
  <2>4. /\ l \in Acts /\ l.step = "out" /\ l.at = row[i].at
        /\ l.to = IF Exists(row[i].from) THEN Beside[row[i].from] ELSE row[i].from
    BY <2>2, <2>3, IdleFields, Names DEF Acts, Steps
  <2>5. \A p \in Paths : ~Exists(p) /\ Origin(l.at, p) => l.to = p  BY <2>4 DEF Origin
  <2> HIDE DEF l
  <2> QED  BY <1>3, <2>1, <2>4, <2>5 DEF l
<1> QED  BY <1>4, <1>5, <1>6, <1>7, <1>8

-----------------------------------------------------------------------------
(* Rows.                                                                     *)

LEMMA PartedStray ==
    ASSUME NEW i \in Ids, NEW q \in Paths, Parted(i, q), Mine(i), NEW I, i \in I
    PROVE  owner[i] \in Strays(I)
<1>1. row[i].at = q /\ q # None /\ file[q] = None /\ owner[i] \in Files /\ owner[i] # None
  BY Names DEF Parted, Exists, Mine, Clean
<1> QED  BY <1>1 DEF Strays, Holding

LEMMA RowsGoIds ==
    ASSUME Typed, IdInv, NEW x \in Actors, Wipe(x) \/ (x \in Requests /\ Forget(x)) \/ (x = "worker" /\ PurgeRow)
    PROVE  IdInv'
<1>1. act \in [Actors -> Acts] /\ act[x] \in Acts /\ Shaped  BY Facts
<1>2. UNCHANGED <<file, side, owner, lock>> /\ displaced \subseteq displaced'
  BY DEF Wipe, Forget, PurgeRow, disk
<1>3. Alone(x) /\ act'[x].step \in {"idle", "next", "lock", "purge"}
  <2>1. CASE act' = [act EXCEPT ![x] = Idle]  BY <1>1, <2>1, IdleFields, Sets
  <2>2. CASE To(x, "next")  BY <1>1, <2>2, StepsOn DEF Steps
  <2>3. CASE Forget(x)  BY <1>1, <2>3, IdleFields DEF Forget, Alone, Acts, Steps
  <2>4. CASE x = "worker" /\ PurgeRow  BY <1>1, <2>4, IdleFields DEF PurgeRow, Alone, Acts, Steps
  <2> QED  BY <2>1, <2>2, <2>3, <2>4 DEF Wipe
<1>4. act[x].step \in {"wipe", "forget", "delete"} /\ ~Naming(x)'
  BY <1>3 DEF Wipe, Forget, PurgeRow, At, Naming
<1>5. \A i \in Ids : \/ row'[i] = row[i]
                     \/ row'[i].at = None /\ Strays({i}) \subseteq displaced'
  <2>1. CASE Wipe(x)
    <3>1. \A i \in Ids : Strays({i}) \subseteq Strays(Ids)  BY DEF Strays
    <3> QED  BY <2>1, <3>1 DEF Wipe, NoRow
  <2>2. CASE Forget(x)  BY <1>1, <2>2 DEF Forget, Shaped, NoRow
  <2>3. CASE x = "worker" /\ PurgeRow  BY <1>1, <2>3 DEF PurgeRow, Shaped, NoRow
  <2> QED  BY <2>1, <2>2, <2>3
<1>6. OriginsStay
  <2> SUFFICES ASSUME NEW b \in Bins, NEW p \in Paths, Origin(b, p) PROVE Origin(b, p)'
    BY DEF OriginsStay
  <2>1. ASSUME NEW u \in Requests, act'[u].step \in Binning \cup {"out"} PROVE act'[u] = act[u]
    BY <1>3, <2>1, Names DEF Alone, Binning
  <2>2. b # None  BY Names
  <2> QED  BY <1>5, <2>1, <2>2 DEF Origin
<1>7. HasLock(x)' /\ MatchBare(x)' /\ NamedAt(x)' /\ NamedSure(x)'
  BY <1>3, <1>4 DEF HasLock, MatchBare, NamedAt, NamedSure
<1>8. \A y \in Actors : Apart(x, y)'  BY <1>3, <1>4 DEF Apart
<1>9. \A i \in Ids : ~Holds(x, i)'  BY <1>3, <1>4 DEF Holds
<1>10. \A i \in Ids, q \in Paths : Mine(i)' /\ Parted(i, q) => row'[i].at = q
  <2> SUFFICES ASSUME NEW i \in Ids, NEW q \in Paths, Mine(i)', Parted(i, q), row'[i] # row[i]
               PROVE  FALSE
    BY DEF Parted
  <2>1. owner[i] \in Strays({i})  BY <1>2, MineBefore, PartedStray
  <2> QED  BY <1>2, <1>5, <2>1 DEF Mine, Clean
<1>11. \A i \in Ids : row'[i].at # None => row[i].at # None  BY <1>5
<1> QED  BY <1>2, <1>3, <1>4, <1>6, <1>7, <1>8, <1>9, <1>10, <1>11, IdsCalm

\* A row gets the path an operation brought its file to.
LEMMA RowComes ==
    ASSUME Typed, IdInv, NEW x \in Actors, act'[x].step \in {"idle", "next"}, Alone(x),
           UNCHANGED <<file, side, owner>>, displaced \subseteq displaced',
           act[x].step \notin {"write", "follow"},
           \A p \in Paths : lock'[p] = lock[p] \/ lock[p] \in {None, x},
           NEW i \in Ids, row[i].at # None \/ Holds(x, i),
           \A j \in Ids \ {i} : row'[j] = row[j],
           \/ row'[i].at \in Paths
           \/ x \in Requests /\ act[x].step \in Binning /\ row'[i] = [at |-> act[x].to, from |-> act[x].at],
           \A q \in Paths : Mine(i)' /\ Live(i) /\ Parted(i, q) =>
               /\ \A r \in Places : file[r] = owner[i] => Sure(r, i)
               /\ \A y \in Actors \ {x} : act[y].step = "write" => act[y].id # i
    PROVE  IdInv'
<1>1. ~Naming(x)'  BY DEF Naming
<1>2. OriginsStay
  <2> SUFFICES ASSUME NEW b \in Bins, NEW p \in Paths, Origin(b, p) PROVE Origin(b, p)'
    BY DEF OriginsStay
  <2>1. ASSUME NEW u \in Requests, act'[u].step \in Binning \cup {"out"} PROVE act'[u] = act[u]
    BY <2>1, Names DEF Alone, Binning
  <2>2. row'[i].at = b => row'[i].from = p  BY Names DEF Origin
  <2> QED  BY <2>1, <2>2 DEF Origin
<1>3. HasLock(x)' /\ MatchBare(x)' /\ NamedAt(x)' /\ NamedSure(x)'
  BY <1>1 DEF HasLock, MatchBare, NamedAt, NamedSure
<1>4. \A y \in Actors : Apart(x, y)'  BY <1>1 DEF Apart
<1>5. \A j \in Ids : ~Holds(x, j)'  BY <1>1 DEF Holds
<1>6. \A j \in Ids : row'[j].at # None => row[j].at # None \/ Holds(x, j)  OBVIOUS
<1>7. \A j \in Ids, q \in Paths : Mine(j)' /\ Live(j) /\ Parted(j, q) =>
               \/ row'[j].at = q
               \/ /\ \A r \in Places : file[r] = owner[j] => Sure(r, j)
                  /\ \A y \in Actors \ {x} : act[y].step = "write" => act[y].id # j
  BY DEF Parted
<1> QED  BY <1>2, <1>3, <1>4, <1>5, <1>6, <1>7, IdsCalm

LEMMA UpsertIds == ASSUME Typed, IdInv, NEW x \in Actors, Upsert(x) PROVE IdInv'
<1>1. /\ act \in [Actors -> Acts] /\ act[x] \in Acts /\ act[x].at \in Paths /\ act[x].id \in Ids
      /\ Shaped /\ act[x].step = "upsert"
  BY Facts DEF Upsert, At, Fielded, Indexing, Made
<1>2. UNCHANGED <<file, side, owner>> /\ displaced \subseteq displaced'  BY DEF Upsert, disk
<1>3. Alone(x) /\ act'[x].step \in {"idle", "next"}
  BY <1>1, StepsDone, IdleFields DEF Upsert, Throw
<1>4. \A p \in Paths : lock'[p] = lock[p] \/ lock[p] \in {None, x}
  <2>1. lock' = [lock EXCEPT ![act[x].at] = None]  BY DEF Upsert, Throw, Unlock
  <2>2. lock[act[x].at] = x  BY <1>1 DEF IdInv, Heeds, HasLock, Naming
  <2> QED  BY <1>1, <2>1, <2>2 DEF Shaped
<1>5. CASE row' = row  BY <1>1, <1>2, <1>3, <1>4, <1>5, IdsPlain
<1>6. CASE row' # row
  <2> SUFFICES ASSUME NEW i \in Ids, i = act[x].id PROVE IdInv'  BY <1>1
  <2>1. row' = [row EXCEPT ![i].at = act[x].at]  BY <1>6 DEF Upsert
  <2>2. \A j \in Ids \ {i} : row'[j] = row[j]  BY <1>1, <2>1 DEF Shaped
  <2>3. row'[i].at \in Paths  BY <1>1, <2>1 DEF Shaped, Rows
  <2>4. Holds(x, i)  BY <1>1 DEF Holds, Naming
  <2>5. ASSUME Mine(i)' PROVE /\ \A r \in Places : file[r] = owner[i] => Sure(r, i)
                              /\ \A y \in Actors \ {x} : act[y].step = "write" => act[y].id # i
    <3>1. Mine(i)  BY <1>2, <2>5, MineBefore
    <3>2. NamedSure(x) /\ \A y \in Actors : Apart(x, y)  BY DEF IdInv, NamesFit
    <3> QED  BY <1>1, <3>1, <3>2 DEF NamedSure, Apart, Holding, Naming
  <2> QED  BY <1>1, <1>2, <1>3, <1>4, <2>2, <2>3, <2>4, <2>5, RowComes
<1> QED  BY <1>5, <1>6

LEMMA RestoreIds == ASSUME Typed, IdInv, NEW u \in Requests, Restore(u) PROVE IdInv'
<1>1. /\ act \in [Actors -> Acts] /\ act[u] \in Acts /\ act[u].to \in Paths /\ act[u].id \in Ids
      /\ Shaped /\ act[u].step = "restored" /\ u \in Actors
  BY Names, Facts DEF Restore, At, Fielded
<1>2. UNCHANGED <<file, side, owner, lock>> /\ displaced \subseteq displaced'  BY DEF Restore, disk
<1>3. Alone(u) /\ act'[u].step = "idle"  BY <1>1, IdleFields, Sets DEF Restore
<1>4. CASE row' = row  BY <1>1, <1>2, <1>3, <1>4, IdsPlain
<1>5. CASE row' # row
  <2> SUFFICES ASSUME NEW i \in Ids, i = act[u].id PROVE IdInv'  BY <1>1
  <2>1. row' = [row EXCEPT ![i] = [at |-> act[u].to, from |-> None]] /\ row[i].at # None
    BY <1>5 DEF Restore
  <2>2. \A j \in Ids \ {i} : row'[j] = row[j]  BY <1>1, <2>1 DEF Shaped
  <2>3. row'[i].at \in Paths  BY <1>1, <2>1 DEF Shaped
  <2>4. ASSUME NEW q \in Paths, Mine(i)', Parted(i, q) PROVE FALSE
    <3>1. row[i].at \notin Bins  BY <2>4, Names DEF Parted
    <3>2. Strays({i}) \subseteq displaced'  BY <1>5, <3>1 DEF Restore
    <3>3. owner[i] \in Strays({i})  BY <1>1, <1>2, <2>4, MineBefore, PartedStray
    <3> QED  BY <1>2, <2>4, <3>2, <3>3 DEF Mine, Clean
  <2> QED  BY <1>1, <1>2, <1>3, <2>1, <2>2, <2>3, <2>4, RowComes
<1> QED  BY <1>4, <1>5

LEMMA TrashIds == ASSUME Typed, IdInv, NEW u \in Requests, Trash(u) PROVE IdInv'
<1>1. /\ act \in [Actors -> Acts] /\ act[u] \in Acts /\ act[u].at \in Paths /\ act[u].id \in Ids
      /\ act[u].to \in Bins /\ Shaped /\ act[u].step = "trashed" /\ u \in Actors /\ Reserved(u)
  BY Names, Facts DEF Trash, At, Fielded, Binning
<1>2. UNCHANGED <<file, side, owner, lock>> /\ displaced \subseteq displaced'  BY DEF Trash, disk
<1>3. Alone(u) /\ act'[u].step = "idle"  BY <1>1, IdleFields, Sets DEF Trash
<1>4. CASE row' = row  BY <1>1, <1>2, <1>3, <1>4, IdsPlain
<1>5. CASE row' # row
  <2> SUFFICES ASSUME NEW i \in Ids, i = act[u].id, NEW b \in Bins, b = act[u].to PROVE IdInv'
    BY <1>1
  <2>1. /\ row' = [row EXCEPT ![i] = [at |-> b, from |-> act[u].at]] /\ row[i].at # None
        /\ Strays({i}) \ (IF row[i].at = act[u].at THEN {file[b]} ELSE {}) \subseteq displaced'
    BY <1>5 DEF Trash
  <2>2. \A j \in Ids \ {i} : row'[j] = row[j]  BY <1>1, <2>1 DEF Shaped
  <2>3. row'[i] = [at |-> b, from |-> act[u].at] /\ act[u].step \in Binning
    BY <1>1, <2>1 DEF Shaped, Binning
  <2>4. ASSUME NEW q \in Paths, Mine(i)', Parted(i, q)
        PROVE  /\ \A r \in Places : file[r] = owner[i] => Sure(r, i)
               /\ \A y \in Actors \ {u} : act[y].step = "write" => act[y].id # i
    <3>1. Mine(i) /\ owner[i] \in Strays({i}) /\ owner[i] # None
      BY <1>1, <1>2, <2>4, MineBefore, PartedStray, Names DEF Mine, Clean
    <3>2. q = act[u].at /\ file[b] = owner[i] /\ b \in Places /\ q \in Places
      BY <1>1, <1>2, <2>1, <2>4, <3>1, Names DEF Parted, Mine, Clean
    <3>3. ASSUME NEW y \in Actors, act[y].step = "write", act[y].id = i PROVE FALSE
      <4>1. WriteFits(y) /\ NamedAt(y) /\ Naming(y) /\ act[y].at \in Paths
        BY <3>3 DEF IdInv, NamesFit, Naming, Typed, Fields, Fielded, Indexing
      <4>2. act[y].to = q /\ act[y].to # act[y].at
        BY <2>1, <3>1, <3>3, <2>4, <4>1 DEF WriteFits, Carried, Parted
      <4>3. Orphan(b, act[y].at, i)  BY <1>1, <3>1, <3>2, <3>3, <4>1, Names DEF NamedAt, Holding
      <4>4. act[u].at = act[y].at  BY <1>1, <4>3 DEF Orphan, Origin, Binning
      <4> QED  BY <3>2, <4>2, <4>4
    <3>4. BoundFor(q, b)  BY <2>4, <3>3 DEF Parted, BoundFor
    <3>5. Origin(b, q)  BY <1>1, <2>3, <3>2, Names DEF Origin, Reserved, Binning
    <3>6. Orphan(b, q, i) /\ Expected(q, i)  BY <2>4, <3>4, <3>5 DEF Orphan, Parted, Expected
    <3>7. \A r \in Places : file[r] = owner[i] => r = b
      BY <3>1, <3>2 DEF IdInv, Single, Exists
    <3> QED  BY <1>1, <3>3, <3>6, <3>7 DEF Sure
  <2> QED  BY <1>1, <1>2, <1>3, <2>1, <2>2, <2>3, <2>4, RowComes
<1> QED  BY <1>4, <1>5

-----------------------------------------------------------------------------
(* The indexers.                                                             *)

LEMMA ReadIds == ASSUME Typed, SideInv, IdInv, NEW x \in Actors, Read(x) PROVE IdInv'
<1>1. /\ act \in [Actors -> Acts] /\ act[x] \in Acts /\ act[x].at \in Paths /\ Shaped /\ Owned
      /\ act[x].step = "lock"
  BY Facts DEF Read, At, Fielded, Indexing
<1>2. UNCHANGED <<file, side, owner, row>> /\ displaced \subseteq displaced'  BY DEF Read, disk
<1>3. CASE Done(x) /\ UNCHANGED lock
  <2>1. Alone(x) /\ act'[x].step \in {"idle", "next"}  BY <1>1, <1>3, StepsDone, IdleFields
  <2> QED  BY <1>1, <1>2, <1>3, <2>1, IdsPlain
<1>4. CASE ~(Done(x) /\ UNCHANGED lock)
  <2> SUFFICES ASSUME NEW p \in Paths, p = act[x].at PROVE IdInv'  BY <1>1
  <2>1. /\ Exists(p) /\ lock[p] = None /\ lock' = [lock EXCEPT ![p] = x] /\ p \in Places
        /\ act' = [act EXCEPT ![x].id = side[p],
                              ![x].step = IF side[p] # None THEN "upsert" ELSE "match"]
        /\ displaced' = IF side[p] = None /\ Awaited(p) THEN displaced \cup {file[p]} ELSE displaced
    BY <1>4, Names DEF Read
  <2>2. /\ Alone(x) /\ act'[x].id = side[p] /\ act'[x].at = p
        /\ act'[x].step = IF side[p] # None THEN "upsert" ELSE "match"
    BY <1>1, <2>1, Names DEF Alone, Acts, Steps, Shaped
  <2>3. /\ lock'[p] = x /\ \A q \in Paths : lock'[q] = lock[q] \/ lock[q] \in {None, x}
    BY <1>1, <2>1 DEF Shaped
  <2>4. OriginsStay
    <3> SUFFICES ASSUME NEW b \in Bins, NEW q \in Paths, Origin(b, q) PROVE Origin(b, q)'
      BY DEF OriginsStay
    <3>1. ASSUME NEW u \in Requests, act'[u].step \in Binning \cup {"out"} PROVE act'[u] = act[u]
      BY <2>2, <3>1, Names DEF Alone, Binning
    <3> QED  BY <1>2, <3>1 DEF Origin
  <2>5. \A y \in Actors : (Naming(y) \/ act[y].step = "match") => act[y].at # p
    <3>1. \A y \in Actors : HasLock(y) /\ y # None  BY PlacesAssumption DEF IdInv, Heeds
    <3> QED  BY <2>1, <3>1 DEF HasLock
  <2>6. HasLock(x)'  BY <2>2, <2>3 DEF HasLock
  <2>7. \A i \in Ids : Holds(x, i)' => Carried(i)
    BY <2>1, <2>2 DEF Holds, Naming, Carried
  <2>8. \A i \in Ids, q \in Paths : Parted(i, q) => row'[i].at = q  BY <1>2 DEF Parted
  <2>9. CASE side[p] # None
    <3> SUFFICES ASSUME NEW i \in Ids, i = side[p] PROVE IdInv'  BY <1>1, <2>1, <2>9 DEF Shaped
    <3>1. Mine(i)' => owner[i] = file[p] /\ Mine(i)
      <4>1. Fits(i, file[p])  BY <2>1 DEF SideInv, SidesFit, Claimed, Exists
      <4> QED  BY <1>2, <4>1, MineBefore DEF Fits, Mine, Clean
    <3>2. Mine(i)' => \A r \in Places : file[r] = owner[i] => r = p
      BY <2>1, <3>1 DEF IdInv, Single, Exists
    <3>3. NamedAt(x)'  BY <1>2, <2>2, <3>2 DEF NamedAt, Holding
    <3>4. NamedSure(x)'  BY <1>2, <2>2, <3>2 DEF NamedSure, Holding, Sure, Expected
    <3>5. MatchBare(x)'  BY <2>2, <2>9 DEF MatchBare
    <3>6. ASSUME NEW y \in Actors PROVE Apart(x, y)'
      <4> SUFFICES ASSUME Naming(y)', act'[y].id = i, Mine(i)', y # x PROVE FALSE
        BY <2>2, <2>9 DEF Apart
      <4>1. act'[y] = act[y] /\ NamedAt(y) /\ Naming(y)  BY <2>2 DEF Alone, IdInv, NamesFit, Naming
      <4>2. p = act[y].at \/ p \in Bins  BY <2>1, <3>1, <4>1 DEF NamedAt, Holding
      <4> QED  BY <2>5, <4>1, <4>2, Names
    <3> QED
      BY <1>1, <1>2, <2>2, <2>3, <2>4, <2>6, <2>7, <2>8, <2>9, <3>3, <3>4, <3>5, <3>6, IdsCalm
  <2>10. CASE side[p] = None
    <3>1. ~Naming(x)' /\ act'[x].step = "match"  BY <2>2, <2>10 DEF Naming
    <3>2. NamedAt(x)' /\ NamedSure(x)' /\ \A y \in Actors : Apart(x, y)'
      BY <3>1 DEF NamedAt, NamedSure, Apart, Naming
    <3>3. MatchBare(x)'
      <4> SUFFICES ASSUME Clean(file[p])' PROVE Bare(p)'  BY <2>2 DEF MatchBare
      <4>1. ~Awaited(p) /\ Clean(file[p])  BY <1>2, <2>1, <2>10 DEF Clean
      <4>2. ASSUME NEW k \in Ids, Claimed(p, k) PROVE FALSE
        <5>1. PICK y \in Actors : Writes(y, p, k)  BY <2>10, <4>2, Names DEF Claimed
        <5>2. CASE act[y].step = "write"  BY <2>5, <5>1, <5>2 DEF Writes, Naming
        <5>3. CASE act[y].step = "note"
          <6>1. NoteFits(y)  BY DEF IdInv, Heeds
          <6> QED  BY <2>1, <2>10, <4>1, <5>1, <5>3, <6>1, Names DEF NoteFits, Writes
        <5>4. CASE act[y].step = "stamp"
          <6>1. act[y].to \in Bins  BY <5>4 DEF Typed, Fields, Fielded, Binning
          <6> QED  BY <5>1, <5>4, <6>1, Names DEF Writes
        <5> QED  BY <5>1, <5>2, <5>3, <5>4 DEF Writes
      <4>3. \A u \in Requests, k \in Ids : ~Follows(u, p, k)
        BY <4>1 DEF Awaited, Follows, At
      <4> QED  BY <1>1, <1>2, <2>1, <2>2, <3>1, <4>2, <4>3, Unmoved DEF Bare
    <3> QED  BY <1>1, <1>2, <2>2, <2>3, <2>4, <2>6, <2>7, <2>8, <3>1, <3>2, <3>3, IdsCalm
  <2> QED  BY <2>9, <2>10
<1> QED  BY <1>3, <1>4

\* An indexer gets an id to write, and the path of its old sidecar, if any.
LEMMA MatchOn ==
    ASSUME Typed, IdInv, NEW x \in Actors, Alone(x), UNCHANGED <<file, side, row, lock>>,
           displaced \subseteq displaced',
           act[x].step = "match", NEW p \in Paths, act[x].at = p, Exists(p),
           NEW n \in Ids, NEW t \in Paths \cup {None}, t # None => ~Exists(t),
           act'[x].step = "write", act'[x].at = p, act'[x].id = n, act'[x].to = t,
           \A b \in Bins, i \in Ids : Mine(i)' /\ file[b] = owner[i] /\ t # None => ~Orphan(b, t, i),
           \A i \in Ids : Mine(i)' /\ t # None /\ Parted(i, t) => i = n
    PROVE  /\ OrphansStay /\ SureStays /\ PartedStays({x}) /\ FilesArrive({x}) /\ Single'
           /\ \A y \in Actors \ {x} : act'[y] = act[y] /\ Heeds(y)'
           /\ Heeds(x)'
<1>0. /\ \A u \in Requests : u \in Actors
      /\ \A q \in Paths : q \in Places
      /\ \A i \in Ids : Mine(i)' => owner'[i] # None
  BY Names DEF Mine, Clean
<1>1. \A q \in Places, k \in Ids : q # p /\ Claimed(q, k)' => Claimed(q, k)
  <2> SUFFICES ASSUME NEW q \in Places, NEW k \in Ids, q # p, Claimed(q, k)' PROVE Claimed(q, k)
    OBVIOUS
  <2>1. ASSUME NEW y \in Actors, Writes(y, q, k)' PROVE Writes(y, q, k)
    BY <2>1 DEF Writes, Alone
  <2> QED  BY <2>1 DEF Claimed
<1>2. ASSUME NEW u \in Requests
      PROVE  /\ act'[u].step = "follow" <=> act[u].step = "follow"
             /\ act[u].step = "follow" => act'[u] = act[u]
  BY <1>0 DEF Alone
<1>3. \A u \in Requests, q \in Places, k \in Ids : Follows(u, q, k)' <=> Follows(u, q, k)
  BY <1>2 DEF Follows
<1>4. ASSUME NEW q \in Places, NEW i \in Ids, Expected(q, i) PROVE Expected(q, i)'
  <2>1. CASE \E y \in Actors : act[y].step = "write" /\ act[y].at = q /\ act[y].id = i
    BY <2>1 DEF Alone, Expected
  <2> QED  BY <1>3, <1>4, <2>1 DEF Expected
<1>5. \A q \in Places, i \in Ids : q # p /\ OnlyId(q, i) => OnlyId(q, i)'  BY <1>1, <1>2 DEF OnlyId
<1>6. \A y \in Actors, q \in Places :
        Passing(y, q)' => (Passing(y, q) /\ act'[y] = act[y]) \/ (y = x /\ q = t /\ q # None)
  BY Names DEF Passing, Alone
<1>7. \A b \in Bins, q \in Paths : Origin(b, q) => Origin(b, q)'
  <2>1. \A u \in Requests : act'[u].step \in Binning \cup {"out"} => act'[u] = act[u]
    BY <1>0 DEF Alone, Binning
  <2> QED  BY <2>1 DEF Origin
<1>8. ASSUME NEW b \in Bins, NEW q \in Paths, NEW i \in Ids, Mine(i)', file[b] = owner[i],
             Orphan(b, q, i)
      PROVE  Orphan(b, q, i)'
  <2>1. q # p /\ (q # t \/ t = None)  BY <1>8 DEF Orphan
  <2>2. BoundFor(q, b)'  BY <1>0, <1>6, <1>8, <2>1 DEF Orphan, BoundFor
  <2>3. OnlyId(q, i)'  BY <1>0, <1>5, <1>8, <2>1 DEF Orphan
  <2> QED  BY <1>7, <1>8, <2>2, <2>3 DEF Orphan, Exists
<1>9. ASSUME NEW i \in Ids, NEW r \in Places, Mine(i)', file[r] = owner[i], Sure(r, i)
      PROVE  Sure(r, i)'
  <2>1. CASE r \in Paths /\ Expected(r, i)  BY <1>4, <2>1 DEF Sure
  <2>2. CASE r \in Bins /\ side[r] = i  BY <2>2 DEF Sure
  <2>3. ASSUME r \in Bins, NEW q \in Paths, Expected(q, i), Orphan(r, q, i) PROVE Sure(r, i)'
    <3>1. Expected(q, i)' /\ Orphan(r, q, i)'  BY <1>0, <1>4, <1>8, <1>9, <2>3
    <3> QED  BY <2>3, <3>1 DEF Sure
  <2> QED  BY <1>9, <2>1, <2>2, <2>3 DEF Sure
<1>10. ASSUME NEW i \in Ids, NEW q \in Paths, Mine(i)', Parted(i, q) PROVE Parted(i, q)'
  <2>1. q # p /\ q \in Places /\ (q = t /\ t # None => i = n)  BY <1>0, <1>10 DEF Parted
  <2>2. OnlyId(q, i)'  BY <1>5, <1>10, <2>1 DEF Parted
  <2> QED  BY <1>6, <1>10, <2>1, <2>2 DEF Parted, Exists
<1>11. ASSUME NEW y \in Actors PROVE PassesNone(y)'
  <2>1. PassesNone(y)  BY DEF IdInv, Heeds
  <2> QED  BY <1>6, <2>1 DEF PassesNone, Exists
<1>12. ASSUME NEW y \in Actors \ {x} PROVE act'[y] = act[y] /\ Heeds(y)'
  <2>1. act'[y] = act[y] /\ Heeds(y)  BY DEF IdInv, Alone
  <2>2. HasLock(y)' /\ LeftBin(y)' /\ Signed(y)'
    BY <2>1 DEF Heeds, LeftBin, Signed, Exists, HasLock, Naming
  <2>3. NoteFits(y)'  BY <2>1 DEF Heeds, NoteFits, Exists, Clean
  <2>4. MatchBare(y)'
    <3> SUFFICES ASSUME act[y].step = "match", Exists(act[y].at)', Clean(file[act[y].at])'
                 PROVE  Bare(act[y].at)'
      BY <2>1 DEF MatchBare
    <3>1. act[y].at \in Places  BY Names DEF Typed, Fields, Fielded, Indexing
    <3>2. act[y].at # p  BY <2>1 DEF Heeds, HasLock, IdInv
    <3>3. Bare(act[y].at)  BY <2>1 DEF Heeds, MatchBare, Exists, Clean
    <3> QED  BY <1>1, <1>3, <2>1, <3>1, <3>2, <3>3 DEF Bare
  <2> QED  BY <1>11, <2>1, <2>2, <2>3, <2>4 DEF Heeds
<1>13. Heeds(x)'
  <2>1. Heeds(x)  BY DEF IdInv
  <2>2. HasLock(x)'  BY <2>1 DEF Heeds, HasLock
  <2> QED  BY <1>11, <2>2 DEF Heeds, LeftBin, Signed, NoteFits, MatchBare
<1>14. OrphansStay /\ SureStays /\ PartedStays({x}) /\ FilesArrive({x})
  BY <1>8, <1>9, <1>10 DEF OrphansStay, SureStays, PartedStays, FilesArrive
<1>15. Single'  BY DEF IdInv, Single, Exists
<1> QED  BY <1>12, <1>13, <1>14, <1>15

LEMMA MatchIds == ASSUME Typed, SideInv, IdInv, NEW x \in Actors, Match(x) PROVE IdInv'
<1>1. /\ act \in [Actors -> Acts] /\ act[x] \in Acts /\ act[x].at \in Paths /\ Shaped /\ Owned
      /\ act[x].step = "match" /\ Heeds(x) /\ lock[act[x].at] = x
  BY Facts DEF Match, At, Fielded, Indexing, IdInv, Heeds, HasLock
<1>2. UNCHANGED <<file, side, row>>  BY DEF Match, disk
<1>3. CASE Throw(x) /\ UNCHANGED <<owner, displaced>>
  <2>1. Alone(x) /\ act'[x].step \in {"idle", "next"}
    BY <1>1, <1>3, StepsDone, IdleFields DEF Throw
  <2>2. \A p \in Paths : lock'[p] = lock[p] \/ lock[p] \in {None, x}
    BY <1>1, <1>3 DEF Throw, Unlock, Shaped
  <2> QED  BY <1>1, <1>2, <1>3, <2>1, <2>2, IdsPlain
<1>4. CASE ~(Throw(x) /\ UNCHANGED <<owner, displaced>>)
  <2> SUFFICES ASSUME NEW p \in Paths, p = act[x].at PROVE IdInv'  BY <1>1
  <2> DEFINE f == file[p]
  <2>0. Exists(p) /\ lock' = lock /\ p \in Places /\ f \in Files
    BY <1>1, <1>4, Names DEF Match, Exists, Shaped
  <2>1. \A y \in Actors : Naming(y) \/ act[y].step = "match" => act[y].at # p \/ y = x
    BY <1>1 DEF IdInv, Heeds, HasLock
  <2>2. ASSUME NEW j \in Left(p),
               act' = [act EXCEPT ![x].step = "write", ![x].id = side[row[j].at], ![x].to = row[j].at],
               displaced' = IF Taken(j, f) \/ ~Untouched(row[j].at, Actors \ {x})
                            THEN displaced \cup {f, owner[j], owner[side[row[j].at]]} ELSE displaced,
               owner' = owner
        PROVE  IdInv'
    <3> SUFFICES ASSUME NEW q \in Paths, q = row[j].at, NEW k \in Ids, k = side[q] PROVE IdInv'
      BY <1>1, <2>2, Names DEF Left, Shaped
    <3>1. /\ ~Exists(q) /\ j \in Ids /\ Content[owner[j]] = Content[f] /\ q # p /\ q \in Places
          /\ displaced \subseteq displaced' /\ owner[j] # None
      BY <2>0, <2>2, Names DEF Left, Twins, Exists
    <3>2. /\ Alone(x) /\ act'[x].step = "write" /\ act'[x].at = p /\ act'[x].id = k
          /\ act'[x].to = q
      BY <1>1, <2>2, Names DEF Alone, Acts, Steps
    <3>3. ASSUME Mine(k)'
          PROVE  /\ owner[k] = f /\ owner[j] = f /\ j = k /\ Untouched(q, Actors \ {x})
                 /\ \A r \in Places : file[r] = f => r = p
      <4>1. Mine(k)  BY <2>2, <3>1, <3>3, MineBefore
      <4>2. ~Taken(j, f) /\ Untouched(q, Actors \ {x})  BY <2>2, <3>3 DEF Mine, Clean
      <4>3. owner[j] = f /\ owner[k] = f  BY <3>1, <4>2 DEF Taken
      <4>4. Live(j) /\ Live(k)  BY <3>1, Names DEF Live, Carried
      <4>5. j = k  BY <3>1, <4>1, <4>3, <4>4 DEF IdInv, Uniq
      <4>6. \A r \in Places : file[r] = f => r = p  BY <2>0 DEF IdInv, Single, Exists
      <4> QED  BY <4>2, <4>3, <4>5, <4>6
    <3>4. \A i \in Ids : OnlyId(q, i) => i = k  BY DEF OnlyId, Claimed
    <3>5. \A b \in Bins, i \in Ids : Mine(i)' /\ file[b] = owner[i] => ~Orphan(b, q, i)
      <4> SUFFICES ASSUME NEW b \in Bins, Mine(k)', file[b] = owner[k] PROVE FALSE
        BY <3>4 DEF Orphan
      <4> QED  BY <3>3, Names
    <3>6. \A i \in Ids : Parted(i, q) => i = k  BY <3>4 DEF Parted
    <3>7. /\ OrphansStay /\ SureStays /\ PartedStays({x}) /\ FilesArrive({x}) /\ Single'
          /\ \A y \in Actors \ {x} : act'[y] = act[y] /\ Heeds(y)'
          /\ Heeds(x)'
      BY <1>1, <1>2, <2>0, <3>1, <3>2, <3>5, <3>6, MatchOn
    <3>8. LiveBefore({x}, {})
      <4>1. \A i \in Ids : Holds(x, i)' => i = k  BY <3>2 DEF Holds
      <4>2. Carried(k)  BY <3>1 DEF Carried
      <4> QED  BY <1>2, <4>1, <4>2 DEF LiveBefore, Carried
    <3>9. NamedAt(x)'  BY <1>2, <2>2, <3>2, <3>3 DEF NamedAt, Holding
    <3>10. NamedSure(x)'  BY <3>2 DEF NamedSure
    <3>11. WriteFits(x)'
      <4> SUFFICES ASSUME Mine(k)' PROVE Parted(k, q)'
        BY <3>1, <3>2, Names DEF WriteFits
      <4>1. \A y \in Actors \ {x} : act'[y] = act[y] /\ act[y].at # q /\ act[y].to # q
        BY <3>2, <3>3 DEF Untouched, Touches, Alone
      <4>2. OnlyId(q, k)'
        <5>1. \A i \in Ids, y \in Actors : ~Writes(y, q, i)'
          BY <3>1, <3>2, <4>1 DEF Writes
        <5>2. \A i \in Ids : Claimed(q, i)' => i = k  BY <1>2, <5>1 DEF Claimed
        <5>3. \A u \in Requests : ~(act'[u].step = "follow" /\ act'[u].to = q)
          BY <3>2, <4>1, Names
        <5> QED  BY <5>2, <5>3 DEF OnlyId
      <4>3. \A y \in Actors : Passing(y, q)' => y = x  BY <4>1 DEF Passing
      <4> QED  BY <1>2, <3>1, <3>2, <3>3, <4>2, <4>3 DEF Parted, Exists
    <3>12. ASSUME NEW y \in Actors PROVE Apart(x, y)'
      <4> SUFFICES ASSUME Naming(y)', act'[y].id = k, Mine(k)', y # x PROVE FALSE
        BY <3>2 DEF Apart
      <4>1. act'[y] = act[y] /\ NamedAt(y) /\ Naming(y)  BY <3>2 DEF Alone, IdInv, NamesFit, Naming
      <4>2. Mine(k)  BY <2>2, <3>1, MineBefore
      <4>3. p = act[y].at \/ p \in Bins  BY <2>0, <3>3, <4>1, <4>2 DEF NamedAt, Holding
      <4> QED  BY <2>1, <4>1, <4>3, Names
    <3>13. \A z \in {x}, y \in Actors : Apart(z, y)'  BY <3>12
    <3>14. \A z \in {x} : Heeds(z)' /\ NamesFit(z)'  BY <3>7, <3>9, <3>10, <3>11 DEF NamesFit
    <3> QED  BY <2>2, <3>1, <3>7, <3>8, <3>13, <3>14, IdsOn
  <2>3. ASSUME Left(p) = {}, Binned(p) = {},
               NEW i \in Ids, IF Embedded[f] # None THEN i = Embedded[f] ELSE i \in Fresh,
               act' = [act EXCEPT ![x].step = "write", ![x].id = i, ![x].to = None],
               owner' = [owner EXCEPT ![i] = f],
               displaced' = IF Shared(i, f) THEN displaced \cup {f, owner[i]} ELSE displaced
        PROVE  IdInv'
    <3>1. /\ Alone(x) /\ act'[x].step = "write" /\ act'[x].at = p /\ act'[x].id = i
          /\ act'[x].to = None
      BY <1>1, <2>3, Names DEF Alone, Acts, Steps
    <3>2. /\ displaced \subseteq displaced' /\ owner'[i] = f
          /\ \A j \in Ids \ {i} : owner'[j] = owner[j]
      BY <1>1, <2>3 DEF Shaped
    <3>3. ~Mine(i)
      <4> SUFFICES ASSUME Mine(i) PROVE FALSE  OBVIOUS
      <4>1. owner[i] # None /\ Embedded[owner[i]] = None  BY Names DEF Mine, Clean
      <4>2. Embedded[f] = i  BY <2>3, <4>1 DEF Fresh
      <4> QED  BY <2>0, <4>1, <4>2 DEF IdInv, Marked
    <3>4. Mine(i)' => Clean(f) /\ i \in Fresh /\ f = file[p]
      BY <2>3, <3>2 DEF Mine, Clean
    <3>5. \A j \in Ids \ {i} : Mine(j)' => Mine(j)  BY <3>2 DEF Mine, Clean
    <3>7. /\ OrphansStay /\ SureStays /\ PartedStays({x}) /\ FilesArrive({x}) /\ Single'
          /\ \A y \in Actors \ {x} : act'[y] = act[y] /\ Heeds(y)'
          /\ Heeds(x)'
      BY <1>1, <1>2, <2>0, <3>1, <3>2, MatchOn
    <3>8. ASSUME Mine(i)', NEW y \in Actors \ {x} PROVE ~Holds(y, i)
      <4>1. owner[i] = None  BY <3>4, <3>8 DEF Fresh
      <4> QED  BY <4>1, Names DEF Holds, Naming, Typed, Fields, Fielded, Made
    <3>9. ASSUME Mine(i)' PROVE ~Carried(i)
      BY <1>1, <3>4, <3>9, Names DEF Fresh, Carried, Owned, Made
    <3>10. \A r \in Places : file[r] = f => r = p  BY <2>0 DEF IdInv, Single, Exists
    <3>11. ASSUME NEW j \in Ids \ {i}, owner[j] = f, Clean(f), Live(j) PROVE FALSE
      <4>1. Sure(p, j) \/ \E q \in Paths : Parted(j, q)
        BY <2>0, <3>11 DEF IdInv, Found, Mine, Holding
      <4>2. Bare(p)  BY <1>1, <2>0, <3>11 DEF Heeds, MatchBare
      <4>3. CASE Sure(p, j)
        <5>1. Expected(p, j)  BY <4>3, Names DEF Sure
        <5> QED  BY <4>2, <5>1 DEF Bare, Expected, Claimed, Writes
      <4>4. ASSUME NEW q \in Paths, Parted(j, q) PROVE FALSE
        <5>1. j \in Twins(p) /\ row[j].at = q /\ side[q] = j /\ ~Exists(q)
          BY <2>0, <3>11, <4>4, Names DEF Parted, Twins, Exists
        <5> QED  BY <2>3, <5>1, Names DEF Left
      <4> QED  BY <4>1, <4>3, <4>4
    <3>12. LiveBefore({x}, {i})
      <4>1. \A j \in Ids : Holds(x, j)' => j = i  BY <3>1 DEF Holds
      <4> QED  BY <1>2, <4>1 DEF LiveBefore, Carried
    <3>13. IdsMade({x}, {i})
      <4>1. ASSUME Mine(i)', NEW j \in Ids \ {i}, owner'[j] = owner'[i], Live(j)' PROVE FALSE
        <5>1. owner[j] = f /\ Clean(f)  BY <3>2, <3>4, <4>1
        <5>2. ASSUME NEW y \in Actors, Holds(y, j)' PROVE Holds(y, j)
          BY <3>1, <4>1, <5>2 DEF Holds, Naming, Alone
        <5>3. Live(j)  BY <1>2, <4>1, <5>2 DEF Live, Carried
        <5> QED  BY <3>11, <4>1, <5>1, <5>3
      <4>2. ASSUME Mine(i)', NEW r \in Places, file'[r] = owner'[i] PROVE Sure(r, i)'
        <5>1. r = p  BY <1>2, <3>2, <3>10, <4>2
        <5> QED  BY <3>1, <5>1 DEF Sure, Expected
      <4>3. ASSUME Mine(i)', NEW y \in Actors \ {x}, Naming(y) PROVE act[y].id # i
        BY <3>8, <4>3 DEF Holds
      <4> QED  BY <3>2, <3>5, <4>1, <4>2, <4>3 DEF IdsMade
    <3>14. Marked'
      <4> SUFFICES ASSUME NEW j \in Ids, owner'[j] # None
                   PROVE  IF Embedded[owner'[j]] = None THEN \A g \in Files : Embedded[g] # j
                          ELSE j = Embedded[owner'[j]]
        BY DEF Marked
      <4>1. CASE j = i  BY <2>3, <3>2, <4>1 DEF Fresh
      <4>2. CASE j # i  BY <3>2, <4>2 DEF IdInv, Marked
      <4> QED  BY <4>1, <4>2
    <3>15. NamesFit(x)'
      <4>1. WriteFits(x)'
        <5> SUFFICES ASSUME Mine(i)'
                     PROVE  ~Carried(i)' /\ \A y \in Actors \ {x} : ~Holds(y, i)'
          BY <3>1 DEF WriteFits
        <5>1. ~Carried(i)'  BY <1>2, <3>9 DEF Carried
        <5>2. \A y \in Actors \ {x} : ~Holds(y, i)'  BY <3>1, <3>8 DEF Holds, Naming, Alone
        <5> QED  BY <5>1, <5>2
      <4>2. NamedAt(x)'  BY <1>2, <3>1, <3>2, <3>10 DEF NamedAt, Holding
      <4>3. NamedSure(x)'  BY <3>1 DEF NamedSure
      <4> QED  BY <4>1, <4>2, <4>3 DEF NamesFit
    <3>16. ASSUME NEW y \in Actors PROVE Apart(x, y)'
      <4> SUFFICES ASSUME Naming(y)', act'[y].id = i, Mine(i)', y # x PROVE FALSE
        BY <3>1 DEF Apart
      <4>1. act'[y] = act[y]  BY <3>1 DEF Alone
      <4> QED  BY <3>8, <4>1 DEF Holds, Naming
    <3>17. \A z \in {x}, y \in Actors : Apart(z, y)'  BY <3>16
    <3>18. \A z \in {x} : Heeds(z)' /\ NamesFit(z)'  BY <3>7, <3>15
    <3> QED  BY <3>7, <3>12, <3>13, <3>14, <3>17, <3>18, IdsFrom
  <2>4. \/ \E j \in Left(p) :
             /\ act' = [act EXCEPT ![x].step = "write", ![x].id = side[row[j].at], ![x].to = row[j].at]
             /\ displaced' = IF Taken(j, f) \/ ~Untouched(row[j].at, Actors \ {x})
                             THEN displaced \cup {f, owner[j], owner[side[row[j].at]]} ELSE displaced
             /\ owner' = owner
        \/ /\ Left(p) = {} /\ Binned(p) = {}
           /\ \E i \in Ids :
                /\ IF Embedded[f] # None THEN i = Embedded[f] ELSE i \in Fresh
                /\ act' = [act EXCEPT ![x].step = "write", ![x].id = i, ![x].to = None]
                /\ owner' = [owner EXCEPT ![i] = f]
                /\ displaced' = IF Shared(i, f) THEN displaced \cup {f, owner[i]} ELSE displaced
    <3>1. Embedded[f] \in Ids \cup {None}  BY <2>0, PlacesAssumption
    <3> QED  BY <1>4, <2>0, <3>1 DEF Match, Fresh
  <2> QED  BY <2>2, <2>3, <2>4
<1> QED  BY <1>3, <1>4

-----------------------------------------------------------------------------
(* Sidecars.                                                                 *)

\* What an operation writes, brings or takes beside a place.
Brings(x, q, k) ==
    \/ Writes(x, q, k)
    \/ act[x].step \in {"follow", "carry"} /\ act[x].to = q /\ side[act[x].at] = k
Sided(x, q) ==
    \/ side'[q] = side[q]
    \/ side'[q] = None /\ Passing(x, q) /\ act[x].step \in {"sweep", "unlink", "carry", "follow"}
    \/ \E k \in Ids : side'[q] = k /\ Brings(x, q, k)
\* An operation goes on.
Passes(x) ==
    /\ act'[x].at = act[x].at /\ act'[x].to = act[x].to /\ act'[x].id = act[x].id
    /\ act'[x].seen = act[x].seen
    /\ \/ act[x].step = "write" /\ act'[x].step = (IF act[x].to # None THEN "sweep" ELSE "upsert")
          /\ side'[act[x].at] = act[x].id
       \/ act[x].step = "sweep" /\ act'[x].step = "upsert"
       \/ act[x].step = "note" /\ act'[x].step = "lock"
       \/ act[x].step = "stamp" /\ act'[x].step = "unlink" /\ side'[act[x].to] # None
       \/ act[x].step = "unlink" /\ act'[x].step = "trashed"
       \/ act[x].step = "carry" /\ act'[x].step = "trashed"
          /\ (side[act[x].at] # None => side'[act[x].to] = side[act[x].at])
       \/ act[x].step = "follow" /\ act'[x].step = "restored"
          /\ (side[act[x].at] # None => side'[act[x].to] = side[act[x].at])

\* What is beside a place, for the files OneId is about.
LEMMA BringsFit ==
    ASSUME Typed, SideInv, IdInv, NEW x \in Actors, NEW q \in Places, NEW k \in Ids, Brings(x, q, k),
           Exists(q), file[q] \notin displaced
    PROVE  owner[k] = file[q] /\ Live(k)
<1>1. CASE Writes(x, q, k)
  <2>1. Fits(k, file[q])  BY <1>1 DEF SideInv, SidesFit, Claimed, Exists
  <2>2. Holds(x, k)  BY <1>1 DEF Writes, Holds, Naming
  <2> QED  BY <2>1, <2>2 DEF Fits, Live
<1>2. CASE act[x].step = "follow" /\ act[x].to = q /\ side[act[x].at] = k
  <2>1. x \in Requests /\ act[x].at \in Places  BY <1>2 DEF Typed, Fields, Fielded, ReqSteps
  <2>2. act[x].at \in Bins \/ act[x].at \in Paths  BY <2>1 DEF Places
  <2>3. Claimed(act[x].at, k)  BY <1>2 DEF Claimed
  <2>4. Fits(k, file[q])
    BY <1>2, <2>1, <2>2, <2>3, Names DEF SideInv, FollowFits, FollowAstray, Exists
  <2> QED  BY <1>2, <2>1, <2>4 DEF Fits, Live, Carried
<1>3. CASE act[x].step = "carry" /\ act[x].to = q /\ side[act[x].at] = k
  <2>1. x \in Requests /\ act[x].at \in Places
    BY <1>3, Names DEF Typed, Fields, Fielded, ReqSteps, Binning
  <2>2. Fits(k, file[q])  BY <1>3, <2>1 DEF SideInv, CarryFits, Claimed
  <2> QED  BY <1>3, <2>1, <2>2 DEF Fits, Live, Carried
<1> QED  BY <1>1, <1>2, <1>3 DEF Brings

\* A restore keeps the sidecar it moves.
LEMMA FollowedStays ==
    ASSUME Typed, IdInv, NEW x \in Actors, NEW u \in Requests, u # x, act[u].step = "follow",
           act[u].at \in Bins, Sided(x, act[u].at)
    PROVE  side'[act[u].at] = side[act[u].at]
<1>0. u \in Actors /\ Fielded(act[x])  BY Names DEF Typed, Fields
<1> DEFINE b == act[u].at
<1>1. ASSUME act[x].step \in Binning PROVE act[x].to # b /\ act[x].at # b
  <2>1. x \in Requests /\ act[x].at \in Paths  BY <1>0, <1>1 DEF Typed, Fields, ReqSteps, Binning, Fielded
  <2>2. Reserved(x)  BY <2>1 DEF Typed
  <2> QED  BY <1>0, <1>1, <2>1, <2>2, Names DEF Reserved
<1>2. ~Passing(x, b)
  <2>1. CASE act[x].step = "follow"  BY <1>0, <2>1 DEF IdInv, Apart, Passing
  <2>2. CASE act[x].step # "follow"  BY <1>0, <1>1, <2>2, Names DEF Passing, Fielded, Binning
  <2> QED  BY <2>1, <2>2
<1>3. \A k \in Ids : ~Brings(x, b, k)
  BY <1>0, <1>1, Names DEF Brings, Writes, Fielded, Binning, Indexing
<1> QED  BY <1>2, <1>3 DEF Sided

\* A step that writes, moves or removes sidecars.
LEMMA SideOn ==
    ASSUME Typed, SideInv, IdInv, NEW x \in Actors, Alone(x),
           UNCHANGED <<file, row, owner, lock, displaced>>,
           Passes(x), \A q \in Places : Sided(x, q)
    PROVE  IdInv'
<1>0. /\ \A u \in Requests : u \in Actors
      /\ \A q \in Paths : q \in Places /\ q \notin Bins
      /\ \A q \in Bins : q \in Places
      /\ None \notin Places /\ None \notin Ids
      /\ \A i \in Ids : Mine(i) => owner[i] # None /\ owner[i] \notin displaced
  BY Names DEF Mine, Clean
<1>1. /\ act'[x].at = act[x].at /\ act'[x].to = act[x].to /\ act'[x].id = act[x].id
      /\ act'[x].seen = act[x].seen
      /\ act'[x].step \in {"sweep", "upsert", "lock", "unlink", "trashed", "restored"}
      /\ \A y \in Actors \ {x} : act'[y] = act[y]
      /\ Naming(x)' => Naming(x)
  BY DEF Passes, Alone, Naming
<1>2. ASSUME NEW y \in Actors
      PROVE  /\ Fielded(act[y]) /\ Heeds(y) /\ NamesFit(y)
             /\ act[y].step \in ReqSteps => y \in Requests
  BY DEF Typed, Fields, IdInv
<1>3. ASSUME NEW q \in Places, NEW k \in Ids, Brings(x, q, k)
      PROVE  Claimed(q, k) \/ (act[x].step \in {"follow", "carry"} /\ act[x].to = q /\ side[act[x].at] = k)
  BY <1>3 DEF Brings, Claimed
<1>4. ASSUME NEW q \in Places, NEW k \in Ids, Claimed(q, k)'
      PROVE  Claimed(q, k) \/ (act[x].step \in {"follow", "carry"} /\ act[x].to = q /\ side[act[x].at] = k)
  <2>1. ASSUME NEW y \in Actors, Writes(y, q, k)' PROVE Writes(y, q, k)
    BY <1>1, <2>1 DEF Writes
  <2>2. CASE side'[q] = k
    <3>1. Sided(x, q)  OBVIOUS
    <3>2. side[q] = k \/ Brings(x, q, k)  BY <1>0, <2>2, <3>1 DEF Sided
    <3> QED  BY <1>3, <3>2 DEF Claimed
  <2> QED  BY <1>4, <2>1, <2>2 DEF Claimed
<1>5. ASSUME NEW u \in Requests, act'[u].step = "follow"
      PROVE  /\ u # x /\ u \in Actors /\ act'[u] = act[u] /\ act[u].at \in Places
             /\ act[u].at \in Bins => side'[act[u].at] = side[act[u].at]
  <2>1. u # x /\ u \in Actors /\ act'[u] = act[u]  BY <1>0, <1>1, <1>5
  <2>2. act[u].at \in Places  BY <1>2, <1>5, <2>1 DEF Fielded
  <2>3. ASSUME act[u].at \in Bins PROVE side'[act[u].at] = side[act[u].at]
    <3>1. Sided(x, act[u].at)  BY <2>2
    <3> QED  BY <1>5, <2>1, <2>3, <3>1, FollowedStays
  <2> QED  BY <2>1, <2>2, <2>3
<1>6. ASSUME NEW q \in Paths, NEW i \in Ids, OnlyId(q, i), NEW k \in Ids, Brings(x, q, k) PROVE k = i
  <2>1. Claimed(q, k) => k = i  BY <1>6 DEF OnlyId
  <2>2. CASE act[x].step = "follow" /\ act[x].to = q /\ side[act[x].at] = k
    <3>1. x \in Requests  BY <1>2, <2>2 DEF ReqSteps
    <3> QED  BY <1>0, <1>6, <2>2, <3>1 DEF OnlyId
  <2>3. CASE act[x].step = "carry" /\ act[x].to = q
    BY <1>0, <1>2, <2>3 DEF Fielded, Binning
  <2> QED  BY <1>0, <1>3, <1>6, <2>1, <2>2, <2>3
<1>7. ASSUME NEW q \in Paths, NEW i \in Ids, OnlyId(q, i) PROVE OnlyId(q, i)'
  <2>1. ASSUME NEW k \in Ids, Claimed(q, k)' PROVE k = i
    <3>1. Claimed(q, k) \/ Brings(x, q, k)  BY <1>0, <1>4, <2>1 DEF Brings
    <3> QED  BY <1>6, <1>7, <3>1 DEF OnlyId
  <2>2. ASSUME NEW u \in Requests, act'[u].step = "follow", act'[u].to = q
        PROVE  act'[u].at \in Bins /\ side'[act'[u].at] \in {None, i}
    BY <1>5, <1>7, <2>2 DEF OnlyId
  <2> QED  BY <2>1, <2>2 DEF OnlyId
<1>8. \A y \in Actors, q \in Places : Passing(y, q)' =>
        Passing(y, q) /\ (act[y].step \in Binning => act'[y].step \in Binning) /\ act'[y].to = act[y].to
  <2> SUFFICES ASSUME NEW y \in Actors, NEW q \in Places, Passing(y, q)'
               PROVE  /\ Passing(y, q) /\ (act[y].step \in Binning => act'[y].step \in Binning)
                      /\ act'[y].to = act[y].to
    OBVIOUS
  <2>1. CASE y = x  BY <2>1 DEF Passing, Passes, Binning
  <2>2. CASE y # x  BY <1>1, <2>2 DEF Passing
  <2> QED  BY <2>1, <2>2
<1>9. ASSUME NEW b \in Bins, NEW p \in Paths, NEW i \in Ids, Orphan(b, p, i) PROVE Orphan(b, p, i)'
  <2>1. ~Exists(p)' /\ OnlyId(p, i)'  BY <1>7, <1>9 DEF Orphan, Exists
  <2>2. BoundFor(p, b)'
    <3>1. BoundFor(p, b)  BY <1>9 DEF Orphan
    <3> QED  BY <1>0, <1>8, <3>1 DEF BoundFor
  <2>3. ASSUME NEW u \in Requests, act'[u].step \in Binning \cup {"out"}
        PROVE  /\ act'[u].at = act[u].at /\ act'[u].to = act[u].to
               /\ act'[u].step \in Binning => act[u].step \in Binning
               /\ act'[u].step = "out" => act[u].step = "out"
    <3>1. CASE u = x  BY <2>3, <3>1 DEF Passes, Binning
    <3>2. CASE u # x  BY <1>0, <1>1, <3>2
    <3> QED  BY <3>1, <3>2
  <2>4. Origin(b, p)'
    <3>1. Origin(b, p)  BY <1>9 DEF Orphan
    <3> QED  BY <2>3, <3>1 DEF Origin
  <2> QED  BY <2>1, <2>2, <2>4 DEF Orphan
\* A sidecar that is in its place, or on its way there.
<1>10. ASSUME NEW q \in Places, NEW i \in Ids, Expected(q, i), side[q] = i => side'[q] = i
       PROVE  Expected(q, i)'
  <2>1. CASE side[q] = i  BY <1>10, <2>1 DEF Expected
  <2>2. ASSUME NEW y \in Actors, act[y].step = "write", act[y].at = q, act[y].id = i
        PROVE  Expected(q, i)'
    <3>1. CASE y = x  BY <2>2, <3>1 DEF Passes, Expected
    <3>2. CASE y # x  BY <1>1, <2>2, <3>2 DEF Expected
    <3> QED  BY <3>1, <3>2
  <2>3. ASSUME NEW u \in Requests, Follows(u, q, i) PROVE Expected(q, i)'
    <3>1. CASE u = x  BY <1>0, <2>3, <3>1 DEF Passes, Expected, Follows
    <3>2. CASE u # x
      <4>1. act'[u] = act[u]  BY <1>0, <1>1, <3>2
      <4>2. Follows(u, q, i)'  BY <1>5, <2>3, <4>1 DEF Follows
      <4> QED  BY <4>2 DEF Expected
    <3> QED  BY <3>1, <3>2
  <2> QED  BY <1>10, <2>1, <2>2, <2>3 DEF Expected
<1>11. ASSUME NEW q \in Places, NEW i \in Ids, Mine(i), Live(i), file[q] = owner[i], side[q] = i
       PROVE  side'[q] = i
  <2>1. Exists(q) /\ file[q] \notin displaced  BY <1>0, <1>11 DEF Exists
  <2>2. ~Passing(x, q)  BY <1>2, <2>1 DEF Heeds, PassesNone
  <2>3. ASSUME NEW k \in Ids, Brings(x, q, k) PROVE k = i
    <3>1. owner[k] = owner[i] /\ Live(k)  BY <1>11, <2>1, <2>3, BringsFit
    <3> QED  BY <1>11, <3>1 DEF IdInv, Uniq
  <2>4. Sided(x, q)  OBVIOUS
  <2> QED  BY <1>11, <2>2, <2>3, <2>4 DEF Sided
<1>12. ASSUME NEW i \in Ids, NEW r \in Places, Mine(i), Live(i), file[r] = owner[i], Sure(r, i)
       PROVE  Sure(r, i)'
  <2>1. CASE r \in Paths /\ Expected(r, i)  BY <1>10, <1>11, <1>12, <2>1 DEF Sure
  <2>2. CASE r \in Bins /\ side[r] = i  BY <1>11, <1>12, <2>2 DEF Sure
  <2>3. ASSUME r \in Bins, NEW p \in Paths, Expected(p, i), Orphan(r, p, i) PROVE Sure(r, i)'
    <3>1. Orphan(r, p, i)' /\ p \in Places  BY <1>0, <1>9, <2>3
    <3>2. CASE side[p] = i => side'[p] = i  BY <1>10, <2>3, <3>1, <3>2 DEF Sure
    <3>3. CASE side[p] = i /\ side'[p] # i
      <4>1. Passing(x, p) /\ act[x].step \in {"sweep", "unlink", "carry", "follow"}
        <5>1. Sided(x, p)  BY <3>1
        <5>2. \A k \in Ids : Brings(x, p, k) => k = i  BY <1>6, <2>3 DEF Orphan
        <5> QED  BY <3>3, <5>1, <5>2 DEF Sided
      <4>2. act[x].step \in Binning /\ act[x].to = r  BY <2>3, <4>1 DEF Orphan, BoundFor
      <4>3. act[x].at = p /\ act[x].step \in {"unlink", "carry"}
        BY <4>1, <4>2 DEF Passing, Binning
      <4>4. CASE act[x].step = "carry"
        <5>1. side'[r] = i  BY <1>0, <3>3, <4>2, <4>3, <4>4 DEF Passes
        <5> QED  BY <2>3, <5>1 DEF Sure
      <4>5. CASE act[x].step = "unlink"
        <5>1. side[r] # None  BY <1>2, <4>2, <4>5 DEF Heeds, Signed
        <5>2. Exists(r) /\ file[r] \notin displaced /\ r # p  BY <1>0, <1>12, <2>3 DEF Exists
        <5>3. side[r] \in Ids  BY <5>1 DEF Typed, TypeOK
        <5>4. Fits(side[r], file[r])  BY <5>2, <5>3 DEF SideInv, SidesFit, Claimed, Exists
        <5>5. side[r] = i
          BY <1>12, <5>2, <5>3, <5>4 DEF IdInv, Uniq, Fits, Live, Carried
        <5>6. side'[r] = i  BY <1>11, <1>12, <5>5
        <5> QED  BY <2>3, <5>6 DEF Sure
      <4> QED  BY <4>3, <4>4, <4>5
    <3> QED  BY <3>2, <3>3
  <2> QED  BY <1>12, <2>1, <2>2, <2>3 DEF Sure
<1>13. ASSUME NEW p \in Paths, p = act[x].at, act[x].step = "write", NEW i \in Ids, i = act[x].id, Mine(i),
              NEW r \in Places, file[r] = owner[i]
       PROVE  Sure(r, i)'
  <2>1. Expected(p, i)'  BY <1>13 DEF Passes, Expected
  <2>2. r = p \/ (r \in Bins /\ Orphan(r, p, i))
    BY <1>2, <1>13 DEF NamesFit, NamedAt, Naming, Holding
  <2> QED  BY <1>9, <2>1, <2>2 DEF Sure
<1>14. OrphansStay  BY <1>9 DEF OrphansStay
<1>15. \A i \in Ids : Mine(i)' => Mine(i) /\ owner'[i] = owner[i]  BY MineBefore
<1>16. SureStays  BY <1>12, <1>15 DEF SureStays
<1>17. PartedStays({x})
  <2> SUFFICES ASSUME NEW i \in Ids, NEW q \in Paths, Mine(i), Live(i), Parted(i, q)
               PROVE  \/ Parted(i, q)'
                      \/ /\ \A r \in Places : file[r] = owner[i] => Sure(r, i)'
                         /\ \A y \in Actors \ {x} : act[y].step = "write" => act[y].id # i
    BY <1>15 DEF PartedStays
  <2>1. side'[q] = i
    <3>1. Sided(x, q) /\ side[q] = i  BY <1>0 DEF Parted
    <3>2. \A k \in Ids : Brings(x, q, k) => k = i  BY <1>6 DEF Parted
    <3>3. Passing(x, q) => act[x].step = "write"  BY DEF Parted
    <3> QED  BY <3>1, <3>2, <3>3 DEF Sided
  <2>2. OnlyId(q, i)'  BY <1>7 DEF Parted
  <2>3. CASE ~Passing(x, q)'
    <3>1. ASSUME NEW y \in Actors, Passing(y, q)'
          PROVE  act'[y].step = "write" /\ act'[y].to = q /\ act'[y].id = i
      BY <1>0, <1>1, <1>8, <2>3, <3>1 DEF Parted
    <3> QED  BY <2>1, <2>2, <3>1 DEF Parted, Exists
  <2>4. CASE Passing(x, q)'
    <3>1. act[x].step = "write" /\ act[x].id = i  BY <1>0, <1>8, <2>4 DEF Parted
    <3>2. act[x].at \in Paths  BY <1>2, <3>1 DEF Fielded, Indexing
    <3>3. \A r \in Places : file[r] = owner[i] => Sure(r, i)'  BY <1>13, <3>1, <3>2
    <3>4. \A y \in Actors \ {x} : act[y].step = "write" => act[y].id # i
      BY <3>1 DEF IdInv, Apart, Naming
    <3> QED  BY <3>3, <3>4
  <2> QED  BY <2>3, <2>4
<1>18. FilesArrive({x})  BY DEF FilesArrive
<1>19. LiveBefore({x}, {})
  <2>1. ASSUME NEW i \in Ids, Holds(x, i)' PROVE Holds(x, i)
    BY <1>1, <2>1 DEF Holds
  <2>2. ASSUME NEW i \in Ids, NEW p \in Places, side'[p] = i PROVE Carried(i) \/ Holds(x, i)
    <3>1. side[p] = i \/ Brings(x, p, i)
      <4>1. Sided(x, p)  OBVIOUS
      <4> QED  BY <1>0, <2>2, <4>1 DEF Sided
    <3>2. CASE Writes(x, p, i)  BY <3>2 DEF Writes, Holds, Naming
    <3>3. CASE act[x].step \in {"follow", "carry"} /\ side[act[x].at] = i
      <4>1. act[x].at \in Places  BY <1>0, <1>2, <3>3 DEF Fielded, Binning
      <4> QED  BY <3>3, <4>1 DEF Carried
    <3> QED  BY <3>1, <3>2, <3>3 DEF Brings, Carried
  <2>3. \A i \in Ids : Carried(i)' => Carried(i) \/ Holds(x, i)  BY <2>2 DEF Carried
  <2> QED  BY <2>1, <2>3 DEF LiveBefore
<1>20. \A y \in Actors : PassesNone(y)'  BY <1>2, <1>8 DEF Heeds, PassesNone, Exists
<1>21. ASSUME NEW y \in Actors \ {x} PROVE act'[y] = act[y] /\ Heeds(y)'
  <2>0. act'[y] = act[y] /\ y \in Actors  BY <1>1
  <2>1. HasLock(y)' /\ LeftBin(y)'  BY <1>2, <2>0 DEF Heeds, LeftBin, Exists, HasLock, Naming
  <2>2. Signed(y)'
    <3> SUFFICES ASSUME act[y].step = "unlink" PROVE side'[act[y].to] # None
      BY <2>0 DEF Signed
    <3>1. side[act[y].to] # None /\ act[y].to \in Places /\ y \in Requests
      BY <1>0, <1>2 DEF Heeds, Signed, Fielded, Binning, ReqSteps
    <3>2. Reserved(y)  BY <3>1 DEF Typed
    <3>3. ~Passing(x, act[y].to)  BY <1>0, <3>1, <3>2 DEF Reserved, Binning, Passing
    <3>4. Sided(x, act[y].to)  BY <3>1
    <3> QED  BY <1>0, <3>1, <3>3, <3>4 DEF Sided
  <2>3. NoteFits(y)'
    <3> SUFFICES ASSUME act[y].step = "note", NEW p \in Places, p = act[y].at,
                        Exists(p), Clean(file[p])
                 PROVE  side'[p] = act[y].seen
      BY <1>0, <1>2, <2>0 DEF NoteFits, Exists, Clean, Fielded
    <3>1. side[p] = act[y].seen /\ act[y].seen \in Ids
      BY <1>2 DEF Heeds, NoteFits, Fielded, Made
    <3> SUFFICES ASSUME NEW k \in Ids, k = act[y].seen PROVE side'[p] = k
      BY <3>1
    <3>2. Fits(k, file[p])  BY <3>1 DEF SideInv, SidesFit, Claimed, Exists
    <3>3. owner[k] = file[p] /\ Mine(k) /\ Live(k)
      BY <3>1, <3>2 DEF Fits, Clean, Mine, Live, Carried
    <3> QED  BY <1>11, <3>1, <3>3
  <2>4. MatchBare(y)'
    <3> SUFFICES ASSUME act[y].step = "match", NEW p \in Paths, p = act[y].at,
                        Exists(p), Clean(file[p])
                 PROVE  Bare(p)'
      BY <1>2, <2>0 DEF MatchBare, Exists, Clean, Fielded, Indexing
    <3>1. Bare(p) /\ p \in Places /\ file[p] \notin displaced /\ file[p] # None
      BY <1>0, <1>2 DEF Heeds, MatchBare, Exists, Clean
    <3>2. ASSUME NEW k \in Ids, Claimed(p, k)' PROVE FALSE
      <4>1. act[x].step \in {"follow", "carry"} /\ act[x].to = p /\ side[act[x].at] = k
        BY <1>4, <3>1, <3>2 DEF Bare
      <4>2. act[x].step = "follow" /\ x \in Requests /\ act[x].at \in Places
        BY <1>0, <1>2, <4>1 DEF Fielded, Binning, ReqSteps
      <4>3. act[x].at \notin Bins  BY <3>1, <4>1, <4>2 DEF Bare, Follows
      <4>4. FollowAstray(x)  BY <4>2, <4>3 DEF SideInv, Places
      <4> QED  BY <3>1, <4>1, <4>4 DEF FollowAstray
    <3>3. ASSUME NEW k \in Ids, NEW u \in Requests, Follows(u, p, k)' PROVE FALSE
      <4>1. Follows(u, p, k)  BY <1>5, <3>3 DEF Follows
      <4> QED  BY <3>1, <4>1 DEF Bare
    <3> QED  BY <3>2, <3>3 DEF Bare
  <2> QED  BY <1>20, <2>0, <2>1, <2>2, <2>3, <2>4 DEF Heeds
<1>22. Heeds(x)'
  <2>1. HasLock(x)'  BY <1>1, <1>2 DEF Heeds, HasLock
  <2>2. Signed(x)'  BY DEF Signed, Passes
  <2> QED  BY <1>1, <1>20, <2>1, <2>2 DEF Heeds, LeftBin, NoteFits, MatchBare
<1>23. NamesFit(x)'
  <2>1. WriteFits(x)'  BY <1>1 DEF WriteFits
  <2> SUFFICES ASSUME Naming(x), Naming(x)', NEW i \in Ids, i = act[x].id, NEW p \in Paths, p = act[x].at, Mine(i),
                      NEW r \in Places, file[r] = owner[i]
               PROVE  /\ r = p \/ (r \in Bins /\ Orphan(r, p, i)')
                      /\ Sure(r, i)'
    <3>1. Naming(x) => act[x].id \in Ids /\ act[x].at \in Paths
      BY <1>2 DEF Naming, Fielded, Indexing, Made
    <3>2. Naming(x)' /\ Mine(act[x].id)' => Naming(x) /\ Mine(act[x].id) /\ owner'[act[x].id] = owner[act[x].id]
      BY <1>1, <1>15, <3>1
    <3>3. NamedAt(x)'  BY <1>1, <3>1, <3>2 DEF NamedAt, Holding
    <3>4. NamedSure(x)'  BY <1>1, <3>1, <3>2 DEF NamedSure, Holding, Naming
    <3> QED  BY <2>1, <3>3, <3>4 DEF NamesFit
  <2>2. r = p \/ (r \in Bins /\ Orphan(r, p, i)')
    BY <1>2, <1>9 DEF NamesFit, NamedAt, Holding
  <2>3. CASE act[x].step = "write"  BY <1>13, <2>2, <2>3
  <2>4. CASE act[x].step = "sweep"
    <3>1. Sure(r, i)  BY <1>2, <2>4 DEF NamesFit, NamedSure, Holding
    <3>2. Live(i)  BY <2>4 DEF Live, Holds
    <3> QED  BY <1>12, <2>2, <3>1, <3>2
  <2>5. act[x].step # "upsert"  BY DEF Passes
  <2> QED  BY <2>3, <2>4, <2>5 DEF Naming
<1>24. ASSUME NEW y \in Actors PROVE Apart(x, y)'
  <2>0. act'[x].step # "follow"  BY <1>1
  <2> SUFFICES ASSUME y # x, Naming(x)', Naming(y)', act'[x].id = act'[y].id, Mine(act[x].id)' PROVE FALSE
    BY <2>0 DEF Apart
  <2>1. Naming(x) /\ Naming(y) /\ act[x].id = act[y].id  BY <1>1 DEF Naming
  <2>2. act[x].id \in Ids  BY <1>2, <2>1 DEF Naming, Fielded, Made
  <2>3. Mine(act[x].id)  BY <1>1 DEF Mine, Clean
  <2> QED  BY <2>1, <2>3 DEF IdInv, Apart
<1>25. Single'  BY DEF IdInv, Single, Exists
<1>26. \A z \in {x} : Heeds(z)' /\ NamesFit(z)'  BY <1>22, <1>23
<1>27. \A z \in {x}, y \in Actors : Apart(z, y)'  BY <1>24
<1> QED
  BY <1>14, <1>16, <1>17, <1>18, <1>19, <1>21, <1>25, <1>26, <1>27, IdsOn

\* A sidecar is written, or goes.
LEMMA PutIds ==
    ASSUME Typed, SideInv, IdInv, NEW x \in Actors, NEW p \in Places, NEW k \in Ids \cup {None},
           NEW s \in {"sweep", "upsert", "lock", "unlink", "trashed"}, To(x, s),
           side' = [side EXCEPT ![p] = k], UNCHANGED <<file, row, owner, lock, displaced>>,
           \/ act[x].step = "write" /\ s = (IF act[x].to # None THEN "sweep" ELSE "upsert")
              /\ p = act[x].at /\ k = act[x].id
           \/ act[x].step = "sweep" /\ s = "upsert" /\ p = act[x].to /\ k = None
           \/ act[x].step = "note" /\ s = "lock" /\ p = act[x].at /\ k = act[x].seen
           \/ act[x].step = "stamp" /\ s = "unlink" /\ p = act[x].to /\ k = act[x].seen
           \/ act[x].step = "unlink" /\ s = "trashed" /\ p = act[x].at /\ k = None
    PROVE  IdInv'
<1>1. /\ act \in [Actors -> Acts] /\ Shaped /\ s \in Steps /\ Fielded(act[x])
  BY Facts DEF Steps
<1>2. /\ Alone(x) /\ act'[x].step = s
      /\ act'[x].at = act[x].at /\ act'[x].to = act[x].to /\ act'[x].id = act[x].id
      /\ act'[x].seen = act[x].seen
  BY <1>1, StepsOn
<1>3. side'[p] = k /\ \A q \in Places \ {p} : side'[q] = side[q]  BY <1>1 DEF Shaped
<1>4. act[x].step \in {"write", "note", "stamp"} => k \in Ids
  BY <1>1 DEF Fielded, Made
<1>5. Passes(x)  BY <1>2, <1>3, <1>4, Names DEF Passes
<1>6. Sided(x, p)
  <2>1. CASE act[x].step \in {"write", "note", "stamp"}
    <3>1. Writes(x, p, k)  BY <2>1 DEF Writes
    <3> QED  BY <1>3, <1>4, <2>1, <3>1 DEF Sided, Brings
  <2>2. CASE act[x].step \in {"sweep", "unlink"}  BY <1>3, <2>2 DEF Sided, Passing
  <2> QED  BY <2>1, <2>2
<1>7. \A q \in Places : Sided(x, q)
  <2>1. \A q \in Places \ {p} : Sided(x, q)  BY <1>3 DEF Sided
  <2> QED  BY <1>6, <2>1
<1> QED  BY <1>2, <1>5, <1>7, SideOn

LEMMA WriteIds ==
    ASSUME Typed, SideInv, IdInv, NEW x \in Actors, Write(x) \/ Sweep(x) PROVE IdInv'
<1>1. Fielded(act[x])  BY Facts
<1>2. CASE Write(x)
  <2>1. act[x].at \in Places /\ act[x].id \in Ids /\ act[x].step = "write"
    BY <1>1, <1>2, Names DEF Write, At, Fielded, Indexing, Made
  <2>2. PICK s \in {"sweep", "upsert"} : To(x, s) /\ s = (IF act[x].to # None THEN "sweep" ELSE "upsert")
    BY <1>2 DEF Write
  <2> QED  BY <1>2, <2>1, <2>2, PutIds DEF Write
<1>3. CASE Sweep(x)
  <2>1. act[x].to \in Places /\ act[x].step = "sweep"
    BY <1>1, <1>3, Names DEF Sweep, At, Fielded
  <2> QED  BY <1>3, <2>1, PutIds DEF Sweep
<1> QED  BY <1>2, <1>3

LEMMA NoteIds ==
    ASSUME Typed, SideInv, IdInv, NEW u \in Requests, Note(u) \/ Stamp(u) \/ Unlink(u) PROVE IdInv'
<1>1. Fielded(act[u]) /\ u \in Actors  BY Names, Facts
<1>2. CASE Note(u)
  <2>1. act[u].at \in Places /\ act[u].seen \in Ids /\ act[u].step = "note"
    BY <1>1, <1>2, Names DEF Note, At, Fielded, Made
  <2> QED  BY <1>1, <1>2, <2>1, PutIds DEF Note
<1>3. CASE Stamp(u)
  <2>1. act[u].to \in Places /\ act[u].seen \in Ids /\ act[u].step = "stamp"
    BY <1>1, <1>3, Names DEF Stamp, At, Fielded, Made, Binning
  <2> QED  BY <1>1, <1>3, <2>1, PutIds DEF Stamp
<1>4. CASE Unlink(u)
  <2>1. act[u].at \in Places /\ act[u].step = "unlink"
    BY <1>1, <1>4, Names DEF Unlink, At, Fielded, Binning
  <2> QED  BY <1>1, <1>4, <2>1, PutIds DEF Unlink
<1> QED  BY <1>2, <1>3, <1>4

\* A sidecar is renamed after its file.
LEMMA BringIds ==
    ASSUME Typed, SideInv, IdInv, NEW u \in Requests, Carry(u) \/ Follow(u) PROVE IdInv'
<1>1. /\ act \in [Actors -> Acts] /\ Shaped /\ u \in Actors
      /\ act[u].at \in Places /\ act[u].to \in Places /\ act[u].step \in {"carry", "follow"}
  BY Facts, Names DEF Carry, Follow, At, Fielded, Binning
<1> DEFINE a == act[u].at
           b == act[u].to
<1>2. PICK s \in {"trashed", "restored"} :
        /\ To(u, s) /\ (s = "trashed" <=> act[u].step = "carry")
        /\ UNCHANGED <<file, row, owner, lock, displaced>>
        /\ side' = IF side[a] = None THEN side ELSE [side EXCEPT ![a] = None, ![b] = side[a]]
  BY <1>1 DEF Carry, Follow, At
<1>3. /\ Alone(u) /\ act'[u].step = s
      /\ act'[u].at = act[u].at /\ act'[u].to = act[u].to /\ act'[u].id = act[u].id
      /\ act'[u].seen = act[u].seen
  BY <1>1, <1>2, StepsOn DEF Steps
<1>4. /\ \A q \in Places \ {a, b} : side'[q] = side[q]
      /\ side[a] = None => side' = side
      /\ side[a] # None => side'[b] = side[a] /\ side[a] \in Ids /\ (a # b => side'[a] = None)
  BY <1>1, <1>2 DEF Shaped
<1>5. Passes(u)  BY <1>1, <1>2, <1>3, <1>4 DEF Passes
<1>6. ASSUME NEW q \in Places PROVE Sided(u, q)
  <2>1. CASE q \notin {a, b} \/ side[a] = None  BY <1>4, <2>1 DEF Sided
  <2>2. CASE q = b /\ side[a] # None
    <3>1. Brings(u, b, side[a])  BY <1>1 DEF Brings
    <3> QED  BY <1>4, <2>2, <3>1 DEF Sided
  <2>3. CASE q = a /\ q # b /\ side[a] # None  BY <1>1, <1>4, <2>3 DEF Sided, Passing
  <2> QED  BY <2>1, <2>2, <2>3
<1> QED  BY <1>1, <1>2, <1>3, <1>5, <1>6, SideOn

-----------------------------------------------------------------------------
(* Other programs.                                                           *)

\* Something changes at paths that no operation is under way on.
LEMMA AroundIds ==
    ASSUME Typed, IdInv, NEW T \in SUBSET Paths, \A t \in T : Untouched(t, Actors),
           UNCHANGED <<owner, row, lock, act>>, displaced \subseteq displaced',
           \A q \in Places \ T : file'[q] = file[q] /\ side'[q] = side[q],
           \A i \in Ids, q \in Places : side'[q] = i => Carried(i),
           \A i \in Ids, t \in T : Mine(i)' /\ side[t] = i =>
               Exists(t) /\ (file'[t] = owner[i] => side'[t] = i),
           FilesArrive({}), Single'
    PROVE  IdInv'
<1>0. /\ \A u \in Requests : u \in Actors
      /\ \A q \in Paths : q \in Places /\ q \notin Bins
      /\ \A q \in Bins : q \in Places
      /\ None \notin Places /\ None \notin Ids
      /\ \A i \in Ids : Mine(i) => owner[i] # None /\ owner[i] \notin displaced
  BY Names DEF Mine, Clean
<1>1. ASSUME NEW y \in Actors
      PROVE  Fielded(act[y]) /\ Heeds(y) /\ act[y].at \notin T /\ act[y].to \notin T
  BY DEF Typed, Fields, IdInv, Untouched, Touches
<1>2. \A q \in Places \ T, k \in Ids : Claimed(q, k)' <=> Claimed(q, k)
  BY DEF Claimed, Writes
<1>3. \A t \in T, k \in Ids : Claimed(t, k) <=> side[t] = k  BY <1>1 DEF Claimed, Writes
<1>4. ASSUME NEW u \in Requests, act[u].step = "follow", act[u].at \in Bins
      PROVE  side'[act[u].at] = side[act[u].at]
  BY <1>0, <1>1, <1>4
<1>5. \A q \in Places, k \in Ids, u \in Requests : Follows(u, q, k)' <=> Follows(u, q, k)
  BY <1>4 DEF Follows
<1>6. \A t \in T, k \in Ids, u \in Requests : ~Follows(u, t, k)  BY <1>0, <1>1 DEF Follows
<1>7. \A q \in Places \ T, k \in Ids : OnlyId(q, k) => OnlyId(q, k)'  BY <1>2, <1>4 DEF OnlyId
<1>8. \A q \in Places \ T, k \in Ids : Expected(q, k) => Expected(q, k)'  BY <1>5 DEF Expected
<1>9. \A t \in T, k \in Ids : Expected(t, k) => side[t] = k  BY <1>1, <1>6 DEF Expected
<1>10. \A y \in Actors, q \in Places : Passing(y, q)' => Passing(y, q) /\ q \notin T
  BY <1>1 DEF Passing
<1>11. ASSUME NEW b \in Bins, NEW p \in Paths, NEW i \in Ids, Orphan(b, p, i), p \notin T
       PROVE  Orphan(b, p, i)'
  <2>1. ~Exists(p)' /\ OnlyId(p, i)'  BY <1>0, <1>7, <1>11 DEF Orphan, Exists
  <2>2. BoundFor(p, b)' /\ Origin(b, p)'  BY <1>11 DEF Orphan, BoundFor, Origin, Passing
  <2> QED  BY <2>1, <2>2 DEF Orphan
<1>12. ASSUME NEW i \in Ids, Mine(i)', NEW p \in Paths, Expected(p, i), ~Exists(p) PROVE p \notin T
  BY <1>9, <1>12
<1>13. \A i \in Ids : Mine(i)' => Mine(i) /\ owner'[i] = owner[i]  BY MineBefore
<1>14. OrphansStay
  <2> SUFFICES ASSUME NEW b \in Bins, NEW p \in Paths, NEW i \in Ids, Mine(i)', Orphan(b, p, i),
                      Expected(p, i) \/ \E y \in Actors : Naming(y) /\ act[y].at = p /\ act[y].id = i
               PROVE  Orphan(b, p, i)'
    BY DEF OrphansStay
  <2>1. p \notin T  BY <1>1, <1>12 DEF Orphan
  <2> QED  BY <1>11, <2>1
<1>15. SureStays
  <2> SUFFICES ASSUME NEW i \in Ids, NEW r \in Places, Mine(i)', file'[r] = owner[i], Sure(r, i)
               PROVE  Sure(r, i)'
    BY <1>13 DEF SureStays
  <2>1. CASE r \in Paths /\ r \in T
    <3>1. Expected(r, i)  BY <1>0, <2>1 DEF Sure
    <3>2. side[r] = i  BY <1>9, <2>1, <3>1
    <3>3. side'[r] = i  BY <2>1, <3>2
    <3> QED  BY <2>1, <3>3 DEF Sure, Expected
  <2>2. CASE r \in Paths /\ r \notin T  BY <1>0, <1>8, <2>2 DEF Sure
  <2>3. CASE r \in Bins /\ side[r] = i  BY <1>0, <2>3 DEF Sure
  <2>4. ASSUME r \in Bins, NEW p \in Paths, Expected(p, i), Orphan(r, p, i) PROVE Sure(r, i)'
    <3>1. p \notin T /\ p \in Places  BY <1>0, <1>12, <2>4 DEF Orphan
    <3>2. Expected(p, i)' /\ Orphan(r, p, i)'  BY <1>8, <1>11, <2>4, <3>1
    <3> QED  BY <2>4, <3>2 DEF Sure
  <2> QED  BY <2>1, <2>2, <2>3, <2>4 DEF Sure
<1>16. PartedStays({})
  <2> SUFFICES ASSUME NEW i \in Ids, NEW q \in Paths, Mine(i)', Parted(i, q) PROVE Parted(i, q)'
    BY DEF PartedStays
  <2>1. q \notin T /\ q \in Places  BY <1>0 DEF Parted
  <2>2. OnlyId(q, i)'  BY <1>7, <2>1 DEF Parted
  <2> QED  BY <2>1, <2>2 DEF Parted, Exists, Passing
<1>17. LiveBefore({}, {})  BY DEF LiveBefore, Carried
<1>18. ASSUME NEW y \in Actors PROVE act'[y] = act[y] /\ Heeds(y)'
  <2>1. PassesNone(y)'  BY <1>1, <1>10 DEF Heeds, PassesNone, Exists
  <2>2. HasLock(y)'  BY <1>1 DEF Heeds, HasLock, Naming
  <2>3. LeftBin(y)' /\ Signed(y)'
    BY <1>0, <1>1 DEF Heeds, LeftBin, Signed, Exists, Fielded, Binning
  <2>4. NoteFits(y)'
    BY <1>0, <1>1 DEF Heeds, NoteFits, Exists, Fielded, Clean
  <2>5. MatchBare(y)'
    <3> SUFFICES ASSUME act[y].step = "match", NEW p \in Places, p = act[y].at,
                        Exists(p)', Clean(file[p])'
                 PROVE  Bare(p)'
      BY <1>0, <1>1 DEF MatchBare, Fielded, Indexing
    <3>1. p \in Places \ T  BY <1>0, <1>1 DEF Fielded, Indexing
    <3>2. Bare(p)  BY <1>1, <3>1 DEF Heeds, MatchBare, Exists, Clean
    <3> QED  BY <1>2, <1>5, <3>1, <3>2 DEF Bare
  <2> QED  BY <2>1, <2>2, <2>3, <2>4, <2>5 DEF Heeds
<1> QED  BY <1>14, <1>15, <1>16, <1>17, <1>18, IdsOn

LEMMA UserIds ==
    ASSUME Typed, IdInv, Add \/ Remove \/ Strip PROVE IdInv'
<1>0. Shaped /\ Owned /\ \A p \in Paths : p \in Places
  BY Names DEF Typed, TypeOK, Shaped
<1>1. UNCHANGED <<owner, row, lock, act>> /\ displaced \subseteq displaced'
  BY DEF Add, Remove, Strip
<1>2. CASE Add
  <2>1. PICK p \in Paths, f \in New :
          file[p] = None /\ side[p] = None /\ Untouched(p, Actors) /\ file' = [file EXCEPT ![p] = f]
    BY <1>2 DEF Add
  <2>2. side' = side  BY <1>2 DEF Add
  <2>3. \A q \in Places \ {p} : file'[q] = file[q]  BY <1>0, <2>1 DEF Shaped
  <2>4. file'[p] = f  BY <1>0, <2>1 DEF Shaped
  <2>5. \A i \in Ids : Mine(i)' => owner[i] # f
    BY <1>1, <2>1, Names DEF New, Mine, Clean
  <2>6. FilesArrive({})  BY <2>3, <2>4, <2>5 DEF FilesArrive
  <2>7. Single'
    BY <2>1, <2>3, <2>4, Names DEF IdInv, Single, New, Holding, Exists
  <2>8. \A t \in {p} : Untouched(t, Actors) /\ side[t] = None  BY <2>1
  <2>9. \A i \in Ids, q \in Places : side'[q] = i => Carried(i)  BY <2>2 DEF Carried
  <2>10. \A q \in Places \ {p} : file'[q] = file[q] /\ side'[q] = side[q]  BY <2>2, <2>3
  <2>11. \A i \in Ids, t \in {p} : Mine(i)' /\ side[t] = i =>
           Exists(t) /\ (file'[t] = owner[i] => side'[t] = i)
    BY <2>8, Names
  <2> QED  BY <1>1, <2>6, <2>7, <2>8, <2>9, <2>10, <2>11, AroundIds
<1>3. CASE Remove
  <2>1. PICK p \in Paths : Exists(p) /\ Untouched(p, Actors) /\ file' = [file EXCEPT ![p] = None]
    BY <1>3 DEF Remove
  <2>2. side' = side  BY <1>3 DEF Remove
  <2>3. \A q \in Places \ {p} : file'[q] = file[q]  BY <1>0, <2>1 DEF Shaped
  <2>4. file'[p] = None  BY <1>0, <2>1 DEF Shaped
  <2>5. \A i \in Ids : Mine(i)' => owner[i] # None  BY <1>1, Names DEF Mine, Clean
  <2>6. FilesArrive({})  BY <2>3, <2>4, <2>5 DEF FilesArrive
  <2>7. Single'  BY <2>3, <2>4 DEF IdInv, Single, Exists
  <2>8. \A t \in {p} : Untouched(t, Actors) /\ Exists(t)  BY <2>1
  <2>9. \A i \in Ids, q \in Places : side'[q] = i => Carried(i)  BY <2>2 DEF Carried
  <2>10. \A q \in Places \ {p} : file'[q] = file[q] /\ side'[q] = side[q]  BY <2>2, <2>3
  <2>11. \A i \in Ids, t \in {p} : Mine(i)' /\ side[t] = i =>
           Exists(t) /\ (file'[t] = owner[i] => side'[t] = i)
    BY <2>2, <2>8
  <2> QED  BY <1>1, <2>6, <2>7, <2>8, <2>9, <2>10, <2>11, AroundIds
<1>4. CASE Strip
  <2>1. PICK p \in Paths : /\ side[p] # None /\ Untouched(p, Actors) /\ side' = [side EXCEPT ![p] = None]
                           /\ owner[side[p]] \in displaced'
    BY <1>4 DEF Strip
  <2>2. file' = file  BY <1>4 DEF Strip
  <2>3. \A q \in Places \ {p} : side'[q] = side[q]  BY <1>0, <2>1 DEF Shaped
  <2>4. side'[p] = None  BY <1>0, <2>1 DEF Shaped
  <2>5. \A i \in Ids : Mine(i)' => side[p] # i  BY <1>1, <2>1 DEF Mine, Clean
  <2>6. FilesArrive({})  BY <2>2 DEF FilesArrive
  <2>7. Single'  BY <2>2 DEF IdInv, Single, Exists
  <2>8. \A t \in {p} : Untouched(t, Actors) /\ \A i \in Ids : Mine(i)' => side[t] # i
    BY <2>1, <2>5
  <2>9. \A i \in Ids, q \in Places : side'[q] = i => Carried(i)
    BY <2>3, <2>4, Names DEF Carried
  <2>10. \A q \in Places \ {p} : file'[q] = file[q] /\ side'[q] = side[q]  BY <2>2, <2>3
  <2>11. \A i \in Ids, t \in {p} : Mine(i)' /\ side[t] = i =>
           Exists(t) /\ (file'[t] = owner[i] => side'[t] = i)
    BY <2>2, <2>8
  <2> QED  BY <1>1, <2>6, <2>7, <2>8, <2>9, <2>10, <2>11, AroundIds
<1> QED  BY <1>2, <1>3, <1>4

LEMMA MoveIds == ASSUME Typed, IdInv, Move PROVE IdInv'
<1>0. Shaped /\ Owned /\ \A p \in Paths : p \in Places /\ p \notin Bins
  BY Names DEF Typed, TypeOK, Shaped
<1>1. UNCHANGED <<owner, row, lock, act>> /\ displaced \subseteq displaced'  BY DEF Move
<1>2. PICK p \in Paths, q \in Paths :
        /\ Exists(p) /\ file[q] = None /\ side[q] = None
        /\ file' = [file EXCEPT ![p] = None, ![q] = file[p]]
        /\ \/ side' = [side EXCEPT ![p] = None, ![q] = side[p]]
           \/ /\ displaced' = IF side[p] # None /\ row[side[p]].at # p
                              THEN displaced \cup {file[p]} ELSE displaced
              /\ UNCHANGED side
        /\ Untouched(p, Actors) /\ Untouched(q, Actors)
  BY DEF Move
<1>3. /\ p # q /\ file'[p] = None /\ file'[q] = file[p]
      /\ \A r \in Places \ {p, q} : file'[r] = file[r] /\ side'[r] = side[r]
      /\ \/ side'[p] = None /\ side'[q] = side[p]
         \/ /\ side[p] # None /\ row[side[p]].at # p => file[p] \in displaced'
            /\ side'[p] = side[p] /\ side'[q] = None
  BY <1>0, <1>2 DEF Shaped, Exists
<1>4. Single'  BY <1>0, <1>2, <1>3 DEF IdInv, Single, Exists
<1>5. \A i \in Ids, r \in Places : side'[r] = i => Carried(i)
  BY <1>0, <1>3, Names DEF Carried
<1>6. ASSUME NEW y \in Actors PROVE ~Touches(y, p) /\ ~Touches(y, q)  BY <1>2 DEF Untouched
<1>7. ASSUME NEW i \in Ids, Mine(i)', Live(i), file[p] = owner[i]
      PROVE  /\ Sure(q, i)' \/ \E r \in Paths : Parted(i, r)'
             /\ \A y \in Actors : ~(Naming(y) /\ act[y].id = i)
  <2>1. Mine(i) /\ owner'[i] = owner[i] /\ file[p] \notin displaced'
    BY <1>1, <1>7, MineBefore DEF Mine, Clean
  <2>2. Sure(p, i) \/ \E r \in Paths : Parted(i, r)
    BY <1>0, <1>7, <2>1 DEF IdInv, Found, Holding
  <2>3. ASSUME Sure(p, i) PROVE Sure(q, i)' \/ \E r \in Paths : Parted(i, r)'
    <3>1. side[p] = i
      BY <1>0, <1>6, <2>3, Names DEF Sure, Expected, Touches, Follows
    <3>2. CASE side'[q] = side[p]
      <4>1. side'[q] = i  BY <3>1, <3>2
      <4> QED  BY <4>1 DEF Sure, Expected
    <3>3. CASE side'[p] = side[p] /\ row[side[p]].at = p
      <4>1. \A y \in Actors : ~Passing(y, p)'  BY <1>1, <1>6 DEF Passing, Touches
      <4>2. OnlyId(p, i)'
        BY <1>1, <1>6, <3>1, <3>3, Names DEF OnlyId, Claimed, Writes, Touches
      <4>3. Parted(i, p)'
        BY <1>1, <1>3, <3>1, <3>3, <4>1, <4>2 DEF Parted, Exists
      <4> QED  BY <4>3
    <3>4. side[p] # None  BY <3>1, Names
    <3> QED  BY <1>3, <2>1, <3>2, <3>3, <3>4
  <2>4. ASSUME NEW r \in Paths, Parted(i, r) PROVE Parted(i, r)'
    <3>1. r # p /\ r # q  BY <1>2, <2>4, Names DEF Parted
    <3>2. file'[r] = file[r] /\ side'[r] = side[r]  BY <1>0, <1>3, <3>1
    <3>3. \A k \in Ids : Claimed(r, k)' => Claimed(r, k)  BY <1>1, <3>2 DEF Claimed, Writes
    <3>4. ASSUME NEW u \in Requests, act[u].step = "follow", act[u].at \in Bins
          PROVE  side'[act[u].at] = side[act[u].at]
      BY <1>0, <1>3, <3>4, Names
    <3>5. OnlyId(r, i)'  BY <1>1, <2>4, <3>3, <3>4 DEF Parted, OnlyId
    <3> QED  BY <1>1, <2>4, <3>2, <3>5 DEF Parted, Exists, Passing
  <2>5. ASSUME NEW y \in Actors, Naming(y), act[y].id = i PROVE FALSE
    <3>1. p = act[y].at  BY <1>0, <1>7, <2>1, <2>5 DEF IdInv, NamesFit, NamedAt, Holding
    <3> QED  BY <1>6, <3>1 DEF Touches
  <2> QED  BY <2>2, <2>3, <2>4, <2>5
<1>8. FilesArrive({})
  <2> SUFFICES ASSUME NEW i \in Ids, NEW r \in Places, Mine(i)', Live(i), file[r] # owner[i], file'[r] = owner[i]
               PROVE  /\ Sure(r, i)' \/ \E z \in Paths : Parted(i, z)'
                      /\ \A y \in Actors : Naming(y) /\ act[y].id = i =>
                           /\ r = act[y].at \/ (r \in Bins /\ Orphan(r, act[y].at, i)')
                           /\ act[y].step \in {"sweep", "upsert"} => Sure(r, i)'
    BY DEF FilesArrive
  <2>1. owner[i] # None  BY <1>1, Names DEF Mine, Clean
  <2>2. r = q /\ file[p] = owner[i]  BY <1>3, <2>1
  <2> QED  BY <1>7, <2>2
<1>9. \A i \in Ids, t \in {p, q} : Mine(i)' /\ side[t] = i =>
        Exists(t) /\ (file'[t] = owner[i] => side'[t] = i)
  <2>1. \A i \in Ids : Mine(i)' => owner[i] # None  BY <1>1, Names DEF Mine, Clean
  <2> QED  BY <1>2, <1>3, <2>1, Names
<1>10. \A t \in {p, q} : Untouched(t, Actors)  BY <1>2
<1> QED  BY <1>0, <1>1, <1>3, <1>4, <1>5, <1>8, <1>9, <1>10, AroundIds

-----------------------------------------------------------------------------
(* Files.                                                                    *)

\* Beside a file OneId is about only its own sidecar is, or comes.
LEMMA OnlyOf ==
    ASSUME Typed, SideInv, IdInv, NEW p \in Paths, NEW i \in Ids, Mine(i), Live(i), file[p] = owner[i]
    PROVE  OnlyId(p, i)
<1>1. p \in Places /\ Exists(p) /\ file[p] \notin displaced  BY Names DEF Mine, Clean, Exists
<1>2. ASSUME NEW k \in Ids, Fits(k, file[p]), Live(k) PROVE k = i
  BY <1>1, <1>2 DEF Fits, IdInv, Uniq
<1>3. ASSUME NEW k \in Ids, Claimed(p, k) PROVE k = i
  <2>1. Fits(k, file[p])  BY <1>1, <1>3 DEF SideInv, SidesFit, Exists
  <2>2. Live(k)  BY <1>1, <1>3 DEF Claimed, Writes, Live, Carried, Holds, Naming
  <2> QED  BY <1>2, <2>1, <2>2
<1>4. ASSUME NEW u \in Requests, act[u].step = "follow", act[u].to = p
      PROVE  act[u].at \in Bins /\ side[act[u].at] \in {None, i}
  <2>1. u \in Actors /\ act[u].at \in Places  BY <1>4, Names DEF Typed, Fields, Fielded
  <2>2. act[u].at \in Bins
    <3> SUFFICES ASSUME act[u].at \in Paths PROVE FALSE  BY <2>1 DEF Places
    <3>1. FollowAstray(u)  BY <1>4 DEF SideInv
    <3> QED  BY <1>1, <1>4, <3>1 DEF FollowAstray, Exists
  <2>3. FollowFits(u)  BY <1>4, <2>2 DEF SideInv
  <2>4. side[act[u].at] \in Ids \cup {None}  BY <2>1 DEF Typed, TypeOK
  <2>5. ASSUME NEW k \in Ids, side[act[u].at] = k PROVE k = i
    <3>1. Fits(k, file[p])  BY <1>1, <1>4, <2>3, <2>5 DEF FollowFits, Claimed, Exists
    <3>2. Live(k)  BY <2>1, <2>5 DEF Live, Carried
    <3> QED  BY <1>2, <3>1, <3>2
  <2> QED  BY <2>2, <2>4, <2>5
<1> QED  BY <1>3, <1>4 DEF OnlyId

\* A copy, or a restored file, comes to a path.
LEMMA ComesIds ==
    ASSUME Typed, SideInv, IdInv, NEW u \in Requests, Alone(u), UNCHANGED <<side, owner, row, lock>>,
           NEW d \in Paths, NEW f \in Files, file'[d] = f,
           \A q \in Places \ {d} :
               file'[q] = file[q] \/ (act[u].step = "out" /\ q = act[u].at /\ file'[q] = None),
           displaced \cup Clash(f, d) \cup Crossed(f, d, Actors \ {u}) \subseteq displaced', Single',
           \/ /\ act[u].step = "idle" /\ act'[u].step = "lock"
              /\ \A i \in Ids : Mine(i)' => owner[i] # f
           \/ /\ act[u].step = "out" /\ act'[u].step = "follow" /\ act'[u].at = act[u].at
              /\ act[u].to = d /\ act'[u].to = d /\ act[u].at \in Places /\ file[act[u].at] = f
              /\ IF act[u].at \in Bins THEN file'[act[u].at] = None
                 ELSE f \in displaced' /\ file'[act[u].at] \in {None, f}
    PROVE  IdInv'
<1>0. /\ \A v \in Requests : v \in Actors
      /\ \A q \in Paths : q \in Places /\ q \notin Bins
      /\ \A q \in Bins : q \in Places
      /\ None \notin Places /\ None \notin Ids /\ f # None
      /\ \A i \in Ids : Mine(i)' => Mine(i) /\ owner[i] # None /\ owner[i] \notin displaced'
      /\ displaced \subseteq displaced'
  BY Names DEF Mine, Clean
<1>1. /\ act'[u].step \in {"lock", "follow"} /\ act[u].step \in {"idle", "out"}
      /\ \A y \in Actors \ {u} : act'[y] = act[y]
  BY DEF Alone
<1>2. ASSUME NEW y \in Actors PROVE Fielded(act[y]) /\ Heeds(y)  BY DEF Typed, Fields, IdInv
\* Nobody who counts is at the path.
<1>3. /\ \A i \in Ids : Mine(i)' => side[d] # i
      /\ Exists(d) => file[d] \in displaced'
      /\ Exists(d) \/ side[d] # None => f \in displaced'
  BY <1>0 DEF Clash, Exists
<1>4. ASSUME NEW y \in Actors \ {u}, Touches(y, d)
      PROVE  /\ f \in displaced'
             /\ \A i \in Ids : i \in {act[y].id, act[y].seen, IdAt(act[y].at)} => ~Mine(i)'
  <2>1. f \in displaced'  BY <1>4, CrossedHas
  <2>2. \A i \in Ids : owner[i] # None /\ i \in {act[y].id, act[y].seen, IdAt(act[y].at)}
                       => owner[i] \in displaced'
    BY <1>4, CrossedHas
  <2> QED  BY <1>0, <2>1, <2>2
<1>5. ASSUME NEW i \in Ids, Mine(i)'
      PROVE  /\ ~Expected(d, i)
             /\ \A y \in Actors : Naming(y) /\ act[y].at = d => act[y].id # i
  <2>1. ASSUME NEW y \in Actors, Naming(y), act[y].at = d, act[y].id = i PROVE FALSE
    <3>1. y # u  BY <1>1, <2>1 DEF Naming
    <3> QED  BY <1>4, <1>5, <2>1, <3>1 DEF Touches
  <2>2. ASSUME NEW v \in Requests, Follows(v, d, i) PROVE FALSE
    <3>1. v \in Actors \ {u} /\ act[v].to = d /\ IdAt(act[v].at) = i
      BY <1>0, <1>1, <2>2 DEF Follows, IdAt
    <3> QED  BY <1>4, <1>5, <3>1 DEF Touches
  <2> QED  BY <1>3, <1>5, <2>1, <2>2 DEF Expected, Naming
<1>6. \A q \in Places, k \in Ids : Claimed(q, k)' <=> Claimed(q, k)
  BY <1>1 DEF Claimed, Writes
<1>7. \A v \in Requests \ {u} : act'[v] = act[v]  BY <1>0, <1>1
<1>8. \A q \in Places, k \in Ids, v \in Requests :
        Follows(v, q, k)' <=> Follows(v, q, k) \/ (v = u /\ Follows(u, q, k)')
  BY <1>1, <1>7 DEF Follows
<1>9. \A k \in Ids, q \in Places : Follows(u, q, k)' => q = d /\ act[u].step = "out"
  BY <1>1 DEF Follows
<1>10. \A q \in Places, k \in Ids : Expected(q, k) => Expected(q, k)'
  <2>1. \A y \in Actors : act[y].step = "write" => act'[y] = act[y]  BY <1>1
  <2> QED  BY <1>8, <2>1 DEF Expected
<1>11. ASSUME NEW q \in Paths, NEW k \in Ids, q # d, OnlyId(q, k) PROVE OnlyId(q, k)'
  BY <1>0, <1>1, <1>6, <1>7, <1>11 DEF OnlyId
<1>12. \A y \in Actors, q \in Places : Passing(y, q)' =>
         (Passing(y, q) /\ act'[y] = act[y]) \/ (y = u /\ act[u].step = "out" /\ q = act[u].at)
  BY <1>1 DEF Passing
<1>13. \A p \in Paths : ~Exists(p) /\ p # d => (act[u].step = "out" => p # act[u].at) /\ ~Exists(p)'
  BY <1>0 DEF Exists
<1>14. ASSUME NEW b \in Bins, NEW p \in Paths, NEW i \in Ids, Orphan(b, p, i), p # d
       PROVE  Orphan(b, p, i)'
  <2>1. ~Exists(p)' /\ (act[u].step = "out" => p # act[u].at)  BY <1>13, <1>14 DEF Orphan
  <2>2. OnlyId(p, i)'  BY <1>11, <1>14 DEF Orphan
  <2>3. BoundFor(p, b)'
    <3>1. BoundFor(p, b)  BY <1>14 DEF Orphan
    <3> QED  BY <1>0, <1>12, <2>1, <3>1 DEF BoundFor
  <2>4. Origin(b, p)'
    <3>1. Origin(b, p)  BY <1>14 DEF Orphan
    <3> QED  BY <1>1, <1>7, <3>1 DEF Origin, Binning
  <2> QED  BY <2>1, <2>2, <2>3, <2>4 DEF Orphan
<1>15. OrphansStay
  <2> SUFFICES ASSUME NEW b \in Bins, NEW p \in Paths, NEW i \in Ids, Mine(i)', Orphan(b, p, i),
                      Expected(p, i) \/ \E y \in Actors : Naming(y) /\ act[y].at = p /\ act[y].id = i
               PROVE  Orphan(b, p, i)'
    BY DEF OrphansStay
  <2>1. p # d  BY <1>5
  <2> QED  BY <1>14, <2>1
<1>16. SureStays
  <2> SUFFICES ASSUME NEW i \in Ids, NEW r \in Places, Mine(i)', Sure(r, i) PROVE Sure(r, i)'
    BY DEF SureStays
  <2>1. CASE r \in Paths  BY <1>0, <1>10, <2>1 DEF Sure
  <2>2. CASE r \in Bins /\ side[r] = i  BY <2>2 DEF Sure
  <2>3. ASSUME r \in Bins, NEW p \in Paths, Expected(p, i), Orphan(r, p, i) PROVE Sure(r, i)'
    <3>1. p # d  BY <1>5, <2>3
    <3>2. Expected(p, i)' /\ Orphan(r, p, i)'  BY <1>0, <1>10, <1>14, <2>3, <3>1
    <3> QED  BY <2>3, <3>2 DEF Sure
  <2> QED  BY <2>1, <2>2, <2>3 DEF Sure
<1>17. ASSUME NEW i \in Ids, NEW q \in Paths, Mine(i)', Parted(i, q) PROVE Parted(i, q)'
  <2>1. q # d /\ q \in Places  BY <1>0, <1>3, <1>17 DEF Parted
  <2>2. OnlyId(q, i)'  BY <1>11, <1>17, <2>1 DEF Parted
  <2>3. ~Exists(q)' /\ (act[u].step = "out" => q # act[u].at)  BY <1>13, <1>17, <2>1 DEF Parted
  <2> QED  BY <1>12, <1>17, <2>1, <2>2, <2>3 DEF Parted
<1>18. PartedStays({u})  BY <1>17 DEF PartedStays
<1>19. FilesArrive({u})
  <2> SUFFICES ASSUME NEW i \in Ids, NEW r \in Places, Mine(i)', Live(i), file[r] # owner[i], file'[r] = owner[i]
               PROVE  /\ Sure(r, i)' \/ \E q \in Paths : Parted(i, q)'
                      /\ \A y \in Actors \ {u} : Naming(y) => act[y].id # i
    BY DEF FilesArrive
  <2>1. r = d /\ owner[i] = f /\ f \notin displaced'  BY <1>0
  <2> SUFFICES ASSUME NEW a \in Bins, a = act[u].at, file[a] = owner[i], act[u].step = "out", act[u].to = d,
                      act'[u].step = "follow", act'[u].at = a, act'[u].to = d
               PROVE  /\ Sure(d, i)' \/ \E q \in Paths : Parted(i, q)'
                      /\ \A y \in Actors \ {u} : Naming(y) => act[y].id # i
    BY <2>1
  <2>2. \A p \in Paths : Orphan(a, p, i) => p = d  BY DEF Orphan, Origin
  <2>3. Sure(a, i) \/ \E q \in Paths : Parted(i, q)  BY <1>0 DEF IdInv, Found, Holding
  <2>4. ASSUME Sure(a, i) PROVE Sure(d, i)'
    <3>1. side[a] = i  BY <1>0, <1>5, <2>2, <2>4 DEF Sure
    <3>2. Follows(u, d, i)'  BY <3>1 DEF Follows
    <3> QED  BY <3>2 DEF Sure, Expected
  <2>5. ASSUME NEW y \in Actors \ {u}, Naming(y), act[y].id = i PROVE FALSE
    <3>1. NamedAt(y) /\ act[y].at \in Paths
      BY <1>2, <2>5 DEF IdInv, NamesFit, Fielded, Indexing, Naming
    <3>2. Orphan(a, act[y].at, i)  BY <1>0, <2>5, <3>1 DEF NamedAt, Holding
    <3>3. act[y].at = d  BY <2>2, <3>1, <3>2
    <3> QED  BY <1>5, <2>5, <3>3
  <2> QED  BY <1>17, <2>3, <2>4, <2>5
<1>20. LiveBefore({u}, {})  BY <1>1 DEF LiveBefore, Carried, Holds, Naming
<1>21. ASSUME NEW y \in Actors PROVE PassesNone(y)'
  <2> SUFFICES ASSUME NEW q \in Places, Passing(y, q)', file'[q] # None PROVE file'[q] \in displaced'
    BY DEF PassesNone, Exists
  <2>1. CASE Passing(y, q) /\ q # d  BY <1>0, <1>2, <2>1 DEF Heeds, PassesNone, Exists
  <2>2. CASE Passing(y, q) /\ q = d
    <3>1. y # u /\ Touches(y, d)  BY <1>1, <2>2 DEF Passing, Touches
    <3> QED  BY <1>4, <2>2, <3>1
  <2>3. CASE ~Passing(y, q)
    <3>1. q = act[u].at /\ act[u].step = "out"  BY <1>12, <2>3
    <3> QED  BY <3>1
  <2> QED  BY <2>1, <2>2, <2>3
<1>22. ASSUME NEW y \in Actors \ {u} PROVE act'[y] = act[y] /\ Heeds(y)'
  <2>0. act'[y] = act[y]  BY <1>1
  <2>1. HasLock(y)' /\ Signed(y)'  BY <1>2, <2>0 DEF Heeds, HasLock, Naming, Signed
  <2>2. LeftBin(y)'
    <3> SUFFICES ASSUME act[y].step = "follow", NEW b \in Bins, b = act[y].at PROVE ~Exists(b)'
      BY <2>0 DEF LeftBin
    <3>1. file[b] = None /\ b \in Places \ {d}  BY <1>0, <1>2 DEF Heeds, LeftBin, Exists
    <3>2. file'[b] = None  BY <3>1
    <3> QED  BY <3>2 DEF Exists
  <2>3. ASSUME NEW q \in Places, q = act[y].at, Exists(q)', Clean(file[q])'
        PROVE  q # d /\ file'[q] = file[q] /\ Exists(q) /\ Clean(file[q])
    <3>1. q # d  BY <1>4, <2>3 DEF Touches, Clean
    <3> QED  BY <1>0, <2>3, <3>1 DEF Exists, Clean
  <2>4. NoteFits(y)'
    <3>1. act[y].step = "note" => act[y].at \in Places  BY <1>0, <1>2 DEF Fielded
    <3> QED  BY <1>2, <2>0, <2>3, <3>1 DEF Heeds, NoteFits
  <2>5. MatchBare(y)'
    <3> SUFFICES ASSUME act[y].step = "match", NEW q \in Places, q = act[y].at, Exists(q)', Clean(file[q])'
                 PROVE  Bare(q)'
      BY <1>0, <1>2, <2>0 DEF MatchBare, Fielded, Indexing
    <3>1. Bare(q) /\ q # d  BY <1>2, <2>3 DEF Heeds, MatchBare
    <3> QED  BY <1>6, <1>8, <1>9, <3>1 DEF Bare
  <2> QED  BY <1>21, <2>0, <2>1, <2>2, <2>4, <2>5 DEF Heeds
<1>23. Heeds(u)' /\ NamesFit(u)'
  <2>1. LeftBin(u)'  BY <1>1 DEF LeftBin, Exists
  <2>2. HasLock(u)' /\ Signed(u)' /\ NoteFits(u)' /\ MatchBare(u)'
    BY <1>1 DEF HasLock, Signed, NoteFits, MatchBare, Naming
  <2>3. NamesFit(u)'  BY <1>1 DEF NamesFit, WriteFits, NamedAt, NamedSure, Naming
  <2> QED  BY <1>0, <1>21, <2>1, <2>2, <2>3 DEF Heeds
<1>24. ASSUME NEW y \in Actors PROVE Apart(u, y)'
  <2> SUFFICES ASSUME y # u, act'[u].step = "follow", act'[y].step = "follow", act'[u].at = act'[y].at,
                      act'[u].at \in Bins
               PROVE  FALSE
    BY <1>1 DEF Apart, Naming
  <2>1. act'[y] = act[y] /\ ~Exists(act[y].at)  BY <1>1, <1>2 DEF Heeds, LeftBin
  <2> QED  BY <1>0, <2>1 DEF Exists
<1>25. \A z \in {u} : Heeds(z)' /\ NamesFit(z)'  BY <1>23
<1>26. \A z \in {u}, y \in Actors : Apart(z, y)'  BY <1>24
<1> QED
  BY <1>0, <1>15, <1>16, <1>18, <1>19, <1>20, <1>22, <1>25, <1>26, IdsOn

LEMMA CopyIds == ASSUME Typed, SideInv, IdInv, NEW u \in Requests, AskCopy(u) PROVE IdInv'
<1>1. PICK p \in Paths, f \in New :
        /\ file' = [file EXCEPT ![p] = f]
        /\ displaced' = displaced \cup Clash(f, p) \cup Crossed(f, p, Actors \ {u})
        /\ act' = [act EXCEPT ![u] = [Idle EXCEPT !.step = "lock", !.at = p]]
  BY DEF AskCopy, Begin
<1>2. act \in [Actors -> Acts] /\ u \in Actors /\ Shaped /\ f \in Files /\ p \in Places
  BY Names, Facts DEF New
<1>3. UNCHANGED <<side, owner, row, lock>> /\ act[u].step = "idle"  BY DEF AskCopy, Free, At
<1>4. Alone(u) /\ act'[u].step = "lock"
  <2> DEFINE l == [Idle EXCEPT !.step = "lock", !.at = p]
  <2>1. l \in Acts /\ l.step = "lock"  BY <1>2, IdleFields, Names DEF Acts, Steps
  <2> HIDE DEF l
  <2> QED  BY <1>1, <1>2, <2>1, Sets DEF l
<1>5. /\ file'[p] = f /\ \A q \in Places \ {p} : file'[q] = file[q]
      /\ displaced \cup Clash(f, p) \cup Crossed(f, p, Actors \ {u}) \subseteq displaced'
  BY <1>1, <1>2 DEF Shaped
<1>6. \A i \in Ids : Mine(i)' => owner[i] # f
  BY <1>3, <1>5, Names DEF New, Mine, Clean
<1>7. Single'  BY <1>5, Names DEF IdInv, Single, New, Holding, Exists
<1> QED  BY <1>2, <1>3, <1>4, <1>5, <1>6, <1>7, ComesIds

LEMMA OutIds == ASSUME Typed, SideInv, IdInv, NEW u \in Requests, Out(u) PROVE IdInv'
<1>1. /\ act \in [Actors -> Acts] /\ act[u] \in Acts /\ act[u].at \in Places /\ act[u].to \in Paths
      /\ Shaped /\ u \in Actors /\ act[u].step = "out" /\ act[u].to \in Places /\ act[u].to \notin Bins
  BY Facts, Names DEF Out, At, Fielded
<1>2. UNCHANGED <<side, owner, row, lock>>  BY DEF Out
<1>3. CASE act' = [act EXCEPT ![u] = Idle] /\ UNCHANGED <<file, displaced>>
  <2>1. Alone(u) /\ act'[u].step = "idle"  BY <1>1, <1>3, IdleFields, Sets
  <2> QED  BY <1>1, <1>2, <1>3, <2>1, IdsPlain
<1>4. CASE /\ Exists(act[u].at)
           /\ Rename(act[u].at, act[u].to, Actors \ {u})
           /\ To(u, "follow")
  <2>0. SUFFICES ASSUME NEW d \in Paths, d = act[u].to, NEW f \in Files, f = file[act[u].at],
                        NEW a \in Places, a = act[u].at
                 PROVE  IdInv'
    BY <1>1, <1>4 DEF Shaped, Exists
  <2>1. Alone(u) /\ act'[u].at = a /\ act'[u].to = d /\ act'[u].step = "follow"
    BY <1>1, <1>4, <2>0, StepsOn DEF Steps
  <2>2. /\ file'[d] = f /\ \A q \in Places \ {d, a} : file'[q] = file[q]
        /\ a # d => file'[a] = None
        /\ displaced \cup Clash(f, d) \cup Crossed(f, d, Actors \ {u}) \subseteq displaced'
        /\ a \in Paths => f \in displaced'
    BY <1>1, <1>4, <2>0 DEF Rename, Shaped
  <2>3. \A q \in Places \ {d} :
          file'[q] = file[q] \/ (act[u].step = "out" /\ q = act[u].at /\ file'[q] = None)
    BY <1>1, <2>0, <2>2
  <2>4. IF a \in Bins THEN file'[a] = None ELSE f \in displaced' /\ file'[a] \in {None, f}
    BY <1>1, <2>0, <2>2, Names DEF Places
  <2>5. Single'  BY <2>0, <2>2, Names DEF IdInv, Single, Exists
  <2> QED  BY <1>1, <1>2, <2>0, <2>1, <2>2, <2>3, <2>4, <2>5, ComesIds
<1> QED  BY <1>3, <1>4 DEF Out

\* A file is moved into the Trash.
LEMMA BinIds == ASSUME Typed, SideInv, IdInv, NEW u \in Requests, Bin(u) PROVE IdInv'
<1>1. /\ act \in [Actors -> Acts] /\ act[u] \in Acts /\ act[u].at \in Paths /\ act[u].to \in Bins
      /\ Shaped /\ Owned /\ u \in Actors /\ act[u].step = "bin" /\ Reserved(u)
      /\ act[u].at \in Places /\ act[u].to \in Places /\ act[u].at # act[u].to
  BY Facts, Names DEF Bin, At, Fielded, Binning
<1>2. UNCHANGED <<side, owner, row, lock>>  BY DEF Bin
<1>3. CASE act' = [act EXCEPT ![u] = Idle] /\ UNCHANGED <<file, displaced>>
  <2>1. Alone(u) /\ act'[u].step = "idle"  BY <1>1, <1>3, IdleFields, Sets
  <2> QED  BY <1>1, <1>2, <1>3, <2>1, IdsPlain
<1>4. CASE /\ Exists(act[u].at)
           /\ Rename(act[u].at, act[u].to, Actors \ {u})
           /\ To(u, IF act[u].seen # None THEN "stamp" ELSE "carry")
  <2> SUFFICES ASSUME NEW a \in Paths, a = act[u].at, NEW b \in Bins, b = act[u].to,
                      NEW f \in Files, f = file[a]
               PROVE  IdInv'
    BY <1>1, <1>4 DEF Shaped, Exists
  <2>0. /\ \A v \in Requests : v \in Actors
        /\ \A q \in Paths : q \in Places /\ q \notin Bins
        /\ \A q \in Bins : q \in Places
        /\ None \notin Places /\ None \notin Ids /\ f # None
    BY Names
  <2>1. /\ Alone(u) /\ act'[u].at = a /\ act'[u].to = b /\ act'[u].seen = act[u].seen
        /\ act'[u].step = (IF act[u].seen # None THEN "stamp" ELSE "carry")
        /\ \A y \in Actors \ {u} : act'[y] = act[y]
    BY <1>1, <1>4, StepsOn DEF Steps, Alone
  <2>2. /\ file'[a] = None /\ file'[b] = f /\ file[b] = None
        /\ \A q \in Places \ {a, b} : file'[q] = file[q]
        /\ displaced \subseteq displaced'
    BY <1>1, <1>4 DEF Rename, Shaped, Reserved, Binning
  <2>3. ASSUME NEW y \in Actors PROVE Fielded(act[y]) /\ Heeds(y)  BY DEF Typed, Fields, IdInv
  <2>4. \A y \in Actors \ {u} : act[y].at # b /\ act[y].to # b  BY <1>1 DEF Reserved, Binning
  <2>5. \A i \in Ids : Mine(i)' => Mine(i) /\ owner[i] # None /\ owner'[i] = owner[i] /\ owner[i] \notin displaced
    BY <1>2, <2>2, Names DEF Mine, Clean
  <2>6. \A q \in Places, k \in Ids : q # b => (Claimed(q, k)' <=> Claimed(q, k))
    BY <1>1, <1>2, <2>1 DEF Claimed, Writes
  <2>7. \A v \in Requests : act'[v].step = "follow" \/ act[v].step = "follow" => act'[v] = act[v]
    BY <1>1, <2>0, <2>1
  <2>8. \A v \in Requests, q \in Places, k \in Ids : Follows(v, q, k)' <=> Follows(v, q, k)
    BY <1>2, <2>7 DEF Follows
  <2>9. \A q \in Places, k \in Ids : Expected(q, k) => Expected(q, k)'
    <3>1. \A y \in Actors : act[y].step = "write" => act'[y] = act[y]  BY <1>1, <2>1
    <3> QED  BY <1>2, <2>8, <3>1 DEF Expected
  <2>10. ASSUME NEW q \in Paths, NEW k \in Ids, OnlyId(q, k) PROVE OnlyId(q, k)'
    BY <1>2, <2>0, <2>6, <2>7, <2>10 DEF OnlyId
  <2>11. \A y \in Actors, q \in Places : Passing(y, q)' =>
           (Passing(y, q) /\ y # u /\ act'[y] = act[y]) \/ (y = u /\ q = a)
    BY <2>1 DEF Passing
  <2>12. ASSUME NEW v \in Requests
         PROVE  /\ act'[v].step \in Binning <=> act[v].step \in Binning
                /\ act'[v].at = act[v].at /\ act'[v].to = act[v].to
                /\ act'[v].step = "out" => act[v].step = "out"
    <3>1. CASE v = u  BY <1>1, <2>1, <3>1 DEF Binning
    <3>2. CASE v # u  BY <2>0, <2>1, <3>2
    <3> QED  BY <3>1, <3>2
  <2>13. \A c \in Bins, p \in Paths : Origin(c, p) => Origin(c, p)'  BY <1>2, <2>12 DEF Origin
  <2>14. ASSUME NEW c \in Bins, NEW p \in Paths, NEW i \in Ids, Orphan(c, p, i) PROVE Orphan(c, p, i)'
    <3>1. p # a /\ p # b /\ p \in Places  BY <1>4, <2>0, <2>14 DEF Orphan
    <3>2. ~Exists(p)'  BY <2>2, <2>14, <3>1 DEF Orphan, Exists
    <3>3. BoundFor(p, c)'
      <4>1. BoundFor(p, c)  BY <2>14 DEF Orphan
      <4> QED  BY <2>11, <3>1, <4>1 DEF BoundFor
    <3> QED  BY <2>10, <2>13, <2>14, <3>2, <3>3 DEF Orphan
  <2>15. OrphansStay  BY <2>14 DEF OrphansStay
  <2>16. ASSUME NEW i \in Ids, NEW r \in Places, Sure(r, i) PROVE Sure(r, i)'
    <3>1. CASE r \in Paths  BY <2>0, <2>9, <2>16, <3>1 DEF Sure
    <3>2. CASE r \in Bins /\ side[r] = i  BY <1>2, <3>2 DEF Sure
    <3>3. ASSUME r \in Bins, NEW p \in Paths, Expected(p, i), Orphan(r, p, i) PROVE Sure(r, i)'
      <4>1. Expected(p, i)' /\ Orphan(r, p, i)'  BY <2>0, <2>9, <2>14, <3>3
      <4> QED  BY <3>3, <4>1 DEF Sure
    <3> QED  BY <2>16, <3>1, <3>2, <3>3 DEF Sure
  <2>17. SureStays  BY <2>16 DEF SureStays
  <2>18. ASSUME NEW i \in Ids, NEW q \in Paths, Parted(i, q) PROVE Parted(i, q)'
    <3>1. q # a /\ q # b /\ q \in Places  BY <1>4, <2>0, <2>18 DEF Parted
    <3>2. ~Exists(q)'  BY <2>2, <2>18, <3>1 DEF Parted, Exists
    <3>3. OnlyId(q, i)'  BY <2>10, <2>18 DEF Parted
    <3> QED  BY <1>2, <2>11, <2>18, <3>1, <3>2, <3>3 DEF Parted
  <2>19. PartedStays({u})  BY <2>18 DEF PartedStays
  \* The file that comes to the Trash.
  <2>20. ASSUME NEW i \in Ids, Mine(i), Live(i), owner[i] = f PROVE Orphan(b, a, i)'
    <3>1. OnlyId(a, i)'  BY <2>10, <2>20, OnlyOf
    <3>2. BoundFor(a, b)'
      <4>1. ASSUME NEW y \in Actors, Passing(y, a)' PROVE y = u
        <5>1. PassesNone(y)  BY <2>3 DEF Heeds
        <5>2. f \notin displaced  BY <2>20 DEF Mine, Clean
        <5> QED  BY <1>4, <2>0, <2>11, <4>1, <5>1, <5>2 DEF PassesNone
      <4> QED  BY <2>1, <4>1 DEF BoundFor, Binning
    <3>3. Origin(b, a)
      <4>1. \A j \in Ids : row[j].at # b  BY <1>1 DEF Reserved, Binning
      <4> QED  BY <1>1, <2>0, <2>4, <4>1 DEF Origin, Binning
    <3>4. ~Exists(a)'  BY <2>2 DEF Exists
    <3> QED  BY <2>13, <3>1, <3>2, <3>3, <3>4 DEF Orphan
  <2>21. FilesArrive({u})
    <3> SUFFICES ASSUME NEW i \in Ids, NEW r \in Places, Mine(i)', Live(i), file[r] # owner[i], file'[r] = owner[i]
                 PROVE  /\ Sure(r, i)' \/ \E q \in Paths : Parted(i, q)'
                        /\ \A y \in Actors \ {u} : Naming(y) /\ act[y].id = i =>
                             /\ r = act[y].at \/ (r \in Bins /\ Orphan(r, act[y].at, i)')
                             /\ act[y].step \in {"sweep", "upsert"} => Sure(r, i)'
      BY DEF FilesArrive
    <3>1. r = b /\ owner[i] = f /\ Mine(i)  BY <2>2, <2>5
    <3>2. Orphan(b, a, i)'  BY <2>20, <3>1
    <3>3. ASSUME Sure(a, i) PROVE Sure(b, i)'
      <4>1. Expected(a, i)'  BY <2>0, <2>9, <3>3 DEF Sure
      <4> QED  BY <3>2, <4>1 DEF Sure
    <3>4. Sure(a, i) \/ \E q \in Paths : Parted(i, q)
      BY <2>0, <3>1 DEF IdInv, Found, Holding
    <3>5. ASSUME NEW y \in Actors \ {u}, Naming(y), act[y].id = i
          PROVE  act[y].at = a /\ (act[y].step \in {"sweep", "upsert"} => Sure(a, i))
      <4>1. NamedAt(y) /\ NamedSure(y)  BY DEF IdInv, NamesFit
      <4>2. act[y].at = a  BY <2>0, <3>1, <3>5, <4>1 DEF NamedAt, Holding
      <4>3. act[y].step \in {"sweep", "upsert"} => Sure(a, i)
        BY <2>0, <3>1, <3>5, <4>1 DEF NamedSure, Holding
      <4> QED  BY <4>2, <4>3
    <3>6. Sure(b, i)' \/ \E q \in Paths : Parted(i, q)'  BY <2>18, <3>3, <3>4
    <3>7. ASSUME NEW y \in Actors \ {u}, Naming(y), act[y].id = i
          PROVE  /\ b \in Bins /\ Orphan(b, act[y].at, i)'
                 /\ act[y].step \in {"sweep", "upsert"} => Sure(b, i)'
      <4>1. act'[y].at = a /\ act[y].at = a  BY <2>1, <3>5, <3>7
      <4> QED  BY <3>2, <3>3, <3>5, <3>7, <4>1
    <3> QED  BY <3>1, <3>6, <3>7
  <2>22. LiveBefore({u}, {})
    <3>1. \A i \in Ids : Holds(u, i)' => Holds(u, i)  BY <1>1, <2>1 DEF Holds, Naming
    <3> QED  BY <1>2, <3>1 DEF LiveBefore, Carried
  <2>23. ASSUME NEW y \in Actors PROVE PassesNone(y)'
    <3> SUFFICES ASSUME NEW q \in Places, Passing(y, q)', file'[q] # None PROVE file'[q] \in displaced'
      BY DEF PassesNone, Exists
    <3>1. Passing(y, q) /\ y # u /\ q # a  BY <2>2, <2>11
    <3>2. q # b  BY <2>4, <3>1 DEF Passing
    <3>3. file'[q] = file[q]  BY <2>2, <3>1, <3>2
    <3> QED  BY <2>2, <2>3, <3>1, <3>3 DEF Heeds, PassesNone, Exists
  <2>24. ASSUME NEW y \in Actors \ {u} PROVE act'[y] = act[y] /\ Heeds(y)'
    <3>0. act'[y] = act[y]  BY <2>1
    <3>1. HasLock(y)' /\ Signed(y)'  BY <1>2, <2>3, <3>0 DEF Heeds, HasLock, Naming, Signed
    <3>2. ASSUME NEW q \in Places, q = act[y].at
          PROVE  /\ Exists(q)' => file'[q] = file[q] /\ Exists(q)
                 /\ Clean(file[q])' /\ Exists(q)' => Clean(file[q])
      <4>1. q # b  BY <2>4, <3>2
      <4> QED  BY <2>2, <4>1 DEF Exists, Clean
    <3>3. LeftBin(y)'
      <4>1. act[y].step = "follow" => act[y].at \in Places  BY <2>3 DEF Fielded
      <4> QED  BY <2>3, <3>0, <3>2, <4>1 DEF Heeds, LeftBin
    <3>4. NoteFits(y)'
      <4>1. act[y].step = "note" => act[y].at \in Places  BY <2>0, <2>3 DEF Fielded
      <4> QED  BY <1>2, <2>3, <3>0, <3>2, <4>1 DEF Heeds, NoteFits
    <3>5. MatchBare(y)'
      <4> SUFFICES ASSUME act[y].step = "match", NEW q \in Paths, q = act[y].at, Exists(q)', Clean(file[q])'
                   PROVE  Bare(q)'
        BY <2>3, <3>0 DEF MatchBare, Fielded, Indexing
      <4>1. Bare(q) /\ q \in Places /\ q # b  BY <2>0, <2>3, <3>2 DEF Heeds, MatchBare
      <4> QED  BY <2>6, <2>8, <4>1 DEF Bare
    <3> QED  BY <2>23, <3>0, <3>1, <3>3, <3>4, <3>5 DEF Heeds
  <2>25. act'[u].step \in {"stamp", "carry"} /\ ~Naming(u)'  BY <2>1 DEF Naming
  <2>26. Heeds(u)' /\ NamesFit(u)'
    <3>1. HasLock(u)' /\ LeftBin(u)' /\ Signed(u)' /\ NoteFits(u)' /\ MatchBare(u)'
      BY <2>25 DEF HasLock, LeftBin, Signed, NoteFits, MatchBare
    <3>2. NamesFit(u)'  BY <2>25 DEF NamesFit, WriteFits, NamedAt, NamedSure
    <3> QED  BY <1>1, <2>23, <3>1, <3>2 DEF Heeds
  <2>27. \A y \in Actors : Apart(u, y)'  BY <2>25 DEF Apart
  <2>28. Single'  BY <2>0, <2>2 DEF IdInv, Single, Exists
  <2>29. \A z \in {u} : Heeds(z)' /\ NamesFit(z)'  BY <2>26
  <2>30. \A z \in {u}, y \in Actors : Apart(z, y)'  BY <2>27
  <2> QED
    BY <1>1, <1>2, <2>2, <2>15, <2>17, <2>19, <2>21, <2>22, <2>24, <2>28, <2>29, <2>30, IdsOn
<1> QED  BY <1>3, <1>4 DEF Bin

\* The purge empties a place of the Trash.
LEMMA PurgeFileIds == ASSUME Typed, IdInv, PurgeFile PROVE IdInv'
<1> DEFINE x == "worker"
<1>1. act \in [Actors -> Acts] /\ act[x] \in Acts /\ x \in Actors /\ Shaped /\ Owned
      /\ act[x].step = "purge"
  BY Names, Facts DEF PurgeFile, At
<1>2. UNCHANGED <<owner, row, lock>>  BY DEF PurgeFile
<1>3. PICK e \in act[x].bins :
        \/ /\ e[1] \in Bins
           /\ file' = [file EXCEPT ![e[1]] = None]
           /\ side' = [side EXCEPT ![e[1]] = None]
           /\ displaced' = IF Exists(e[1]) \/ side[e[1]] = None THEN displaced
                           ELSE displaced \cup {owner[side[e[1]]]}
           /\ act' = [act EXCEPT ![x] = [@ EXCEPT !.step = "delete", !.at = e[1], !.id = e[2],
                                                  !.bins = act[x].bins \ {e}]]
        \/ /\ act' = [act EXCEPT ![x] = Idle]
           /\ UNCHANGED <<file, side, displaced>>
  BY DEF PurgeFile, disk
<1>4. CASE act' = [act EXCEPT ![x] = Idle] /\ UNCHANGED <<file, side, displaced>>
  <2>1. Alone(x) /\ act'[x].step = "idle"  BY <1>1, <1>4, IdleFields, Sets
  <2> QED  BY <1>1, <1>2, <1>4, <2>1, IdsPlain
<1>5. CASE /\ e[1] \in Bins
           /\ file' = [file EXCEPT ![e[1]] = None]
           /\ side' = [side EXCEPT ![e[1]] = None]
           /\ displaced' = IF Exists(e[1]) \/ side[e[1]] = None THEN displaced
                           ELSE displaced \cup {owner[side[e[1]]]}
           /\ act' = [act EXCEPT ![x] = [@ EXCEPT !.step = "delete", !.at = e[1], !.id = e[2],
                                                  !.bins = act[x].bins \ {e}]]
  <2> SUFFICES ASSUME NEW b \in Bins, b = e[1] PROVE IdInv'  BY <1>5
  <2>0. /\ \A v \in Requests : v \in Actors /\ v # x
        /\ \A q \in Paths : q \in Places /\ q \notin Bins
        /\ \A q \in Bins : q \in Places
        /\ None \notin Places /\ None \notin Ids
    BY Names
  <2>1. Alone(x) /\ act'[x].step = "delete"
    <3> DEFINE rest == act[x].bins \ {e}
               l == [act[x] EXCEPT !.step = "delete", !.at = b, !.id = e[2], !.bins = rest]
    <3>1. act' = [act EXCEPT ![x] = l]  BY <1>5
    <3>2. rest \in SUBSET Entries /\ e[2] \in Ids /\ b \in Places
      BY <1>1, <2>0 DEF Acts, Entries
    <3> HIDE DEF rest
    <3>3. l \in Acts /\ l.step = "delete"  BY <1>1, <3>2 DEF Acts, Steps
    <3> HIDE DEF l
    <3> QED  BY <1>1, <3>1, <3>3, Sets
  <2>2. /\ file'[b] = None /\ side'[b] = None
        /\ \A q \in Places \ {b} : file'[q] = file[q] /\ side'[q] = side[q]
        /\ displaced \subseteq displaced'
        /\ side[b] # None => Exists(b) \/ owner[side[b]] \in displaced'
    BY <1>1, <1>5, <2>0 DEF Shaped
  <2>3. \A y \in Actors \ {x} : act'[y] = act[y]  BY <2>1 DEF Alone
  <2>4. ASSUME NEW y \in Actors PROVE Fielded(act[y]) /\ Heeds(y)  BY DEF Typed, Fields, IdInv
  <2>5. \A i \in Ids : Mine(i)' => Mine(i) /\ owner[i] # None /\ owner'[i] = owner[i] /\ owner[i] \notin displaced'
    BY <1>2, <2>2, Names DEF Mine, Clean
  <2>6. \A y \in Actors, q \in Places : Passing(y, q)' => Passing(y, q) /\ y # x
    BY <2>1, <2>3 DEF Passing
  <2>7. \A q \in Places, k \in Ids : Claimed(q, k)' => Claimed(q, k)
    <3>1. \A y \in Actors, q \in Places, k \in Ids : Writes(y, q, k)' => Writes(y, q, k)
      BY <2>1, <2>3 DEF Writes
    <3>2. \A q \in Places, k \in Ids : side'[q] = k => side[q] = k  BY <2>0, <2>2
    <3> QED  BY <3>1, <3>2 DEF Claimed
  <2>8. \A v \in Requests : act'[v] = act[v]  BY <2>0, <2>3
  <2>9. \A v \in Requests, q \in Places, k \in Ids : Follows(v, q, k)' => Follows(v, q, k)
    BY <2>0, <2>2, <2>8 DEF Follows
  <2>10. ASSUME NEW q \in Paths, NEW k \in Ids, OnlyId(q, k) PROVE OnlyId(q, k)'
    <3>1. \A j \in Ids : Claimed(q, j)' => j = k  BY <2>0, <2>7, <2>10 DEF OnlyId
    <3>2. ASSUME NEW v \in Requests, act[v].step = "follow", act[v].to = q
          PROVE  act[v].at \in Bins /\ side'[act[v].at] \in {None, k}
      <4>1. act[v].at \in Bins /\ side[act[v].at] \in {None, k}  BY <2>10, <3>2 DEF OnlyId
      <4> QED  BY <2>0, <2>2, <4>1
    <3> QED  BY <2>8, <3>1, <3>2 DEF OnlyId
  <2>11. ASSUME NEW q \in Paths, NEW k \in Ids, Mine(k)', Expected(q, k) PROVE Expected(q, k)'
    <3>1. CASE side[q] = k
      <4>1. side'[q] = k  BY <2>0, <2>2, <3>1
      <4> QED  BY <4>1 DEF Expected
    <3>2. ASSUME NEW y \in Actors, act[y].step = "write", act[y].at = q, act[y].id = k PROVE Expected(q, k)'
      <4>1. act'[y] = act[y]  BY <1>1, <2>3, <3>2
      <4> QED  BY <3>2, <4>1 DEF Expected
    <3>3. ASSUME NEW v \in Requests, Follows(v, q, k) PROVE Expected(q, k)'
      <4>1. act[v].step = "follow" /\ act[v].at \in Bins /\ side[act[v].at] = k /\ v \in Actors
        BY <2>0, <3>3 DEF Follows
      <4>2. ~Exists(act[v].at)  BY <2>4, <4>1 DEF Heeds, LeftBin
      <4>3. act[v].at # b  BY <2>0, <2>2, <2>5, <2>11, <4>1, <4>2
      <4>4. side'[act[v].at] = k  BY <2>0, <2>2, <4>1, <4>3
      <4>5. Follows(v, q, k)'  BY <2>8, <3>3, <4>4 DEF Follows
      <4> QED  BY <4>5 DEF Expected
    <3> QED  BY <2>11, <3>1, <3>2, <3>3 DEF Expected
  <2>12. ASSUME NEW c \in Bins, NEW p \in Paths, NEW i \in Ids, Orphan(c, p, i) PROVE Orphan(c, p, i)'
    <3>1. ~Exists(p)' /\ OnlyId(p, i)'
      <4>1. OnlyId(p, i)'  BY <2>10, <2>12 DEF Orphan
      <4> QED  BY <2>0, <2>2, <2>12, <4>1 DEF Orphan, Exists
    <3>2. BoundFor(p, c)'
      <4>1. BoundFor(p, c)  BY <2>12 DEF Orphan
      <4> QED  BY <2>0, <2>3, <2>6, <4>1 DEF BoundFor
    <3>3. Origin(c, p)'
      <4>1. Origin(c, p)  BY <2>12 DEF Orphan
      <4> QED  BY <1>2, <2>8, <4>1 DEF Origin
    <3> QED  BY <3>1, <3>2, <3>3 DEF Orphan
  <2>13. OrphansStay  BY <2>12 DEF OrphansStay
  <2>14. SureStays
    <3> SUFFICES ASSUME NEW i \in Ids, NEW r \in Places, Mine(i)', file'[r] = owner[i], Sure(r, i)
                 PROVE  Sure(r, i)'
      BY DEF SureStays
    <3>1. r # b  BY <2>2, <2>5
    <3>2. CASE r \in Paths  BY <2>0, <2>11, <3>2 DEF Sure
    <3>3. CASE r \in Bins /\ side[r] = i
      <4>1. side'[r] = i  BY <2>2, <3>1, <3>3
      <4> QED  BY <3>3, <4>1 DEF Sure
    <3>4. ASSUME r \in Bins, NEW p \in Paths, Expected(p, i), Orphan(r, p, i) PROVE Sure(r, i)'
      <4>1. Expected(p, i)' /\ Orphan(r, p, i)'  BY <2>11, <2>12, <3>4
      <4> QED  BY <3>4, <4>1 DEF Sure
    <3> QED  BY <3>2, <3>3, <3>4 DEF Sure
  <2>15. PartedStays({x})
    <3> SUFFICES ASSUME NEW i \in Ids, NEW q \in Paths, Parted(i, q) PROVE Parted(i, q)'
      BY DEF PartedStays
    <3>1. OnlyId(q, i)'  BY <2>10 DEF Parted
    <3>2. file'[q] = file[q] /\ side'[q] = side[q]  BY <2>0, <2>2
    <3> QED  BY <1>2, <2>0, <2>3, <2>6, <3>1, <3>2 DEF Parted, Exists
  <2>16. FilesArrive({x})  BY <2>2, <2>5 DEF FilesArrive
  <2>17. LiveBefore({x}, {})
    <3>1. \A i \in Ids : ~Holds(x, i)'  BY <2>1 DEF Holds, Naming
    <3>2. \A i \in Ids, q \in Places : side'[q] = i => side[q] = i  BY <2>0, <2>2
    <3> QED  BY <1>2, <3>1, <3>2 DEF LiveBefore, Carried
  <2>18. ASSUME NEW y \in Actors PROVE PassesNone(y)'
    <3> SUFFICES ASSUME NEW q \in Places, Passing(y, q)', file'[q] # None PROVE file'[q] \in displaced'
      BY DEF PassesNone, Exists
    <3>1. file'[q] = file[q] /\ Passing(y, q)  BY <2>2, <2>6
    <3> QED  BY <2>2, <2>4, <3>1 DEF Heeds, PassesNone, Exists
  <2>19. ASSUME NEW y \in Actors \ {x} PROVE act'[y] = act[y] /\ Heeds(y)'
    <3>0. act'[y] = act[y]  BY <2>3
    <3>1. HasLock(y)'  BY <1>2, <2>4, <3>0 DEF Heeds, HasLock, Naming
    <3>2. LeftBin(y)'
      <4>1. \A q \in Bins : ~Exists(q) => ~Exists(q)'  BY <2>0, <2>2 DEF Exists
      <4> QED  BY <2>4, <3>0, <4>1 DEF Heeds, LeftBin
    <3>3. Signed(y)'
      <4> SUFFICES ASSUME act[y].step = "unlink" PROVE side'[act[y].to] # None
        BY <3>0 DEF Signed
      <4>1. side[act[y].to] # None /\ act[y].to \in Places /\ y \in Requests
        BY <2>0, <2>4 DEF Heeds, Signed, Fielded, Binning, ReqSteps, Typed, Fields
      <4>2. Reserved(y)  BY <4>1 DEF Typed
      <4>3. act[y].to # b  BY <4>2 DEF Reserved, Binning
      <4> QED  BY <2>2, <4>1, <4>3
    <3>4. \A q \in Paths : file'[q] = file[q] /\ side'[q] = side[q]  BY <2>0, <2>2
    <3>5. NoteFits(y)'
      <4>1. act[y].step = "note" => act[y].at \in Paths  BY <2>4 DEF Fielded
      <4> QED  BY <2>2, <2>4, <3>0, <3>4, <4>1 DEF Heeds, NoteFits, Exists, Clean
    <3>6. MatchBare(y)'
      <4> SUFFICES ASSUME act[y].step = "match", NEW q \in Paths, q = act[y].at, Exists(q)', Clean(file[q])'
                   PROVE  Bare(q)'
        BY <2>4, <3>0 DEF MatchBare, Fielded, Indexing
      <4>1. Bare(q) /\ q \in Places  BY <2>0, <2>2, <2>4, <3>4 DEF Heeds, MatchBare, Exists, Clean
      <4> QED  BY <2>7, <2>9, <4>1 DEF Bare
    <3> QED  BY <2>18, <3>0, <3>1, <3>2, <3>3, <3>5, <3>6 DEF Heeds
  <2>20. Heeds(x)' /\ NamesFit(x)'
    <3>1. HasLock(x)' /\ LeftBin(x)' /\ Signed(x)' /\ NoteFits(x)' /\ MatchBare(x)'
      BY <2>1 DEF HasLock, LeftBin, Signed, NoteFits, MatchBare, Naming
    <3>2. NamesFit(x)'  BY <2>1 DEF NamesFit, WriteFits, NamedAt, NamedSure, Naming
    <3> QED  BY <1>1, <2>18, <3>1, <3>2 DEF Heeds
  <2>21. \A y \in Actors : Apart(x, y)'  BY <2>1 DEF Apart, Naming
  <2>22. Single'  BY <2>2 DEF IdInv, Single, Exists
  <2>23. \A z \in {x} : Heeds(z)' /\ NamesFit(z)'  BY <2>20
  <2>24. \A z \in {x}, y \in Actors : Apart(z, y)'  BY <2>21
  <2>25. x \in Actors  BY <1>1
  <2> HIDE DEF x
  <2> QED
    BY <1>2, <2>2, <2>13, <2>14, <2>15, <2>16, <2>17, <2>19, <2>22, <2>23, <2>24, <2>25, IdsOn
<1> QED  BY <1>3, <1>4, <1>5

-----------------------------------------------------------------------------
(* The process.                                                              *)

LEMMA IdleIds ==
    ASSUME NEW x, act[x].step = "idle"
    PROVE  /\ Heeds(x) /\ NamesFit(x) /\ ~Naming(x)
           /\ \A p : ~Passing(x, p)
           /\ \A i : ~Holds(x, i)
           /\ \A p, i : ~Writes(x, p, i)
           /\ \A y : Apart(x, y)
<1>1. ~Naming(x) /\ (\A p : ~Passing(x, p)) /\ (\A i : ~Holds(x, i)) /\ (\A p, i : ~Writes(x, p, i))
  BY DEF Naming, Passing, Holds, Writes
<1>2. Heeds(x)
  BY <1>1 DEF Heeds, PassesNone, HasLock, LeftBin, Signed, NoteFits, MatchBare
<1>3. NamesFit(x)  BY <1>1 DEF NamesFit, WriteFits, NamedAt, NamedSure
<1>4. \A y : Apart(x, y)  BY <1>1 DEF Apart
<1> QED  BY <1>1, <1>2, <1>3, <1>4

\* A crash loses what the operations would have written.
LEMMA CrashIds == ASSUME Typed, IdInv, Crash PROVE IdInv'
<1>1. /\ UNCHANGED <<file, side, owner, row>> /\ displaced' = displaced \cup Halfway
      /\ \A x \in Actors : act'[x].step = "idle"
  BY IdleFields DEF Crash, disk
<1>2. ASSUME NEW x \in Actors
      PROVE  /\ Heeds(x)' /\ NamesFit(x)' /\ ~Naming(x)'
             /\ \A p : ~Passing(x, p)'
             /\ \A i : ~Holds(x, i)'
             /\ \A p, i : ~Writes(x, p, i)'
             /\ \A y : Apart(x, y)'
  <2>1. act'[x].step = "idle"  BY <1>1
  <2>2. ~Naming(x)' /\ (\A p : ~Passing(x, p)') /\ (\A i : ~Holds(x, i)') /\ (\A p, i : ~Writes(x, p, i)')
    BY <2>1 DEF Naming, Passing, Holds, Writes
  <2>3. Heeds(x)'
    BY <2>1, <2>2 DEF Heeds, PassesNone, HasLock, LeftBin, Signed, NoteFits, MatchBare
  <2>4. NamesFit(x)'  BY <2>1, <2>2 DEF NamesFit, WriteFits, NamedAt, NamedSure
  <2>5. \A y : Apart(x, y)'  BY <2>1, <2>2 DEF Apart
  <2> QED  BY <2>2, <2>3, <2>4, <2>5
<1>3. \A i \in Ids : Mine(i)' => Mine(i) /\ owner'[i] = owner[i] /\ owner[i] \in Files
  BY <1>1 DEF Mine, Clean
<1>4. \A i \in Ids : Live(i)' => Carried(i) /\ Live(i)  BY <1>1, <1>2 DEF Live, Carried
<1>5. Marked' /\ Single'  BY <1>1 DEF IdInv, Marked, Single, Exists
<1>6. Uniq'
  <2> SUFFICES ASSUME NEW i \in Ids, NEW j \in Ids, owner[i] = owner[j], Mine(i)', Live(i)', Live(j)'
               PROVE  i = j
    BY <1>1 DEF Uniq
  <2> QED  BY <1>3, <1>4 DEF IdInv, Uniq
<1>7. \A u \in Requests : act'[u].step = "idle"  BY <1>1, Names
<1>8. \A p \in Paths, i \in Ids : OnlyId(p, i) => OnlyId(p, i)'
  BY <1>1, <1>2, <1>7 DEF OnlyId, Claimed
<1>9. \A b \in Bins, p \in Paths, i \in Ids : Orphan(b, p, i) => Orphan(b, p, i)'
  <2> SUFFICES ASSUME NEW b \in Bins, NEW p \in Paths, NEW i \in Ids, Orphan(b, p, i) PROVE Orphan(b, p, i)'
    OBVIOUS
  <2>1. BoundFor(p, b)'  BY <1>2 DEF BoundFor
  <2>2. Origin(b, p)'  BY <1>1, <1>7 DEF Origin, Orphan, Binning
  <2> QED  BY <1>1, <1>8, <2>1, <2>2 DEF Orphan, Exists
<1>10. \A i \in Ids, q \in Paths : Parted(i, q) => Parted(i, q)'
  BY <1>1, <1>2, <1>8 DEF Parted, Exists
<1>11. ASSUME NEW i \in Ids, NEW r \in Places, Mine(i)', Live(i)', file[r] = owner[i]
       PROVE  Sure(r, i)' \/ \E q \in Paths : Parted(i, q)'
  <2>1. Sure(r, i) \/ \E q \in Paths : Parted(i, q)
    BY <1>3, <1>4, <1>11 DEF IdInv, Found, Holding
  <2>2. ASSUME NEW p \in Paths, Expected(p, i), p = r \/ r \in Bins
        PROVE  side[p] = i \/ \E q \in Paths : Parted(i, q)'
    <3>1. ASSUME NEW y \in Actors, act[y].step = "write", act[y].id = i
          PROVE  \E q \in Paths : Parted(i, q)'
      <4>1. WriteFits(y) /\ Carried(i) /\ Mine(i)  BY <1>3, <1>4, <1>11 DEF IdInv, NamesFit
      <4>2. Parted(i, act[y].to)  BY <3>1, <4>1 DEF WriteFits
      <4> QED  BY <1>10, <4>2 DEF Parted
    <3>2. ASSUME NEW u \in Requests, Follows(u, p, i) PROVE FALSE
      <4>1. owner[i] \in Halfway
        BY <1>3, <1>11, <3>2 DEF Follows, Halfway, At
      <4> QED  BY <1>1, <1>11, <4>1 DEF Mine, Clean
    <3> QED  BY <2>2, <3>1, <3>2 DEF Expected
  <2>3. CASE r \in Paths /\ Expected(r, i)
    <3>1. side[r] = i => Sure(r, i)'  BY <1>1, <2>3 DEF Sure, Expected
    <3> QED  BY <2>2, <2>3, <3>1
  <2>4. CASE r \in Bins /\ side[r] = i  BY <1>1, <2>4 DEF Sure
  <2>5. ASSUME r \in Bins, NEW p \in Paths, Expected(p, i), Orphan(r, p, i)
        PROVE  Sure(r, i)' \/ \E q \in Paths : Parted(i, q)'
    <3>1. side[p] = i => Expected(p, i)'  BY <1>1 DEF Expected
    <3>2. Orphan(r, p, i)'  BY <1>9, <2>5
    <3>3. side[p] = i => Sure(r, i)'  BY <2>5, <3>1, <3>2 DEF Sure
    <3> QED  BY <2>2, <2>5, <3>3
  <2>6. CASE \E q \in Paths : Parted(i, q)  BY <1>10, <2>6
  <2> QED  BY <2>1, <2>3, <2>4, <2>5, <2>6 DEF Sure
<1>12. Found'  BY <1>1, <1>11 DEF Found, Holding
<1> QED  BY <1>2, <1>5, <1>6, <1>12 DEF IdInv

LEMMA StillIds == ASSUME Typed, IdInv, UNCHANGED vars PROVE IdInv'
<1>1. UNCHANGED <<file, side, owner, row, lock, act, displaced>>  BY DEF vars, disk
<1>2. Single'  BY <1>1 DEF IdInv, Single, Exists
<1>3. FilesArrive({})  BY <1>1 DEF FilesArrive
<1>4. \A i \in Ids, q \in Places : side'[q] = i => Carried(i)  BY <1>1 DEF Carried
<1>5. /\ {} \in SUBSET Paths
      /\ \A t \in {} : Untouched(t, Actors)
      /\ \A i \in Ids, t \in {} : Mine(i)' /\ side[t] = i =>
               Exists(t) /\ (file'[t] = owner[i] => side'[t] = i)
      /\ \A q \in Places \ {} : file'[q] = file[q] /\ side'[q] = side[q]
  BY <1>1
<1> QED  BY <1>1, <1>2, <1>3, <1>4, <1>5, AroundIds

LEMMA InitIds == ASSUME Init PROVE IdInv /\ Stopped
<1>1. /\ \A x \in Actors : act[x].step = "idle"
      /\ \A p \in Places : file[p] = None
      /\ \A i \in Ids : owner[i] = None
  BY IdleFields DEF Init, InitWith
<1>2. \A i \in Ids : ~Mine(i)  BY <1>1, Names DEF Mine, Clean
<1>3. Marked /\ Single /\ Uniq /\ Found
  BY <1>1, <1>2 DEF Marked, Single, Uniq, Found, Exists
<1> QED  BY <1>1, <1>3, IdleIds DEF IdInv, Stopped

LEMMA StepStopped == ASSUME Stopped, [Next]_vars PROVE Stopped'
<1> SUFFICES ASSUME process' = "down", ~Crash PROVE \A x \in Actors : act'[x].step = "idle"
  BY IdleFields DEF Stopped, Crash
<1>1. CASE UNCHANGED vars  BY <1>1 DEF vars, Stopped
<1>2. CASE Add \/ Move \/ Remove \/ Strip  BY <1>2 DEF Add, Move, Remove, Strip, Stopped
<1>3. ASSUME NEW x \in Actors, IndexStep(x) \/ List(x) \/ Wipe(x) \/ NextFile(x) PROVE FALSE
  BY <1>3 DEF IndexStep, Read, Match, Write, Sweep, Upsert, List, Wipe, NextFile, At, Stopped
<1>4. ASSUME NEW u \in Requests, Request(u) PROVE FALSE
  <2>1. u \in Actors  BY Names
  <2>2. process = "down" /\ act[u].step = "idle"
    <3>1. process' = process
      BY <1>4 DEF Request, AskScan, AskCopy, AskEdit, Note, AskRecover, Forget, AskTrash, Bin, Stamp,
        Unlink, Carry, Trash, AskRestore, Out, Follow, Restore
    <3> QED  BY <2>1, <3>1 DEF Stopped
  <2> QED
    BY <1>4, <2>2 DEF Request, AskScan, AskCopy, AskEdit, Note, AskRecover, Forget, AskTrash, Bin,
      Stamp, Unlink, Carry, Trash, AskRestore, Out, Follow, Restore, At, Free
<1>5. CASE Ready \/ Import \/ Purge \/ PurgeFile \/ PurgeRow \/ Boot
  <2>1. "worker" \in Actors  BY Names
  <2> QED  BY <1>5, <2>1 DEF Ready, Import, Purge, PurgeFile, PurgeRow, Boot, At, Stopped
<1> QED  BY <1>1, <1>2, <1>3, <1>4, <1>5 DEF Next

LEMMA StepIds == ASSUME Typed, SideInv, IdInv, Stopped, [Next]_vars PROVE IdInv'
<1>1. ASSUME NEW x \in Actors, IndexStep(x) \/ List(x) \/ Wipe(x) \/ NextFile(x) PROVE IdInv'
  BY <1>1, ReadIds, MatchIds, WriteIds, UpsertIds, ReindexIds, RowsGoIds DEF IndexStep
<1>2. ASSUME NEW u \in Requests, Request(u) PROVE IdInv'
  <2>1. u \in Actors  BY Names
  <2> QED
    BY <1>2, <2>1, AskIds, CopyIds, NoteIds, RowsGoIds, BinIds, BringIds, TrashIds, OutIds, RestoreIds
      DEF Request
<1>3. PurgeRow => IdInv'
  <2>1. "worker" \in Actors  BY Names
  <2> QED  BY <2>1, RowsGoIds
<1> QED
  BY <1>1, <1>2, <1>3, ServeIds, PurgeFileIds, CrashIds, UserIds, MoveIds, StillIds DEF Next

\* A file keeps the one id it got: no two of watcher, import, reindex, repair and edit make
\* two for it, in whatever order their steps fall, and neither a move by another program
\* nor the Trash nor a crash makes the next indexer give it a second one, unless it came to
\* a place under the hands of somebody else, or lost its sidecar while nothing else knew it.
THEOREM FileHasOneId == Spec => []OneId
<1>1. Init => Typed /\ SideInv /\ IdInv /\ Stopped  BY InitTyped, InitSides, InitIds
<1>2. Typed /\ SideInv /\ IdInv /\ Stopped /\ [Next]_vars => Typed' /\ SideInv' /\ IdInv' /\ Stopped'
  BY StepTyped, StepSides, StepIds, StepStopped
<1>3. Typed /\ IdInv => OneId
  <2> SUFFICES ASSUME Typed, IdInv, NEW f \in Files \ displaced
               PROVE  Cardinality({i \in Ids : owner[i] = f /\ Carried(i)}) <= 1
    BY DEF OneId
  <2> DEFINE S == {i \in Ids : owner[i] = f /\ Carried(i)}
  <2>1. ASSUME NEW i \in S, NEW j \in S PROVE i = j
    <3>1. owner[i] = f /\ owner[j] = f /\ f # None /\ Live(i) /\ Live(j) /\ i \in Ids /\ j \in Ids
      BY <2>1, Names DEF Live
    <3>2. CASE Embedded[f] = None  BY <3>1, <3>2 DEF IdInv, Uniq, Mine, Clean
    <3>3. CASE Embedded[f] # None  BY <3>1, <3>3 DEF IdInv, Marked
    <3> QED  BY <3>2, <3>3
  <2> HIDE DEF S
  <2>2. CASE S = {}
    <3>1. Cardinality(S) = 0  BY <2>2, FS_EmptySet
    <3> QED  BY <3>1 DEF S
  <2>3. CASE S # {}
    <3>1. PICK i \in S : TRUE  BY <2>3
    <3>2. S = {i}  BY <2>1, <3>1
    <3>3. Cardinality(S) = 1  BY <3>2, FS_Singleton
    <3> QED  BY <3>3 DEF S
  <2> QED  BY <2>2, <2>3
<1> QED  BY <1>1, <1>2, <1>3, PTL DEF Spec

-----------------------------------------------------------------------------
(* The index: what a file of the Library waits for until a row has it.       *)

\* An indexer at a file has an id that was made for it.
NamesOwn(x) ==
    Naming(x) /\ Exists(act[x].at) =>
        owner[act[x].id] = file[act[x].at] \/ file[act[x].at] \in displaced
\* The file is there, or in the Trash, from where it will come back there.
NamesHere(x) ==
    Naming(x) /\ owner[act[x].id] \notin displaced =>
        \A r \in Places : Holding(r, owner[act[x].id]) =>
            r = act[x].at \/ (r \in Bins /\ ~Exists(act[x].at) /\ Origin(r, act[x].at))
\* The place a deletion or a restore has emptied stays empty until it writes the row.
Vacant(x) ==
    act[x].step \in {"trashed", "restored"} /\ act[x].at \in Paths /\ Exists(act[x].at) =>
        file[act[x].at] \in displaced
\* Only a reindex, at work or between two files, has files to index.
Listing(x) == act[x].todo # {} => act[x].step \in {"wipe", "next"} \cup Indexing
Orderly(x) == NamesOwn(x) /\ NamesHere(x) /\ Vacant(x) /\ Listing(x)

Indexed(p) == \E i \in Ids : row[i].at = p /\ owner[i] = file[p]
ToIndex(x, p) == p \in act[x].todo \/ (act[x].step \in Indexing /\ act[x].at = p)
\* A row has the file of a path, or somebody will index it, or it is known that nobody will.
Cares(p) == p \in due \cup missed \/ Indexed(p) \/ \E x \in Actors : ToIndex(x, p)
\* The reindex of the start has begun.
Awake == process # "down" /\ act["starter"].step # "list"
Cared == Awake => \A p \in Paths : Exists(p) /\ file[p] \notin displaced => Cares(p)

RestInv == Cared /\ \A x \in Actors : Orderly(x)
-----------------------------------------------------------------------------
(* What a step keeps of it.                                                  *)

\* An id in use that becomes another file's is an exception of both.
Used(i) == Carried(i) \/ \E x \in Actors : Naming(x) /\ act[x].id = i
OwnersStay ==
    \A i \in Ids : Used(i) => owner'[i] = owner[i] \/ {owner[i], owner'[i]} \subseteq displaced'
Heard == due \cup missed \subseteq due' \cup missed'

LEMMA NamedFields ==
    ASSUME Typed, NEW x \in Actors, Naming(x)
    PROVE  /\ act[x].at \in Paths /\ act[x].at \in Places /\ act[x].id \in Ids
           /\ owner[act[x].id] # None /\ owner[act[x].id] \in Files /\ Used(act[x].id)
  BY Names DEF Typed, Fields, Fielded, Naming, Made, Indexing, TypeOK, Used

\* Nobody else is disturbed where no file comes.
LEMMA OrderlyStays ==
    ASSUME Typed, RestInv, NEW y \in Actors, act'[y] = act[y], displaced \subseteq displaced',
           OwnersStay, OriginsStay, \A r \in Places : file'[r] \in {file[r], None}
    PROVE  Orderly(y)'
<1>1. Orderly(y)  BY DEF RestInv
<1>2. NamesOwn(y)'
  <2> SUFFICES ASSUME Naming(y), Exists(act[y].at)'
               PROVE  owner'[act[y].id] = file'[act[y].at] \/ file'[act[y].at] \in displaced'
    BY DEF NamesOwn, Naming
  <2>1. act[y].at \in Places /\ act[y].id \in Ids /\ Used(act[y].id)  BY NamedFields
  <2>2. file'[act[y].at] = file[act[y].at] /\ Exists(act[y].at)  BY <2>1 DEF Exists
  <2> QED  BY <1>1, <2>1, <2>2 DEF Orderly, NamesOwn, OwnersStay
<1>3. NamesHere(y)'
  <2> SUFFICES ASSUME Naming(y), owner'[act[y].id] \notin displaced',
                      NEW r \in Places, file'[r] = owner'[act[y].id]
               PROVE  r = act[y].at \/ (r \in Bins /\ ~Exists(act[y].at)' /\ Origin(r, act[y].at)')
    BY DEF NamesHere, Naming, Holding
  <2>1. /\ act[y].at \in Paths /\ act[y].at \in Places /\ act[y].id \in Ids
        /\ owner[act[y].id] # None /\ Used(act[y].id)
    BY NamedFields
  <2>2. owner'[act[y].id] = owner[act[y].id]  BY <2>1 DEF OwnersStay
  <2>3. file[r] = owner[act[y].id] /\ Exists(r)  BY <2>1, <2>2 DEF Exists
  <2>4. r = act[y].at \/ (r \in Bins /\ ~Exists(act[y].at) /\ Origin(r, act[y].at))
    BY <1>1, <2>2, <2>3 DEF Orderly, NamesHere, Holding
  <2>5. ~Exists(act[y].at) => ~Exists(act[y].at)'  BY <2>1 DEF Exists
  <2> QED  BY <2>1, <2>3, <2>4, <2>5 DEF OriginsStay
<1>4. Vacant(y)'  BY <1>1, Names DEF Orderly, Vacant, Exists
<1>5. Listing(y)'  BY <1>1 DEF Orderly, Listing
<1> QED  BY <1>2, <1>3, <1>4, <1>5 DEF Orderly

\* Nor where a file comes that concerns nobody at that place, or is an exception with theirs.
LEMMA OrderlyComes ==
    ASSUME Typed, RestInv, NEW y \in Actors, act'[y] = act[y], displaced \subseteq displaced',
           owner' = owner, OriginsStay, NEW d \in Places, NEW f \in Files, file'[d] = f,
           \A r \in Places \ {d} : file'[r] \in {file[r], None},
           Touches(y, d) => {f} \cup Concerned(y) \subseteq displaced',
           Naming(y) /\ owner[act[y].id] = f /\ f \notin displaced' =>
               d = act[y].at \/ (d \in Bins /\ ~Exists(act[y].at)' /\ Origin(d, act[y].at)')
    PROVE  Orderly(y)'
<1>1. Orderly(y)  BY DEF RestInv
<1>2. act[y].at = d => f \in displaced'  BY DEF Touches
<1>3. NamesOwn(y)'
  <2> SUFFICES ASSUME Naming(y), Exists(act[y].at)', act[y].at # d
               PROVE  owner'[act[y].id] = file'[act[y].at] \/ file'[act[y].at] \in displaced'
    BY <1>2 DEF NamesOwn, Naming
  <2>1. act[y].at \in Places  BY NamedFields
  <2>2. file'[act[y].at] = file[act[y].at] /\ Exists(act[y].at)  BY <2>1 DEF Exists
  <2> QED  BY <1>1, <2>2 DEF Orderly, NamesOwn
<1>4. NamesHere(y)'
  <2> SUFFICES ASSUME Naming(y), owner[act[y].id] \notin displaced',
                      NEW r \in Places, file'[r] = owner[act[y].id], r # d
               PROVE  r = act[y].at \/ (r \in Bins /\ ~Exists(act[y].at)' /\ Origin(r, act[y].at)')
    BY DEF NamesHere, Naming, Holding
  <2>1. /\ act[y].at \in Paths /\ act[y].at \in Places /\ act[y].id \in Ids
        /\ owner[act[y].id] # None /\ owner[act[y].id] \in Files
    BY NamedFields
  <2>2. file[r] = owner[act[y].id] /\ Exists(r)  BY <2>1 DEF Exists
  <2>3. r = act[y].at \/ (r \in Bins /\ ~Exists(act[y].at) /\ Origin(r, act[y].at))
    BY <1>1, <2>2 DEF Orderly, NamesHere, Holding
  <2>4. owner[act[y].id] \in Concerned(y)  BY <2>1 DEF Concerned
  <2>5. act[y].at # d  BY <2>4 DEF Touches
  <2>6. ~Exists(act[y].at) => ~Exists(act[y].at)'  BY <2>1, <2>5 DEF Exists
  <2> QED  BY <2>1, <2>2, <2>3, <2>6 DEF OriginsStay
<1>5. Vacant(y)'
  <2> SUFFICES ASSUME act[y].step \in {"trashed", "restored"}, act[y].at \in Paths, Exists(act[y].at)',
                      act[y].at # d
               PROVE  file'[act[y].at] \in displaced'
    BY <1>2 DEF Vacant
  <2> QED  BY <1>1, Names DEF Orderly, Vacant, Exists
<1>6. Listing(y)'  BY <1>1 DEF Orderly, Listing
<1> QED  BY <1>3, <1>4, <1>5, <1>6 DEF Orderly

\* A file that stays is still cared for.
LEMMA CaredStays ==
    ASSUME RestInv, NEW S \in SUBSET Actors, \A y \in Actors \ S : act'[y] = act[y],
           displaced \subseteq displaced', Awake' => Awake,
           \A p \in Paths : \/ file'[p] \in {file[p], None}
                            \/ Cares(p)' \/ file'[p] \in displaced',
           \A p \in Paths : Exists(p) /\ file[p] \notin displaced' /\ file'[p] = file[p] =>
               /\ p \in due \cup missed => Cares(p)'
               /\ Indexed(p) => Cares(p)'
               /\ \A x \in S : ToIndex(x, p) => Cares(p)'
    PROVE  Cared'
<1> SUFFICES ASSUME Awake', NEW p \in Paths, Exists(p)', file'[p] \notin displaced', file'[p] = file[p]
             PROVE  Cares(p)'
  BY DEF Cared, Exists
<1>1. Exists(p) /\ file[p] \notin displaced  BY DEF Exists
<1>2. Cares(p)  BY <1>1 DEF RestInv, Cared
<1>3. ASSUME NEW y \in Actors \ S, ToIndex(y, p) PROVE Cares(p)'
  BY <1>3 DEF ToIndex, Cares
<1> QED  BY <1>1, <1>2, <1>3 DEF Cares

LEMMA IndexedStays ==
    ASSUME row' = row, OwnersStay, NEW p \in Paths, Exists(p), file[p] \notin displaced',
           file'[p] = file[p], Indexed(p)
    PROVE  Indexed(p)'
<1>1. PICK i \in Ids : row[i].at = p /\ owner[i] = file[p]  BY DEF Indexed
<1>2. Used(i)  BY <1>1, Names DEF Used, Carried
<1>3. owner'[i] = owner[i]  BY <1>1, <1>2 DEF OwnersStay, Exists
<1> QED  BY <1>1, <1>3 DEF Indexed

LEMMA RestKept ==
    ASSUME Typed, RestInv, NEW S \in SUBSET Actors, \A y \in Actors \ S : act'[y] = act[y],
           displaced \subseteq displaced', OwnersStay, OriginsStay,
           \A r \in Places : file'[r] \in {file[r], None},
           \A x \in S : Orderly(x)', Awake' => Awake,
           \A p \in Paths : Exists(p) /\ file[p] \notin displaced' /\ file'[p] = file[p] =>
               /\ p \in due \cup missed => Cares(p)'
               /\ Indexed(p) => Cares(p)'
               /\ \A x \in S : ToIndex(x, p) => Cares(p)'
    PROVE  RestInv'
<1>1. \A y \in Actors \ S : Orderly(y)'  BY OrderlyStays
<1>2. \A p \in Paths : file'[p] \in {file[p], None}  BY Names
<1>3. Cared'  BY <1>2, CaredStays
<1> QED  BY <1>1, <1>3 DEF RestInv

\* A step that leaves the rows alone and forgets no change.
LEMMA RestPlain ==
    ASSUME Typed, RestInv, NEW x \in Actors, Alone(x), row' = row, Heard,
           displaced \subseteq displaced', OwnersStay, OriginsStay, process' = process,
           \A r \in Places : file'[r] \in {file[r], None}, act[x].step # "list",
           Orderly(x)', \A p \in Paths : Exists(p) /\ ToIndex(x, p) => Cares(p)'
    PROVE  RestInv'
<1>1. Awake' => Awake  BY Names DEF Awake, Alone
<1>2. \A y \in Actors \ {x} : act'[y] = act[y]  BY DEF Alone
<1>3. Shaped  BY Facts
<1>4. ASSUME NEW p \in Paths, Exists(p), file[p] \notin displaced', file'[p] = file[p]
      PROVE  /\ p \in due \cup missed => Cares(p)'
             /\ Indexed(p) => Cares(p)'
             /\ \A z \in {x} : ToIndex(z, p) => Cares(p)'
  <2>1. Indexed(p) => Indexed(p)'  BY <1>3, <1>4, IndexedStays
  <2> QED  BY <1>4, <2>1 DEF Cares, Heard
<1>5. {x} \in SUBSET Actors /\ \A z \in {x} : Orderly(z)'  OBVIOUS
<1>6. \A y \in Actors \ {x} : act'[y] = act[y]  BY <1>2
<1> HIDE DEF RestInv
<1> QED  BY <1>1, <1>4, <1>5, <1>6, RestKept

LEMMA OwnersSame == ASSUME owner' = owner PROVE OwnersStay  BY DEF OwnersStay

\* Where the files of the Trash came from.
LEMMA OriginsOn ==
    ASSUME NEW x \in Actors, Alone(x),
           \A i \in Ids : row'[i].at \in Bins =>
               \/ row'[i] = row[i]
               \/ /\ row'[i] = [at |-> act[x].to, from |-> act[x].at]
                  /\ x \in Requests /\ act[x].step \in Binning,
           act'[x].step \in Binning =>
               \/ act[x].step \in Binning /\ act'[x].at = act[x].at /\ act'[x].to = act[x].to
               \/ ~Exists(act'[x].to),
           act'[x].step = "out" =>
               \A p \in Paths : ~Exists(p) /\ Origin(act'[x].at, p) => act'[x].to = p
    PROVE  OriginsStay
<1> SUFFICES ASSUME NEW b \in Bins, NEW p \in Paths, Exists(b), ~Exists(p), Origin(b, p)
             PROVE  Origin(b, p)'
  BY DEF OriginsStay
<1>1. \A v \in Requests \ {x} : act'[v] = act[v]  BY Names DEF Alone
<1>2. \A i \in Ids : row'[i].at = b => row'[i].from = p  BY DEF Origin
<1>3. \A u \in Requests : act'[u].step \in Binning /\ act'[u].to = b => act'[u].at = p
  BY <1>1 DEF Origin
<1>4. \A u \in Requests : act'[u].step = "out" /\ act'[u].at = b => act'[u].to = p
  BY <1>1 DEF Origin
<1> QED  BY <1>2, <1>3, <1>4 DEF Origin

LEMMA OriginsSame == ASSUME UNCHANGED <<row, act>> PROVE OriginsStay
  BY DEF OriginsStay, Origin
LEMMA Hears ==
    /\ Quiet => Heard
    /\ \A ps : Notice(ps) => Heard /\ ps \cap Paths \subseteq due' \cup missed'
    /\ \A p : Dismiss(p) => Heard
  BY DEF Quiet, Notice, Dismiss, Heard

LEMMA DoneKeeps ==
    ASSUME act \in [Actors -> Acts], NEW x \in Actors, Done(x)
    PROVE  Alone(x) /\ act'[x].step \in {"idle", "next"} /\ act'[x].todo = act[x].todo
<1>1. CASE x = "starter" \/ act[x].todo # {}
  BY <1>1 DEF Done, Alone, Acts, Steps
<1>2. CASE ~(x = "starter" \/ act[x].todo # {})
  BY <1>2, IdleFields DEF Done, Alone
<1> QED  BY <1>1, <1>2

LEMMA OrderlyNext ==
    ASSUME NEW x, act'[x].step \notin {"write", "sweep", "upsert", "trashed", "restored"},
           act'[x].todo = {} \/ act'[x].step \in {"wipe", "next"} \cup Indexing
    PROVE  Orderly(x)'
  BY DEF Orderly, NamesOwn, NamesHere, Vacant, Listing, Naming

LEMMA OrderlyDone ==
    ASSUME act \in [Actors -> Acts], NEW x \in Actors, Done(x) PROVE Orderly(x)'
<1>1. CASE x = "starter" \/ act[x].todo # {}
  <2>1. act'[x].step = "next"  BY <1>1 DEF Done, Acts
  <2> QED  BY <2>1, OrderlyNext
<1>2. CASE ~(x = "starter" \/ act[x].todo # {})
  <2>1. act'[x] = Idle  BY <1>2 DEF Done
  <2> QED  BY <2>1, IdleFields, OrderlyNext
<1> QED  BY <1>1, <1>2

-----------------------------------------------------------------------------
(* The indexers.                                                             *)

LEMMA ReadRest == ASSUME Typed, SideInv, IdInv, RestInv, NEW x \in Actors, Read(x) PROVE RestInv'
<1>1. /\ act \in [Actors -> Acts] /\ act[x] \in Acts /\ Shaped /\ act[x].at \in Paths
      /\ act[x].step = "lock" /\ act[x].at \in Places
  BY Facts, Names DEF Read, At, Fielded, Indexing
<1>2. UNCHANGED <<file, side, owner, row, process>> /\ Heard /\ displaced \subseteq displaced'
  BY Hears DEF Read, disk
<1> DEFINE p == act[x].at
<1>3. CASE ~Exists(p) /\ Done(x)
  <2>1. /\ Alone(x) /\ act'[x].step \in {"idle", "next"}
        /\ act'[x].todo = act[x].todo
    BY <1>1, <1>3, DoneKeeps
  <2>2. Orderly(x)'  BY <1>1, <1>3, OrderlyDone DEF Throw
  <2>3. OriginsStay  BY <1>1, <1>2, <2>1, OriginsOn DEF Binning
  <2>4. \A q \in Paths : Exists(q) /\ ToIndex(x, q) => Cares(q)'
    BY <1>1, <1>3, <2>1 DEF ToIndex, Cares
  <2> QED  BY <1>1, <1>2, <2>1, <2>2, <2>3, <2>4, OwnersSame, RestPlain
<1>4. CASE /\ Exists(p)
           /\ act' = [act EXCEPT ![x].id = side[p],
                                 ![x].step = IF side[p] # None THEN "upsert" ELSE "match"]
           /\ displaced \subseteq displaced'
  <2>1. side[p] \in Ids \cup {None} /\ file[p] \in Files  BY <1>1, <1>4 DEF Shaped, Exists
  <2>2. /\ Alone(x) /\ act'[x].step = (IF side[p] # None THEN "upsert" ELSE "match")
        /\ act'[x].at = p /\ act'[x].to = act[x].to /\ act'[x].todo = act[x].todo
        /\ act'[x].id = side[p]
    BY <1>1, <1>4, <2>1 DEF Alone, Acts, Steps
  <2>3. Orderly(x)'
    <3>1. CASE side[p] = None  BY <2>2, <3>1, OrderlyNext DEF Indexing
    <3>2. CASE side[p] # None
      <4>1. Fits(side[p], file[p])  BY <1>1, <1>4, <2>1, <3>2 DEF SideInv, SidesFit, Claimed, Exists
      <4>2. NamesOwn(x)'  BY <1>1, <1>2, <2>2, <4>1 DEF NamesOwn, Fits
      <4>3. NamesHere(x)'
        <5> SUFFICES ASSUME owner[side[p]] \notin displaced', NEW r \in Places, file[r] = owner[side[p]]
                     PROVE  r = p
          BY <1>2, <2>2 DEF NamesHere, Holding
        <5>1. owner[side[p]] = file[p]  BY <1>2, <4>1 DEF Fits
        <5> QED  BY <1>1, <1>4, <5>1 DEF IdInv, Single, Exists
      <4>4. Vacant(x)' /\ Listing(x)'  BY <2>2, <3>2 DEF Vacant, Listing, Indexing
      <4> QED  BY <4>2, <4>3, <4>4 DEF Orderly
    <3> QED  BY <3>1, <3>2
  <2>4. OriginsStay  BY <1>2, <2>2, OriginsOn DEF Binning
  <2>5. \A q \in Paths : ToIndex(x, q) => Cares(q)'
    <3>1. \A q \in Paths : ToIndex(x, q) => ToIndex(x, q)'
      BY <1>1, <2>2 DEF ToIndex, Indexing
    <3> QED  BY <3>1 DEF Cares
  <2> QED  BY <1>1, <1>2, <2>2, <2>3, <2>4, <2>5, OwnersSame, RestPlain
<1>5. Exists(p) => displaced \subseteq displaced'  BY DEF Read
<1> QED  BY <1>3, <1>4, <1>5 DEF Read

LEMMA MatchRest == ASSUME Typed, SideInv, IdInv, RestInv, NEW x \in Actors, Match(x) PROVE RestInv'
<1>1. /\ act \in [Actors -> Acts] /\ act[x] \in Acts /\ Shaped /\ act[x].at \in Paths
      /\ act[x].step = "match" /\ act[x].at \in Places
  BY Facts, Names DEF Match, At, Fielded, Indexing
<1>2. UNCHANGED <<file, side, row, process, due>>  BY DEF Match, disk
<1> DEFINE p == act[x].at
           f == file[p]
<1>3. CASE Throw(x) /\ missed' = missed \cup {p} /\ UNCHANGED <<owner, displaced>>
  <2>1. Alone(x) /\ act'[x].step \in {"idle", "next"} /\ act'[x].todo = act[x].todo
    BY <1>1, <1>3, DoneKeeps DEF Throw
  <2>2. Orderly(x)'  BY <1>1, <1>3, OrderlyDone DEF Throw
  <2>3. OriginsStay  BY <1>1, <1>2, <2>1, OriginsOn DEF Binning
  <2>4. Heard /\ p \in missed'  BY <1>2, <1>3 DEF Heard
  <2>5. \A q \in Paths : ToIndex(x, q) => Cares(q)'
    BY <1>1, <2>1, <2>4 DEF ToIndex, Cares
  <2> QED  BY <1>1, <1>2, <1>3, <2>1, <2>2, <2>3, <2>4, <2>5, OwnersSame, RestPlain
<1>4. ASSUME Exists(p), NEW i \in Ids, NEW t \in Places \cup {None},
             act' = [act EXCEPT ![x].step = "write", ![x].id = i, ![x].to = t],
             displaced \subseteq displaced', OwnersStay, missed' = missed,
             owner'[i] = f \/ f \in displaced',
             owner'[i] \notin displaced' => owner'[i] = f
      PROVE  RestInv'
  <2>1. /\ Alone(x) /\ act'[x].step = "write" /\ act'[x].at = p /\ act'[x].id = i
        /\ act'[x].todo = act[x].todo
    BY <1>1, <1>4 DEF Alone, Acts, Steps
  <2>2. NamesOwn(x)'  BY <1>2, <1>4, <2>1 DEF NamesOwn
  <2>3. NamesHere(x)'
    <3> SUFFICES ASSUME NEW r \in Places, file[r] = f PROVE r = p
      BY <1>2, <1>4, <2>1 DEF NamesHere, Holding
    <3> QED  BY <1>1, <1>4 DEF IdInv, Single, Exists
  <2>4. Orderly(x)'  BY <2>1, <2>2, <2>3 DEF Orderly, Vacant, Listing, Indexing
  <2>5. OriginsStay  BY <1>2, <2>1, OriginsOn DEF Binning
  <2>6. Heard  BY <1>2, <1>4 DEF Heard
  <2>7. \A q \in Paths : ToIndex(x, q) => Cares(q)'
    <3>1. \A q \in Paths : ToIndex(x, q) => ToIndex(x, q)'
      BY <1>1, <2>1 DEF ToIndex, Indexing
    <3> QED  BY <3>1 DEF Cares
  <2> QED  BY <1>1, <1>2, <1>4, <2>1, <2>4, <2>5, <2>6, <2>7, RestPlain
<1>5. ASSUME Exists(p), NEW i \in Left(p),
             act' = [act EXCEPT ![x].step = "write", ![x].id = side[row[i].at], ![x].to = row[i].at],
             displaced' = IF Taken(i, f) \/ ~Untouched(row[i].at, Actors \ {x})
                          THEN displaced \cup {f, owner[i], owner[side[row[i].at]]} ELSE displaced,
             UNCHANGED <<lock, owner, missed>>
      PROVE  RestInv'
  <2>1. i \in Ids /\ row[i].at \in Places /\ side[row[i].at] \in Ids /\ Content[owner[i]] = Content[f]
    BY <1>1, <1>5, Names DEF Left, Twins, Shaped
  <2>2. CASE Taken(i, f)  BY <1>4, <1>5, <2>1, <2>2, OwnersSame
  <2>3. CASE ~Taken(i, f)
    <3>1. owner[side[row[i].at]] = f  BY <2>1, <2>3 DEF Taken
    <3> QED  BY <1>4, <1>5, <2>1, <3>1, OwnersSame
  <2> QED  BY <2>2, <2>3
<1>6. ASSUME Exists(p), NEW i \in Ids,
             act' = [act EXCEPT ![x].step = "write", ![x].id = i, ![x].to = None],
             owner' = [owner EXCEPT ![i] = f],
             displaced' = IF Shared(i, f) THEN displaced \cup {f, owner[i]} ELSE displaced,
             missed' = missed
      PROVE  RestInv'
  <2>1. owner'[i] = f /\ \A j \in Ids \ {i} : owner'[j] = owner[j]  BY <1>1, <1>6 DEF Shaped
  <2>2. OwnersStay
    <3> SUFFICES ASSUME Used(i), owner[i] # f PROVE {owner[i], f} \subseteq displaced'
      BY <2>1 DEF OwnersStay
    <3>1. owner[i] # None
      <4>1. CASE \E y \in Actors : Naming(y) /\ act[y].id = i  BY <4>1, NamedFields
      <4>2. CASE Carried(i)  BY <4>2, Names DEF Carried, Typed, Owned, Made
      <4> QED  BY <4>1, <4>2 DEF Used
    <3>2. Shared(i, f)  BY <3>1 DEF Shared, Used, Pending
    <3> QED  BY <1>6, <3>2
  <2> QED  BY <1>4, <1>6, <2>1, <2>2
<1>7. CASE Exists(p) /\ \E i \in Left(p) :
            /\ act' = [act EXCEPT ![x].step = "write", ![x].id = side[row[i].at], ![x].to = row[i].at]
            /\ displaced' = IF Taken(i, f) \/ ~Untouched(row[i].at, Actors \ {x})
                            THEN displaced \cup {f, owner[i], owner[side[row[i].at]]} ELSE displaced
            /\ UNCHANGED <<lock, owner, missed>>
  BY <1>5, <1>7
<1>8. CASE /\ Exists(p) /\ missed' = missed
           /\ \E i \in IF Embedded[f] # None THEN {Embedded[f]} ELSE Fresh :
                /\ act' = [act EXCEPT ![x].step = "write", ![x].id = i, ![x].to = None]
                /\ owner' = [owner EXCEPT ![i] = f]
                /\ displaced' = IF Shared(i, f) THEN displaced \cup {f, owner[i]} ELSE displaced
  <2>1. f \in Files  BY <1>1, <1>8 DEF Shaped, Exists
  <2>2. Embedded[f] # None => Embedded[f] \in Ids  BY <2>1, PlacesAssumption
  <2>3. Fresh \subseteq Ids  BY DEF Fresh
  <2> QED  BY <1>6, <1>8, <2>2, <2>3
<1> QED  BY <1>3, <1>7, <1>8 DEF Match

\* The id is written, and the one of the old path removed.
LEMMA WriteRest == ASSUME Typed, RestInv, NEW x \in Actors, Write(x) \/ Sweep(x) PROVE RestInv'
<1>1. /\ act \in [Actors -> Acts] /\ act[x] \in Acts /\ Shaped /\ Orderly(x)
      /\ act[x].step \in {"write", "sweep"}
  BY Facts DEF Write, Sweep, At, RestInv
<1>2. UNCHANGED <<file, owner, row, process, displaced>> /\ Heard
  BY Hears DEF Write, Sweep
<1>3. PICK s \in {"sweep", "upsert"} : To(x, s)  BY DEF Write, Sweep
<1>4. /\ Alone(x) /\ act'[x].step = s /\ act'[x].at = act[x].at /\ act'[x].id = act[x].id
      /\ act'[x].todo = act[x].todo
  BY <1>1, <1>3, StepsOn DEF Steps
<1>5. OriginsStay  BY <1>2, <1>4, OriginsOn DEF Binning
<1>6. NamesOwn(x)'  BY <1>1, <1>2, <1>4 DEF Orderly, NamesOwn, Naming, Exists
<1>7. NamesHere(x)'
  <2> SUFFICES ASSUME owner[act[x].id] \notin displaced, NEW r \in Places, file[r] = owner[act[x].id]
               PROVE  r = act[x].at \/ (r \in Bins /\ ~Exists(act[x].at)' /\ Origin(r, act[x].at)')
    BY <1>2, <1>4 DEF NamesHere, Naming, Holding
  <2>1. Naming(x)  BY <1>1 DEF Naming
  <2>2. act[x].at \in Paths /\ owner[act[x].id] # None  BY <2>1, NamedFields
  <2>3. r = act[x].at \/ (r \in Bins /\ ~Exists(act[x].at) /\ Origin(r, act[x].at))
    BY <1>1, <2>1 DEF Orderly, NamesHere, Holding
  <2>4. Exists(r)  BY <2>2 DEF Exists
  <2>5. Exists(act[x].at)' <=> Exists(act[x].at)  BY <1>2, <1>4 DEF Exists
  <2> QED  BY <1>4, <1>5, <2>2, <2>3, <2>4, <2>5 DEF OriginsStay
<1>8. Orderly(x)'  BY <1>4, <1>6, <1>7 DEF Orderly, Vacant, Listing, Indexing
<1>9. \A q \in Paths : ToIndex(x, q) => Cares(q)'
  <2>1. \A q \in Paths : ToIndex(x, q) => ToIndex(x, q)'
    BY <1>1, <1>4 DEF ToIndex, Indexing
  <2> QED  BY <2>1 DEF Cares
<1> QED  BY <1>1, <1>2, <1>4, <1>5, <1>8, <1>9, OwnersSame, RestPlain

LEMMA UpsertRest == ASSUME Typed, RestInv, NEW x \in Actors, Upsert(x) PROVE RestInv'
<1>1. /\ act \in [Actors -> Acts] /\ act[x] \in Acts /\ Shaped /\ Orderly(x) /\ Naming(x)
      /\ act[x].step = "upsert" /\ act[x].at \in Paths /\ act[x].id \in Ids
  BY Facts, NamedFields DEF Upsert, At, RestInv, Naming
<1> SUFFICES ASSUME NEW p \in Paths, p = act[x].at, NEW i \in Ids, i = act[x].id PROVE RestInv'
  BY <1>1
<1>2. UNCHANGED <<file, owner, process, due>> /\ displaced \subseteq displaced'
  BY DEF Upsert, disk
<1>3. Alone(x) /\ act'[x].step \in {"idle", "next"} /\ act'[x].todo = act[x].todo /\ Orderly(x)'
  BY <1>1, DoneKeeps, OrderlyDone DEF Upsert, Throw
<1>4. CASE missed' = missed \cup {p} /\ row' = row
  <2>1. OriginsStay  BY <1>3, <1>4, OriginsOn DEF Binning
  <2>2. Heard /\ p \in missed'  BY <1>2, <1>4 DEF Heard
  <2>3. \A q \in Paths : ToIndex(x, q) => Cares(q)'  BY <1>1, <1>3, <2>2 DEF ToIndex, Cares
  <2> QED  BY <1>1, <1>2, <1>3, <1>4, <2>1, <2>2, <2>3, OwnersSame, RestPlain
<1>5. CASE row' = [row EXCEPT ![i].at = p] /\ missed' = missed \ {p}
  <2>1. row'[i].at = p /\ \A j \in Ids \ {i} : row'[j] = row[j]  BY <1>1, <1>5 DEF Shaped, Rows
  <2>2. OriginsStay
    <3>1. \A j \in Ids : row'[j].at \in Bins => row'[j] = row[j]  BY <1>1, <2>1, Names
    <3> QED  BY <1>3, <3>1, OriginsOn DEF Binning
  <2>3. Exists(p) /\ file[p] \notin displaced' => Indexed(p)'
    <3> SUFFICES ASSUME Exists(p), file[p] \notin displaced' PROVE Indexed(p)'  OBVIOUS
    <3>1. owner[i] = file[p]  BY <1>1, <1>2 DEF Orderly, NamesOwn
    <3>2. i \in Ids /\ row'[i].at = p /\ owner'[i] = file'[p]  BY <1>1, <1>2, <2>1, <3>1
    <3> QED  BY <3>2 DEF Indexed
  <2>4. ASSUME NEW q \in Paths, Exists(q), file[q] \notin displaced'
        PROVE  /\ q \in due \cup missed => Cares(q)'
               /\ Indexed(q) => Cares(q)'
               /\ \A z \in {x} : ToIndex(z, q) => Cares(q)'
    <3>1. CASE q = p
      <4>1. Indexed(q)'  BY <2>3, <2>4, <3>1
      <4> QED  BY <4>1 DEF Cares
    <3>2. CASE q # p
      <4>1. q \in due \cup missed => q \in due' \cup missed'  BY <1>2, <1>5, <3>2
      <4>2. ToIndex(x, q) => ToIndex(x, q)'  BY <1>3, <3>2 DEF ToIndex
      <4>3. ASSUME NEW j \in Ids, row[j].at = q, owner[j] = file[q] PROVE Indexed(q)'
        <5>1. CASE j = i
          <6>1. q \in Places /\ q \notin Bins  BY Names
          <6> QED  BY <1>1, <1>2, <2>4, <3>2, <4>3, <5>1, <6>1 DEF Orderly, NamesHere, Holding
        <5>2. CASE j # i  BY <1>2, <2>1, <4>3, <5>2 DEF Indexed
        <5> QED  BY <5>1, <5>2
      <4> QED  BY <4>1, <4>2, <4>3 DEF Cares, Indexed
    <3> QED  BY <3>1, <3>2
  <2>5. Awake' => Awake  BY <1>1, <1>2, <1>3, Names DEF Awake, Alone
  <2>6. {x} \in SUBSET Actors /\ \A z \in {x} : Orderly(z)'  BY <1>3
  <2>7. \A y \in Actors \ {x} : act'[y] = act[y]  BY <1>3 DEF Alone
  <2>8. \A r \in Places : file'[r] \in {file[r], None}  BY <1>2
  <2> HIDE DEF RestInv
  <2> QED  BY <1>2, <2>2, <2>4, <2>5, <2>6, <2>7, <2>8, OwnersSame, RestKept
<1> QED  BY <1>4, <1>5 DEF Upsert

-----------------------------------------------------------------------------
(* The reindex, the requests and the maintenance queue.                      *)

LEMMA ListRest == ASSUME Typed, RestInv, NEW x \in Actors, List(x) PROVE RestInv'
<1>1. act \in [Actors -> Acts] /\ act[x] \in Acts /\ Shaped  BY Facts
<1>2. UNCHANGED <<file, owner, row, process, displaced>> /\ act[x].step \in {"list", "scan"}
  BY DEF List, disk, At
<1>3. /\ Alone(x) /\ act'[x].todo = Present
      /\ act'[x].step \in {"wipe", "next", "idle"} /\ (act'[x].step = "idle" => Present = {})
  <2>1. PICK t \in {"wipe", "idle", "next"} :
          /\ act' = [act EXCEPT ![x].step = t, ![x].todo = Present]
          /\ t = "idle" => Present = {}
    BY DEF List, At
  <2>2. Present \in SUBSET Paths  BY DEF Present
  <2> HIDE DEF Present
  <2> QED  BY <1>1, <2>1, <2>2 DEF Alone, Acts, Steps
<1>4. Orderly(x)'  BY <1>3, OrderlyNext
<1>5. OriginsStay  BY <1>2, <1>3, OriginsOn DEF Binning
<1>6. \A y \in Actors : Orderly(y)'
  <2>1. ASSUME NEW y \in Actors \ {x} PROVE Orderly(y)'
    <3>1. act'[y] = act[y]  BY <1>3 DEF Alone
    <3> QED  BY <1>2, <1>5, <3>1, OwnersSame, OrderlyStays
  <2> QED  BY <1>4, <2>1
<1>7. \A p \in Paths : Exists(p)' => Cares(p)'
  BY <1>2, <1>3 DEF Present, ToIndex, Cares, Exists
<1> QED  BY <1>6, <1>7 DEF RestInv, Cared

LEMMA NextRest == ASSUME Typed, RestInv, NEW x \in Actors, NextFile(x) PROVE RestInv'
<1>1. act \in [Actors -> Acts] /\ act[x] \in Acts /\ Shaped  BY Facts
<1>2. UNCHANGED <<file, owner, row, process, displaced>> /\ act[x].step = "next" /\ Heard
  BY Hears DEF NextFile, disk, At
<1>3. PICK p \in act[x].todo :
        act' = [act EXCEPT ![x] = [Idle EXCEPT !.step = "lock", !.at = p, !.todo = act[x].todo \ {p}]]
  BY DEF NextFile
<1>4. p \in Paths /\ act[x].todo \subseteq Paths  BY <1>1 DEF Acts
<1> DEFINE l == [Idle EXCEPT !.step = "lock", !.at = p, !.todo = act[x].todo \ {p}]
<1>5. l \in Acts /\ l.step = "lock" /\ l.at = p /\ l.todo = act[x].todo \ {p}
  BY <1>4, IdleFields, Names DEF Acts, Steps
<1> HIDE DEF l
<1>6. Alone(x) /\ act'[x] = l  BY <1>1, <1>3, <1>5, Sets DEF l
<1>7. Orderly(x)'  BY <1>5, <1>6, OrderlyNext DEF Indexing
<1>8. OriginsStay  BY <1>2, <1>5, <1>6, OriginsOn DEF Binning
<1>9. \A q \in Paths : ToIndex(x, q) => Cares(q)'
  <2>1. \A q \in Paths : ToIndex(x, q) => ToIndex(x, q)'
    BY <1>2, <1>5, <1>6 DEF ToIndex, Indexing
  <2> QED  BY <2>1 DEF Cares
<1> QED  BY <1>2, <1>6, <1>7, <1>8, <1>9, OwnersSame, RestPlain

LEMMA WipeRest == ASSUME Typed, RestInv, NEW x \in Actors, Wipe(x) PROVE RestInv'
<1>1. act \in [Actors -> Acts] /\ act[x] \in Acts /\ Shaped  BY Facts
<1>2. /\ UNCHANGED <<file, owner, process, due>> /\ act[x].step = "wipe" /\ displaced \subseteq displaced'
      /\ missed' = missed \cup ({row[i].at : i \in Ids} \cap (Paths \ act[x].todo))
  BY DEF Wipe, disk, At
<1>3. Alone(x) /\ act'[x].step \in {"idle", "next"} /\ act'[x].todo = act[x].todo /\ Orderly(x)'
  <2>1. CASE act' = [act EXCEPT ![x] = Idle] /\ act[x].todo = {}
    BY <1>1, <2>1, IdleFields, Sets, OrderlyNext
  <2>2. CASE To(x, "next")
    <3>1. Alone(x) /\ act'[x].step = "next" /\ act'[x].todo = act[x].todo
      BY <1>1, <2>2, StepsOn DEF Steps
    <3> QED  BY <3>1, OrderlyNext
  <2> QED  BY <2>1, <2>2 DEF Wipe
<1>4. OriginsStay
  <2>1. \A i \in Ids : row'[i].at \notin Bins  BY Names DEF Wipe, NoRow
  <2> QED  BY <1>3, <2>1, OriginsOn DEF Binning
<1>5. ASSUME NEW p \in Paths
      PROVE  /\ p \in due \cup missed => Cares(p)'
             /\ Indexed(p) => Cares(p)'
             /\ \A z \in {x} : ToIndex(z, p) => Cares(p)'
  <2>1. p \in due \cup missed => p \in due' \cup missed'  BY <1>2
  <2>2. ToIndex(x, p) => ToIndex(x, p)'  BY <1>2, <1>3 DEF ToIndex, Indexing
  <2>3. Indexed(p) => p \in missed' \/ ToIndex(x, p)'  BY <1>2, <1>3 DEF Indexed, ToIndex
  <2> QED  BY <2>1, <2>2, <2>3 DEF Cares
<1>6. Awake' => Awake  BY <1>2, <1>3, Names DEF Awake, Alone
<1>7. {x} \in SUBSET Actors /\ \A z \in {x} : Orderly(z)'  BY <1>3
<1>8. \A y \in Actors \ {x} : act'[y] = act[y]  BY <1>3 DEF Alone
<1>9. \A r \in Places : file'[r] \in {file[r], None}  BY <1>2
<1> HIDE DEF RestInv
<1> QED  BY <1>2, <1>4, <1>5, <1>6, <1>7, <1>8, <1>9, OwnersSame, RestKept

\* An actor that is not at work on a reindex or on a file to index.
LEMMA NothingToIndex ==
    ASSUME RestInv, NEW x \in Actors, act[x].step \notin {"wipe", "next"} \cup Indexing
    PROVE  act[x].todo = {} /\ \A p : ~ToIndex(x, p)
  BY DEF RestInv, Orderly, Listing, ToIndex

LEMMA BeginRest ==
    ASSUME Typed, RestInv, NEW u \in Requests, act[u].step = "idle",
           UNCHANGED <<file, owner, row, process, displaced>>, Quiet,
           NEW l \in Acts, act' = [act EXCEPT ![u] = l], l.todo = {},
           l.step \in {"scan", "list", "note", "forget", "bin", "out"},
           l.step = "bin" => ~Exists(l.to),
           l.step = "out" => \A p \in Paths : ~Exists(p) /\ Origin(l.at, p) => l.to = p
    PROVE  RestInv'
<1>1. act \in [Actors -> Acts] /\ u \in Actors  BY Names, Facts
<1>2. Alone(u) /\ act'[u] = l  BY <1>1, Sets
<1>3. OriginsStay  BY <1>1, <1>2, OriginsOn DEF Binning
<1>4. Orderly(u)'  BY <1>2, OrderlyNext
<1>5. \A p : ~ToIndex(u, p)  BY <1>1, NothingToIndex DEF Indexing
<1> QED  BY <1>1, <1>2, <1>3, <1>4, <1>5, Hears, OwnersSame, RestPlain

LEMMA AskRest ==
    ASSUME Typed, RestInv, NEW u \in Requests,
           AskScan(u) \/ AskEdit(u) \/ AskRecover(u) \/ AskTrash(u) \/ AskRestore(u)
    PROVE  RestInv'
<1>1. act \in [Actors -> Acts] /\ u \in Actors /\ Shaped /\ Owned  BY Names, Facts
<1>2. UNCHANGED <<file, side, owner, row, process, displaced>> /\ act[u].step = "idle" /\ Quiet
  BY DEF AskScan, AskEdit, AskRecover, AskTrash, AskRestore, Free, At, disk
<1>3. CASE AskScan(u)
  <2>1. PICK t \in {"scan", "list"} : act' = [act EXCEPT ![u] = [Idle EXCEPT !.step = t]]
    BY <1>3 DEF AskScan, Begin
  <2> DEFINE l == [Idle EXCEPT !.step = t]
  <2>2. l \in Acts /\ l.step = t /\ l.todo = {}  BY IdleFields DEF Acts, Steps
  <2> HIDE DEF l
  <2> QED  BY <1>2, <2>1, <2>2, BeginRest DEF l
<1>4. CASE AskEdit(u)
  <2>1. PICK p \in Paths : act' = [act EXCEPT ![u] = [Idle EXCEPT !.step = "note", !.at = p,
                                                                  !.seen = side[p]]]
    BY <1>4 DEF AskEdit, Begin, Asset
  <2> DEFINE l == [Idle EXCEPT !.step = "note", !.at = p, !.seen = side[p]]
  <2>2. l \in Acts /\ l.step = "note" /\ l.todo = {}
    BY <1>1, <2>1, IdleFields, Names DEF Acts, Steps, Shaped
  <2> HIDE DEF l
  <2> QED  BY <1>2, <2>1, <2>2, BeginRest DEF l
<1>5. CASE AskRecover(u)
  <2>1. PICK i \in Ids : act' = [act EXCEPT ![u] = [Idle EXCEPT !.step = "forget", !.at = row[i].at,
                                                                !.id = i]]
    BY <1>5 DEF AskRecover, Begin
  <2> DEFINE l == [Idle EXCEPT !.step = "forget", !.at = row[i].at, !.id = i]
  <2>2. l \in Acts /\ l.step = "forget" /\ l.todo = {}
    BY <1>1, IdleFields, Names DEF Acts, Steps, Shaped, Rows
  <2> HIDE DEF l
  <2> QED  BY <1>2, <2>1, <2>2, BeginRest DEF l
<1>6. CASE AskTrash(u)
  <2>1. PICK i \in Ids, b \in EmptyBin :
          /\ act' = [act EXCEPT ![u] = [Idle EXCEPT !.step = "bin", !.at = row[i].at, !.to = b,
                                                    !.id = i, !.seen = side[row[i].at]]]
          /\ row[i].at \in Paths
    BY <1>6 DEF AskTrash, Begin, Asset
  <2> DEFINE l == [Idle EXCEPT !.step = "bin", !.at = row[i].at, !.to = b, !.id = i,
                               !.seen = side[row[i].at]]
  <2>2. b \in Places /\ ~Exists(b)  BY Names DEF EmptyBin, Exists
  <2>3. l \in Acts /\ l.step = "bin" /\ l.to = b /\ l.todo = {}
    BY <1>1, <2>1, <2>2, IdleFields, Names DEF Acts, Steps, Shaped
  <2> HIDE DEF l
  <2> QED  BY <1>2, <2>1, <2>2, <2>3, BeginRest DEF l
<1>7. CASE AskRestore(u)
  <2>1. PICK i \in Ids :
          /\ row[i].from # None
          /\ act' = [act EXCEPT ![u] = [Idle EXCEPT !.step = "out", !.at = row[i].at, !.id = i,
                       !.to = IF Exists(row[i].from) THEN Beside[row[i].from] ELSE row[i].from]]
    BY <1>7 DEF AskRestore, Begin, Trashed
  <2> DEFINE l == [Idle EXCEPT !.step = "out", !.at = row[i].at, !.id = i,
                       !.to = IF Exists(row[i].from) THEN Beside[row[i].from] ELSE row[i].from]
  <2>2. row[i].from \in Paths /\ row[i].at \in Places \cup {None}  BY <1>1, <2>1 DEF Shaped, Rows
  <2>3. Beside[row[i].from] \in Paths  BY <2>2, PlacesAssumption
  <2>4. /\ l \in Acts /\ l.step = "out" /\ l.at = row[i].at /\ l.todo = {}
        /\ l.to = IF Exists(row[i].from) THEN Beside[row[i].from] ELSE row[i].from
    BY <2>2, <2>3, IdleFields, Names DEF Acts, Steps
  <2>5. \A p \in Paths : ~Exists(p) /\ Origin(l.at, p) => l.to = p  BY <2>4 DEF Origin
  <2> HIDE DEF l
  <2> QED  BY <1>2, <2>1, <2>4, <2>5, BeginRest DEF l
<1> QED  BY <1>3, <1>4, <1>5, <1>6, <1>7

\* Sidecars are written and moved.
LEMMA SideRest ==
    ASSUME Typed, IdInv, RestInv, NEW u \in Requests,
           Note(u) \/ Stamp(u) \/ Unlink(u) \/ Carry(u) \/ Follow(u)
    PROVE  RestInv'
<1>1. act \in [Actors -> Acts] /\ u \in Actors /\ Shaped  BY Names, Facts
<1>2. /\ UNCHANGED <<file, owner, row, process, displaced>> /\ Heard
      /\ act[u].step \in {"note", "stamp", "unlink", "carry", "follow"}
  BY Hears DEF Note, Stamp, Unlink, Carry, Follow, At
<1>3. \A p : ~ToIndex(u, p)  BY <1>1, <1>2, NothingToIndex DEF Indexing
<1>4. PICK s \in {"lock", "unlink", "trashed", "restored"} :
        /\ To(u, s)
        /\ s = "unlink" => act[u].step = "stamp"
        /\ s \in {"trashed", "restored"} => act[u].step \in {"unlink", "carry", "follow"}
        /\ s = "trashed" => act[u].step \in Binning
  BY DEF Note, Stamp, Unlink, Carry, Follow, At, Binning
<1>5. /\ Alone(u) /\ act'[u].step = s /\ act'[u].at = act[u].at /\ act'[u].to = act[u].to
      /\ act'[u].todo = act[u].todo
  BY <1>1, <1>4, StepsOn DEF Steps
<1>6. OriginsStay  BY <1>1, <1>2, <1>4, <1>5, OriginsOn DEF Binning
<1>7. act[u].todo = {}  BY <1>1, <1>2, NothingToIndex DEF Indexing
<1>8. Vacant(u)'
  <2> SUFFICES ASSUME s \in {"trashed", "restored"}, act[u].at \in Paths, Exists(act[u].at)
               PROVE  file[act[u].at] \in displaced
    BY <1>2, <1>5 DEF Vacant, Exists
  <2>1. Passing(u, act[u].at)  BY <1>4 DEF Passing
  <2>2. PassesNone(u)  BY <1>1 DEF IdInv, Heeds
  <2> QED  BY <2>1, <2>2, Names DEF PassesNone
<1>9. Orderly(u)'  BY <1>4, <1>5, <1>7, <1>8 DEF Orderly, NamesOwn, NamesHere, Naming, Listing
<1> QED  BY <1>1, <1>2, <1>3, <1>5, <1>6, <1>9, OwnersSame, RestPlain

\* A row goes, or gets another path.
LEMMA RowRest ==
    ASSUME Typed, RestInv, NEW x \in Actors, Alone(x), UNCHANGED <<file, owner, process>>,
           displaced \subseteq displaced', Heard, OriginsStay, Orderly(x)',
           act[x].step \notin {"list", "wipe", "next"} \cup Indexing,
           NEW i \in Ids, \A j \in Ids \ {i} : row'[j] = row[j],
           \A q \in Paths : row[i].at = q /\ Exists(q) /\ owner[i] = file[q] /\ file[q] \notin displaced'
               => Cares(q)'
    PROVE  RestInv'
<1>1. \A p : ~ToIndex(x, p)  BY NothingToIndex
<1>2. ASSUME NEW p \in Paths, Exists(p), file[p] \notin displaced'
      PROVE  /\ p \in due \cup missed => Cares(p)'
             /\ Indexed(p) => Cares(p)'
             /\ \A z \in {x} : ToIndex(z, p) => Cares(p)'
  <2>1. ASSUME NEW j \in Ids, row[j].at = p, owner[j] = file[p] PROVE Cares(p)'
    <3>1. CASE j = i  BY <1>2, <2>1, <3>1
    <3>2. CASE j # i
      <4>1. Indexed(p)'  BY <2>1, <3>2 DEF Indexed
      <4> QED  BY <4>1 DEF Cares
    <3> QED  BY <3>1, <3>2
  <2> QED  BY <1>1, <2>1 DEF Cares, Heard, Indexed
<1>3. Awake' => Awake  BY Names DEF Awake, Alone
<1>4. {x} \in SUBSET Actors /\ \A z \in {x} : Orderly(z)'  OBVIOUS
<1>5. \A y \in Actors \ {x} : act'[y] = act[y]  BY DEF Alone
<1>6. \A r \in Places : file'[r] \in {file[r], None}  OBVIOUS
<1> HIDE DEF RestInv
<1> QED  BY <1>2, <1>3, <1>4, <1>5, <1>6, OwnersSame, RestKept

LEMMA OvertakeHears ==
    ASSUME due' = due, NEW x, Overtake(x)
    PROVE  Heard /\ \A q \in Paths : row[act[x].id].at = q /\ q # act[x].at => q \in missed'
  BY DEF Overtake, Heard

LEMMA ForgetRest == ASSUME Typed, RestInv, NEW u \in Requests, Forget(u) PROVE RestInv'
<1>1. /\ act \in [Actors -> Acts] /\ act[u] \in Acts /\ u \in Actors /\ Shaped
      /\ act[u].step = "forget" /\ act[u].id \in Ids
  BY Names, Facts DEF Forget, At, Fielded
<1>2. UNCHANGED <<file, owner, process, due>> /\ displaced \subseteq displaced' /\ Overtake(u)
  BY DEF Forget, disk
<1> SUFFICES ASSUME NEW i \in Ids, i = act[u].id PROVE RestInv'  BY <1>1
<1>3. row' = [row EXCEPT ![i] = NoRow]  BY DEF Forget
<1>4. /\ Alone(u) /\ act'[u].step \in {"idle", "lock"}
      /\ act[u].at \in Paths => act'[u].step = "lock" /\ act'[u].at = act[u].at
  BY <1>1, IdleFields DEF Forget, Alone, Acts, Steps
<1>5. OriginsStay
  <2>1. \A j \in Ids : row'[j].at \in Bins => row'[j] = row[j]  BY <1>1, <1>3, Names DEF Shaped, NoRow
  <2> QED  BY <1>1, <1>4, <2>1, OriginsOn DEF Binning
<1>6. Orderly(u)'
  <2>1. act'[u].step = "idle" => act'[u].todo = {}
    BY <1>1, IdleFields DEF Forget, Acts, Steps
  <2> QED  BY <1>4, <2>1, OrderlyNext DEF Indexing
<1>7. \A j \in Ids \ {i} : row'[j] = row[j]  BY <1>1, <1>3 DEF Shaped
<1>8. \A q \in Paths : row[i].at = q => Cares(q)'
  BY <1>1, <1>2, <1>4, OvertakeHears DEF Cares, ToIndex, Indexing
<1>9. Heard  BY <1>2, OvertakeHears
<1> QED  BY <1>1, <1>2, <1>4, <1>5, <1>6, <1>7, <1>8, <1>9, RowRest DEF Indexing

LEMMA PurgeRowRest == ASSUME Typed, RestInv, PurgeRow PROVE RestInv'
<1> SUFFICES ASSUME NEW x \in Actors, x = "worker" PROVE RestInv'  BY Names
<1>1. /\ act \in [Actors -> Acts] /\ act[x] \in Acts /\ Shaped
      /\ act[x].step = "delete" /\ act[x].id \in Ids /\ act[x].at \in Bins
  BY Facts DEF PurgeRow, At, Fielded, Binning
<1>2. UNCHANGED <<file, owner, process, due>> /\ displaced \subseteq displaced' /\ Overtake(x)
  BY DEF PurgeRow, disk
<1> SUFFICES ASSUME NEW i \in Ids, i = act[x].id PROVE RestInv'  BY <1>1
<1>3. row' = [row EXCEPT ![i] = NoRow]  BY DEF PurgeRow
<1>4. Alone(x) /\ act'[x].step \in {"idle", "purge"} /\ act'[x].todo \in {{}, act[x].todo}
  BY <1>1, IdleFields DEF PurgeRow, Alone, Acts, Steps
<1>5. OriginsStay
  <2>1. \A j \in Ids : row'[j].at \in Bins => row'[j] = row[j]  BY <1>1, <1>3, Names DEF Shaped, NoRow
  <2> QED  BY <1>1, <1>4, <2>1, OriginsOn DEF Binning
<1>6. Orderly(x)'
  <2>1. act[x].todo = {}  BY <1>1, NothingToIndex DEF Indexing
  <2> QED  BY <1>4, <2>1, OrderlyNext DEF Indexing
<1>7. \A j \in Ids \ {i} : row'[j] = row[j]  BY <1>1, <1>3 DEF Shaped
<1>8. \A q \in Paths : row[i].at = q => Cares(q)'
  BY <1>1, <1>2, OvertakeHears, Names DEF Cares
<1>9. Heard  BY <1>2, OvertakeHears
<1> QED  BY <1>1, <1>2, <1>4, <1>5, <1>6, <1>7, <1>8, <1>9, RowRest DEF Indexing

LEMMA TrashRest == ASSUME Typed, RestInv, NEW u \in Requests, Trash(u) \/ Restore(u) PROVE RestInv'
<1>1. /\ act \in [Actors -> Acts] /\ act[u] \in Acts /\ u \in Actors /\ Shaped
      /\ act[u].step \in {"trashed", "restored"} /\ act[u].id \in Ids
      /\ act[u].step = "trashed" <=> ~Restore(u)
  BY Names, Facts DEF Trash, Restore, At, Fielded, Binning
<1>2. UNCHANGED <<file, owner, process, due>> /\ displaced \subseteq displaced' /\ Overtake(u)
  BY DEF Trash, Restore, disk
<1>3. Alone(u) /\ act'[u].step = "idle" /\ act'[u].todo = {}
  BY <1>1, IdleFields, Sets DEF Trash, Restore
<1> SUFFICES ASSUME NEW i \in Ids, i = act[u].id PROVE RestInv'  BY <1>1
<1>4. \/ row' = row
      \/ /\ act[u].step = "trashed" /\ row' = [row EXCEPT ![i] = [at |-> act[u].to, from |-> act[u].at]]
      \/ /\ act[u].step = "restored" /\ row' = [row EXCEPT ![i] = [at |-> act[u].to, from |-> None]]
         /\ act[u].to \notin Bins
  <2>1. act[u].step = "restored" => act[u].to \notin Bins
    BY <1>1, Facts, Names DEF Fielded
  <2> QED  BY <1>1, <2>1 DEF Trash, Restore, At
<1>5. \A j \in Ids \ {i} : row'[j] = row[j]  BY <1>1, <1>4 DEF Shaped
<1>6. OriginsStay
  <2>1. \A j \in Ids : row'[j].at \in Bins =>
          \/ row'[j] = row[j]
          \/ /\ row'[j] = [at |-> act[u].to, from |-> act[u].at]
             /\ u \in Requests /\ act[u].step \in Binning
    BY <1>1, <1>4, <1>5 DEF Shaped, Binning
  <2> QED  BY <1>1, <1>3, <2>1, OriginsOn DEF Binning
<1>7. Orderly(u)'  BY <1>3, OrderlyNext
<1>8. ASSUME NEW q \in Paths, row[i].at = q, Exists(q), file[q] \notin displaced' PROVE Cares(q)'
  <2>1. CASE q = act[u].at
    <3>1. Vacant(u)  BY <1>1 DEF RestInv, Orderly
    <3> QED  BY <1>1, <1>2, <1>8, <2>1, <3>1 DEF Vacant
  <2>2. CASE q # act[u].at  BY <1>2, <1>8, <2>2, OvertakeHears DEF Cares
  <2> QED  BY <2>1, <2>2
<1>9. Heard  BY <1>2, OvertakeHears
<1> QED  BY <1>1, <1>2, <1>3, <1>5, <1>6, <1>7, <1>8, <1>9, RowRest DEF Indexing

-----------------------------------------------------------------------------
(* A file comes to a place.                                                  *)

LEMMA CrossedAll ==
    ASSUME NEW by, NEW y \in by, NEW p, Touches(y, p), NEW f
    PROVE  {f} \cup Concerned(y) \subseteq Crossed(f, p, by)
<1>1. y \in {z \in by : Touches(z, p)}  OBVIOUS
<1> QED  BY <1>1 DEF Crossed

\* Another actor than u knows it there, or it is an exception with the files of that one.
Comes(u, d) ==
    /\ d \in Places /\ file'[d] \in Files /\ \A r \in Places \ {d} : file'[r] \in {file[r], None}
    /\ d \in Paths => d \in due' \cup missed'
    /\ \A y \in Actors \ {u} :
         /\ act'[y] = act[y]
         /\ Touches(y, d) => {file'[d]} \cup Concerned(y) \subseteq displaced'
         /\ Naming(y) /\ owner[act[y].id] = file'[d] /\ file'[d] \notin displaced' =>
              d = act[y].at \/ (d \in Bins /\ ~Exists(act[y].at)' /\ Origin(d, act[y].at)')

LEMMA ComesRest ==
    ASSUME Typed, RestInv, NEW u \in Actors \cup {None}, NEW d, Comes(u, d),
           UNCHANGED <<owner, row>>, Heard, displaced \subseteq displaced', OriginsStay,
           Awake' => Awake, u \in Actors => Orderly(u)' /\ \A p : ~ToIndex(u, p)
    PROVE  RestInv'
<1>1. ASSUME NEW y \in Actors \ {u} PROVE Orderly(y)'
  <2> DEFINE f == file'[d]
  <2>1. /\ d \in Places /\ f \in Files /\ \A r \in Places \ {d} : file'[r] \in {file[r], None}
        /\ act'[y] = act[y]
        /\ Touches(y, d) => {f} \cup Concerned(y) \subseteq displaced'
        /\ Naming(y) /\ owner[act[y].id] = f /\ f \notin displaced' =>
             d = act[y].at \/ (d \in Bins /\ ~Exists(act[y].at)' /\ Origin(d, act[y].at)')
    BY DEF Comes
  <2>2. file'[d] = f  OBVIOUS
  <2> HIDE DEF f
  <2> QED  BY <2>1, <2>2, OrderlyComes
<1>2. \A p \in Paths : file'[p] \in {file[p], None} \/ Cares(p)' \/ file'[p] \in displaced'
  BY Names DEF Cares, Comes
<1>3. ASSUME NEW p \in Paths, Exists(p), file[p] \notin displaced', file'[p] = file[p]
      PROVE  /\ p \in due \cup missed => Cares(p)'
             /\ Indexed(p) => Cares(p)'
             /\ \A x \in Actors \cap {u} : ToIndex(x, p) => Cares(p)'
  <2>1. Indexed(p) => Indexed(p)'  BY <1>3, OwnersSame, IndexedStays
  <2> QED  BY <1>3, <2>1 DEF Cares, Heard
<1>4. Cared'
  <2> DEFINE S == Actors \cap {u}
  <2>1. S \in SUBSET Actors /\ \A y \in Actors \ S : act'[y] = act[y]  BY DEF Comes
  <2>2. ASSUME NEW p \in Paths, Exists(p), file[p] \notin displaced', file'[p] = file[p]
        PROVE  /\ p \in due \cup missed => Cares(p)'
               /\ Indexed(p) => Cares(p)'
               /\ \A x \in S : ToIndex(x, p) => Cares(p)'
    BY <1>3, <2>2
  <2> HIDE DEF S
  <2> QED  BY <1>2, <2>1, <2>2, CaredStays
<1> QED  BY <1>1, <1>4, Names DEF RestInv

LEMMA CopyRest == ASSUME Typed, RestInv, NEW u \in Requests, AskCopy(u) PROVE RestInv'
<1>1. PICK p \in Paths, f \in New :
        /\ file' = [file EXCEPT ![p] = f]
        /\ displaced' = displaced \cup Clash(f, p) \cup Crossed(f, p, Actors \ {u})
        /\ Notice({p})
        /\ act' = [act EXCEPT ![u] = [Idle EXCEPT !.step = "lock", !.at = p]]
  BY DEF AskCopy, Begin
<1>2. act \in [Actors -> Acts] /\ u \in Actors /\ Shaped /\ f \in Files /\ p \in Places
  BY Names, Facts DEF New
<1>3. UNCHANGED <<owner, row, process>> /\ act[u].step = "idle"  BY DEF AskCopy, Free, At
<1>4. Alone(u) /\ act'[u].step = "lock"
  <2> DEFINE l == [Idle EXCEPT !.step = "lock", !.at = p]
  <2>1. l \in Acts /\ l.step = "lock"  BY <1>2, IdleFields, Names DEF Acts, Steps
  <2> HIDE DEF l
  <2> QED  BY <1>1, <1>2, <2>1, Sets DEF l
<1>5. file'[p] = f /\ \A q \in Places \ {p} : file'[q] \in {file[q], None}  BY <1>1, <1>2 DEF Shaped
<1>6. Orderly(u)'  BY <1>4, OrderlyNext DEF Indexing
<1>7. OriginsStay  BY <1>2, <1>3, <1>4, OriginsOn DEF Binning
<1>8. \A q : ~ToIndex(u, q)  BY <1>2, <1>3, NothingToIndex DEF Indexing
<1>9. \A y \in Actors \ {u} : Touches(y, p) => {f} \cup Concerned(y) \subseteq displaced'
  BY <1>1, CrossedAll
<1>10. ASSUME NEW y \in Actors, Naming(y), owner[act[y].id] = f PROVE FALSE
  <2>1. act[y].id \in Ids /\ Pending(act[y].id)  BY <1>10, NamedFields DEF Pending
  <2> QED  BY <1>10, <2>1 DEF New
<1>11. Awake' => Awake  BY <1>3, <1>4, Names DEF Awake, Alone
<1>12. Heard /\ p \in due' \cup missed' /\ displaced \subseteq displaced'  BY <1>1, Hears
<1>13. \A y \in Actors \ {u} : act'[y] = act[y]  BY <1>4 DEF Alone
<1>14. Comes(u, p)  BY <1>2, <1>5, <1>9, <1>10, <1>12, <1>13 DEF Comes
<1> HIDE DEF RestInv
<1> QED  BY <1>2, <1>3, <1>6, <1>7, <1>8, <1>11, <1>12, <1>14, ComesRest

LEMMA OutRest == ASSUME Typed, RestInv, NEW u \in Requests, Out(u) PROVE RestInv'
<1>1. /\ act \in [Actors -> Acts] /\ act[u] \in Acts /\ act[u].at \in Places /\ act[u].to \in Paths
      /\ Shaped /\ u \in Actors /\ act[u].step = "out" /\ act[u].to \in Places
  BY Facts, Names DEF Out, At, Fielded
<1>2. UNCHANGED <<owner, row, process>>  BY DEF Out
<1>3. (\A q : ~ToIndex(u, q)) /\ act[u].todo = {}  BY <1>1, NothingToIndex DEF Indexing
<1>4. CASE act' = [act EXCEPT ![u] = Idle] /\ UNCHANGED <<file, displaced>> /\ Quiet
  <2>1. Alone(u) /\ act'[u].step = "idle" /\ act'[u].todo = {}  BY <1>1, <1>4, IdleFields, Sets
  <2>2. Orderly(u)'  BY <2>1, OrderlyNext
  <2>3. OriginsStay  BY <1>1, <1>2, <2>1, OriginsOn DEF Binning
  <2> QED  BY <1>1, <1>2, <1>3, <1>4, <2>1, <2>2, <2>3, Hears, OwnersSame, RestPlain
<1>5. CASE /\ Exists(act[u].at)
           /\ Rename(act[u].at, act[u].to, Actors \ {u})
           /\ Notice({act[u].to})
           /\ To(u, "follow")
  <2>0. SUFFICES ASSUME NEW d \in Paths, d = act[u].to, NEW f \in Files, f = file[act[u].at],
                        NEW a \in Places, a = act[u].at
                 PROVE  RestInv'
    BY <1>1, <1>5 DEF Shaped, Exists
  <2>1. Alone(u) /\ act'[u].step = "follow" /\ act'[u].todo = {}
    BY <1>1, <1>3, <1>5, StepsOn DEF Steps
  <2>2. /\ file'[d] = f /\ \A q \in Places \ {d} : file'[q] \in {file[q], None}
        /\ displaced \cup Crossed(f, d, Actors \ {u}) \subseteq displaced'
        /\ a \in Paths => f \in displaced'
    BY <1>1, <1>5, <2>0 DEF Rename, Shaped
  <2>3. Orderly(u)'  BY <2>1, OrderlyNext
  <2>4. OriginsStay  BY <1>1, <1>2, <2>1, OriginsOn DEF Binning
  <2>5. \A y \in Actors \ {u} : Touches(y, d) => {f} \cup Concerned(y) \subseteq displaced'
    BY <2>2, CrossedAll
  <2>6. ASSUME NEW y \in Actors, Naming(y), owner[act[y].id] = f, f \notin displaced' PROVE d = act[y].at
    <3>1. NamesHere(y)  BY DEF RestInv, Orderly
    <3>2. a \notin Paths /\ f \notin displaced /\ act[y].at \in Paths  BY <2>2, <2>6, NamedFields
    <3>3. Origin(a, act[y].at)  BY <2>0, <2>6, <3>1, <3>2 DEF NamesHere, Holding
    <3> QED  BY <1>1, <2>0, <3>3 DEF Origin
  <2>7. Awake' => Awake  BY <1>2, <2>1, Names DEF Awake, Alone
  <2>8. \A y \in Actors \ {u} : act'[y] = act[y]  BY <2>1 DEF Alone
  <2>9. Heard /\ d \in due' \cup missed' /\ d \in Places  BY <1>1, <1>5, <2>0, Hears
  <2>10. Comes(u, d)  BY <2>2, <2>5, <2>6, <2>8, <2>9 DEF Comes
  <2> HIDE DEF RestInv
  <2> QED  BY <1>1, <1>2, <1>3, <2>2, <2>3, <2>4, <2>7, <2>9, <2>10, ComesRest
<1> QED  BY <1>4, <1>5 DEF Out

LEMMA BinRest == ASSUME Typed, RestInv, NEW u \in Requests, Bin(u) PROVE RestInv'
<1>1. /\ act \in [Actors -> Acts] /\ act[u] \in Acts /\ act[u].at \in Paths /\ act[u].to \in Bins
      /\ Shaped /\ u \in Actors /\ act[u].step = "bin" /\ Reserved(u)
      /\ act[u].at \in Places /\ act[u].to \in Places /\ act[u].at # act[u].to
  BY Facts, Names DEF Bin, At, Fielded, Binning
<1>2. UNCHANGED <<owner, row, process>> /\ Quiet  BY DEF Bin
<1>3. (\A q : ~ToIndex(u, q)) /\ act[u].todo = {}  BY <1>1, NothingToIndex DEF Indexing
<1>4. CASE act' = [act EXCEPT ![u] = Idle] /\ UNCHANGED <<file, displaced>>
  <2>1. Alone(u) /\ act'[u].step = "idle" /\ act'[u].todo = {}  BY <1>1, <1>4, IdleFields, Sets
  <2>2. Orderly(u)'  BY <2>1, OrderlyNext
  <2>3. OriginsStay  BY <1>1, <1>2, <2>1, OriginsOn DEF Binning
  <2> QED  BY <1>1, <1>2, <1>3, <1>4, <2>1, <2>2, <2>3, Hears, OwnersSame, RestPlain
<1>5. CASE /\ Exists(act[u].at)
           /\ Rename(act[u].at, act[u].to, Actors \ {u})
           /\ To(u, IF act[u].seen # None THEN "stamp" ELSE "carry")
  <2> SUFFICES ASSUME NEW a \in Paths, a = act[u].at, NEW b \in Bins, b = act[u].to,
                      NEW f \in Files, f = file[a]
               PROVE  RestInv'
    BY <1>1, <1>5 DEF Shaped, Exists
  <2>1. /\ Alone(u) /\ act'[u].at = a /\ act'[u].to = b /\ act'[u].step \in {"stamp", "carry"}
        /\ act'[u].todo = {}
    BY <1>1, <1>3, <1>5, StepsOn DEF Steps
  <2>2. /\ file'[a] = None /\ file'[b] = f /\ \A q \in Places \ {b} : file'[q] \in {file[q], None}
        /\ displaced \subseteq displaced'
    BY <1>1, <1>5 DEF Rename, Shaped
  <2>3. Orderly(u)'  BY <2>1, OrderlyNext
  <2>4. OriginsStay  BY <1>1, <1>2, <2>1, OriginsOn DEF Binning
  <2>5. \A y \in Actors \ {u} : act[y].at # b /\ act[y].to # b  BY <1>1 DEF Reserved, Binning
  <2>6. Origin(b, a)'
    <3>1. \A i \in Ids : row'[i].at # b  BY <1>1, <1>2 DEF Reserved, Binning
    <3>2. \A v \in Requests \ {u} : act'[v].at # b /\ act'[v].to # b
      BY <2>1, <2>5, Names DEF Alone
    <3> QED  BY <2>1, <3>1, <3>2 DEF Origin, Binning
  <2>7. ASSUME NEW y \in Actors, Naming(y), owner[act[y].id] = f, f \notin displaced'
        PROVE  b \in Bins /\ ~Exists(act[y].at)' /\ (y # u => Origin(b, act[y].at)' /\ act'[y] = act[y])
    <3>1. NamesHere(y) /\ y # u  BY <1>1, <2>7 DEF RestInv, Orderly, Naming
    <3>2. act'[y] = act[y]  BY <2>1, <3>1 DEF Alone
    <3>3. act[y].at = a  BY <1>1, <2>2, <2>7, <3>1, Names DEF NamesHere, Holding
    <3> QED  BY <2>2, <2>6, <3>2, <3>3 DEF Exists
  <2>8. Awake' => Awake  BY <1>2, <2>1, Names DEF Awake, Alone
  <2>9. \A y \in Actors \ {u} : act'[y] = act[y]  BY <2>1 DEF Alone
  <2>10. Heard /\ b \in Places /\ b \notin Paths  BY <1>1, <1>2, Hears, Names
  <2>11. \A y \in Actors \ {u} : ~Touches(y, b)  BY <2>5 DEF Touches
  <2>12. \A y \in Actors \ {u} : Naming(y) /\ owner[act[y].id] = f /\ f \notin displaced' =>
           b = act[y].at \/ (b \in Bins /\ ~Exists(act[y].at)' /\ Origin(b, act[y].at)')
    BY <2>7
  <2>13. Comes(u, b)  BY <2>2, <2>9, <2>10, <2>11, <2>12 DEF Comes
  <2> HIDE DEF RestInv
  <2> QED  BY <1>1, <1>2, <1>3, <2>2, <2>3, <2>4, <2>8, <2>10, <2>13, ComesRest
<1> QED  BY <1>4, <1>5 DEF Bin

\* A user's file comes where nobody is at work.
LEMMA UserComes ==
    ASSUME Typed, RestInv, UNCHANGED <<owner, row, process, act>>, displaced \subseteq displaced',
           NEW d \in Paths, NEW f \in Files, Notice({d}), Untouched(d, Actors), file'[d] = f,
           \A r \in Places \ {d} : file'[r] \in {file[r], None},
           \A y \in Actors : Naming(y) /\ owner[act[y].id] = f => f \in displaced
    PROVE  RestInv'
<1>1. Heard /\ d \in due' \cup missed' /\ d \in Places  BY Hears, Names
<1>2. Awake' => Awake  BY DEF Awake
<1>3. OriginsStay  BY OriginsSame
<1>4. \A y \in Actors : ~Touches(y, d)  BY DEF Untouched
<1>5. Comes(None, d)  BY <1>1, <1>4 DEF Comes
<1>6. None \notin Actors  BY PlacesAssumption
<1> HIDE DEF RestInv
<1> QED  BY <1>1, <1>2, <1>3, <1>5, <1>6, ComesRest

LEMMA UserRest == ASSUME Typed, RestInv, Add \/ Move PROVE RestInv'
<1>0. Shaped /\ \A p \in Paths : p \in Places /\ p \notin Bins  BY Names DEF Typed, TypeOK, Shaped
<1>1. UNCHANGED <<owner, row, process, act>> /\ displaced \subseteq displaced'  BY DEF Add, Move
<1>2. CASE Add
  <2>1. PICK p \in Paths, f \in New : Untouched(p, Actors) /\ Notice({p}) /\ file' = [file EXCEPT ![p] = f]
    BY <1>2 DEF Add
  <2>2. /\ f \in Files /\ file'[p] = f
        /\ \A q \in Places \ {p} : file'[q] \in {file[q], None}
    BY <1>0, <2>1 DEF Shaped, New
  <2>3. ASSUME NEW y \in Actors, Naming(y), owner[act[y].id] = f PROVE FALSE
    <3>1. act[y].id \in Ids /\ Pending(act[y].id)  BY <2>3, NamedFields DEF Pending
    <3> QED  BY <2>3, <3>1 DEF New
  <2> QED  BY <1>1, <2>1, <2>2, <2>3, UserComes
<1>3. CASE Move
  <2>1. PICK p \in Paths, q \in Paths :
          /\ Exists(p) /\ file' = [file EXCEPT ![p] = None, ![q] = file[p]]
          /\ Notice({q}) /\ Untouched(p, Actors) /\ Untouched(q, Actors)
    BY <1>3 DEF Move
  <2>2. /\ file[p] \in Files /\ file'[q] = file[p]
        /\ \A r \in Places \ {q} : file'[r] \in {file[r], None}
    BY <1>0, <2>1 DEF Shaped, Exists
  <2>3. ASSUME NEW y \in Actors, Naming(y), owner[act[y].id] = file[p] PROVE file[p] \in displaced
    <3>1. NamesHere(y) /\ act[y].at # p  BY <2>1 DEF RestInv, Orderly, Untouched, Touches
    <3> QED  BY <1>0, <2>3, <3>1 DEF NamesHere, Holding
  <2> QED  BY <1>1, <2>1, <2>2, <2>3, UserComes
<1> QED  BY <1>2, <1>3

-----------------------------------------------------------------------------
(* The process, and the purge.                                               *)

LEMMA ServeRest == ASSUME Typed, Stopped, RestInv, Ready \/ Import \/ Purge PROVE RestInv'
<1>1. act \in [Actors -> Acts] /\ Shaped /\ "worker" \in Actors /\ "starter" \in Actors
  BY Names, Facts
<1>2. UNCHANGED <<file, owner, row, displaced>>  BY DEF Ready, Import, Purge, disk
<1>3. ASSUME NEW x \in Actors, Alone(x), Orderly(x)', Awake' => Awake,
             act'[x].step \notin Binning \cup {"out"},
             \A p \in Paths : (p \in due \cup missed => Cares(p)') /\ ~ToIndex(x, p)
      PROVE  RestInv'
  <2>1. OriginsStay  BY <1>2, <1>3, OriginsOn DEF Binning
  <2>2. ASSUME NEW p \in Paths, Exists(p), file[p] \notin displaced', file'[p] = file[p]
        PROVE  /\ p \in due \cup missed => Cares(p)'
               /\ Indexed(p) => Cares(p)'
               /\ \A z \in {x} : ToIndex(z, p) => Cares(p)'
    <3>1. Indexed(p) => Indexed(p)'  BY <1>2, <2>2, OwnersSame, IndexedStays
    <3> QED  BY <1>3, <3>1 DEF Cares
  <2>3. {x} \in SUBSET Actors /\ \A z \in {x} : Orderly(z)'  BY <1>3
  <2>4. \A y \in Actors \ {x} : act'[y] = act[y]  BY <1>3 DEF Alone
  <2>5. \A r \in Places : file'[r] \in {file[r], None}  BY <1>2
  <2> HIDE DEF RestInv
  <2> QED  BY <1>2, <1>3, <2>1, <2>2, <2>3, <2>4, <2>5, OwnersSame, RestKept
<1>4. CASE Ready
  <2>1. /\ Alone("starter") /\ act'["starter"].step = "idle" /\ act'["starter"].todo = {}
        /\ act["starter"].step = "next" /\ act["starter"].todo = {} /\ Quiet
    BY <1>1, <1>4, IdleFields, Sets DEF Ready, At
  <2>2. Orderly("starter")'  BY <2>1, OrderlyNext
  <2>3. Awake  BY <1>1, <2>1 DEF Awake, Stopped
  <2>4. \A p \in Paths : (p \in due \cup missed => Cares(p)') /\ ~ToIndex("starter", p)
    BY <2>1 DEF Cares, Quiet, ToIndex, Indexing
  <2> QED  BY <1>1, <1>3, <2>1, <2>2, <2>3, <2>4 DEF Binning
<1>5. CASE Import
  <2>1. PICK p \in due : /\ due' = due \ {p}
                         /\ act' = [act EXCEPT !["worker"] = [Idle EXCEPT !.step = "lock", !.at = p]]
    BY <1>5 DEF Import
  <2>2. /\ act["worker"].step = "idle" /\ UNCHANGED <<process, missed>> /\ p \in Paths
    BY <1>1, <1>5, <2>1 DEF Import, At, Shaped
  <2> DEFINE l == [Idle EXCEPT !.step = "lock", !.at = p]
  <2>3. l \in Acts /\ l.step = "lock" /\ l.at = p  BY <2>2, IdleFields, Names DEF Acts, Steps
  <2> HIDE DEF l
  <2>4. Alone("worker") /\ act'["worker"] = l  BY <1>1, <2>1, <2>3, Sets DEF l
  <2>5. Orderly("worker")'  BY <2>3, <2>4, OrderlyNext DEF Indexing
  <2>6. Awake' => Awake  BY <2>2, <2>4, Names DEF Awake, Alone
  <2>7. \A q : ~ToIndex("worker", q)  BY <1>1, <2>2, NothingToIndex DEF Indexing
  <2>8. ToIndex("worker", p)'  BY <2>3, <2>4 DEF ToIndex, Indexing
  <2>9. \A q \in Paths : q \in due \cup missed => Cares(q)'  BY <1>1, <2>1, <2>2, <2>8 DEF Cares
  <2> QED  BY <1>1, <1>3, <2>3, <2>4, <2>5, <2>6, <2>7, <2>9 DEF Binning
<1>6. CASE Purge
  <2>1. PICK old \in SUBSET {i \in Ids : Trashed(i)} :
          act' = [act EXCEPT !["worker"] = [Idle EXCEPT !.step = "purge",
                                                        !.bins = {<<row[i].at, i>> : i \in old}]]
    BY <1>6 DEF Purge
  <2> DEFINE list == {<<row[i].at, i>> : i \in old}
             l == [Idle EXCEPT !.step = "purge", !.bins = list]
  <2>2. list \in SUBSET Entries
    BY <1>1, <2>1 DEF Entries, Trashed, Typed, Owned, Shaped, Rows
  <2> HIDE DEF list
  <2>3. l \in Acts /\ l.step = "purge" /\ l.todo = {}  BY <2>2, IdleFields DEF Acts, Steps
  <2> HIDE DEF l
  <2>4. Alone("worker") /\ act'["worker"] = l  BY <1>1, <2>1, <2>3, Sets DEF l, list
  <2>5. Orderly("worker")'  BY <2>3, <2>4, OrderlyNext
  <2>6. process' = process /\ Quiet /\ act["worker"].step = "idle"  BY <1>6 DEF Purge, At
  <2>7. Awake' => Awake  BY <2>4, <2>6, Names DEF Awake, Alone
  <2>8. \A q : ~ToIndex("worker", q)  BY <1>1, <2>6, NothingToIndex DEF Indexing
  <2>9. \A q \in Paths : q \in due \cup missed => Cares(q)'  BY <2>6 DEF Cares, Quiet
  <2> QED  BY <1>1, <1>3, <2>3, <2>4, <2>5, <2>7, <2>8, <2>9 DEF Binning
<1> QED  BY <1>4, <1>5, <1>6

\* Before the reindex of the start lists the files, nobody need know them.
LEMMA ProcessRest == ASSUME Typed, RestInv, Boot \/ Crash PROVE RestInv'
<1>1. act \in [Actors -> Acts] /\ "starter" \in Actors  BY Names, Facts
<1>2. CASE Boot
  <2> DEFINE l == [Idle EXCEPT !.step = "list"]
  <2>1. l \in Acts /\ l.step = "list" /\ l.todo = {}  BY IdleFields DEF Acts, Steps
  <2> HIDE DEF l
  <2>2. Alone("starter") /\ act'["starter"] = l  BY <1>1, <1>2, <2>1, Sets DEF Boot, l
  <2>3. UNCHANGED <<file, owner, row, displaced>>  BY <1>2 DEF Boot, disk
  <2>4. OriginsStay  BY <1>1, <2>1, <2>2, <2>3, OriginsOn DEF Binning
  <2>5. \A y \in Actors \ {"starter"} : Orderly(y)'
    BY <2>2, <2>3, <2>4, OwnersSame, OrderlyStays DEF Alone
  <2>6. Orderly("starter")'  BY <2>1, <2>2, OrderlyNext
  <2>7. ~Awake'  BY <2>1, <2>2 DEF Awake
  <2> QED  BY <2>5, <2>6, <2>7 DEF RestInv, Cared
<1>3. CASE Crash
  <2>1. process' = "down" /\ \A x \in Actors : act'[x].step = "idle" /\ act'[x].todo = {}
    BY <1>3, IdleFields DEF Crash
  <2> QED  BY <2>1, OrderlyNext DEF RestInv, Cared, Awake
<1> QED  BY <1>2, <1>3

LEMMA PurgeFileRest == ASSUME Typed, RestInv, PurgeFile PROVE RestInv'
<1> SUFFICES ASSUME NEW x \in Actors, x = "worker" PROVE RestInv'  BY Names
<1>1. act \in [Actors -> Acts] /\ act[x] \in Acts /\ Shaped /\ act[x].step = "purge"
  BY Facts DEF PurgeFile, At
<1>2. UNCHANGED <<owner, row, process>> /\ Quiet  BY DEF PurgeFile
<1>3. PICK e \in act[x].bins :
        \/ /\ e[1] \in Bins
           /\ file' = [file EXCEPT ![e[1]] = None]
           /\ displaced \subseteq displaced'
           /\ act' = [act EXCEPT ![x] = [@ EXCEPT !.step = "delete", !.at = e[1], !.id = e[2],
                                                  !.bins = act[x].bins \ {e}]]
        \/ /\ act' = [act EXCEPT ![x] = Idle]
           /\ UNCHANGED <<file, displaced>>
  BY DEF PurgeFile, disk
<1>4. (\A q : ~ToIndex(x, q)) /\ act[x].todo = {}  BY <1>1, NothingToIndex DEF Indexing
<1>5. Alone(x) /\ act'[x].step \in {"delete", "idle"} /\ act'[x].todo = {}
  <2> DEFINE rest == act[x].bins \ {e}
             l == [act[x] EXCEPT !.step = "delete", !.at = e[1], !.id = e[2], !.bins = rest]
  <2>1. CASE act' = [act EXCEPT ![x] = Idle]  BY <1>1, <2>1, IdleFields, Sets
  <2>2. CASE act' = [act EXCEPT ![x] = l]
    <3>1. rest \in SUBSET Entries /\ e[2] \in Ids /\ e[1] \in Places  BY <1>1, <1>3 DEF Acts, Entries
    <3> HIDE DEF rest
    <3>2. l \in Acts /\ l.step = "delete" /\ l.todo = {}  BY <1>1, <1>4, <3>1 DEF Acts, Steps
    <3> HIDE DEF l
    <3> QED  BY <1>1, <2>2, <3>2, Sets
  <2> QED  BY <1>3, <2>1, <2>2
<1>6. displaced \subseteq displaced' /\ \A r \in Places : file'[r] \in {file[r], None}
  BY <1>1, <1>3 DEF Shaped
<1>7. OriginsStay  BY <1>2, <1>5, OriginsOn DEF Binning
<1>8. Orderly(x)'  BY <1>5, OrderlyNext
<1> QED  BY <1>1, <1>2, <1>4, <1>5, <1>6, <1>7, <1>8, Hears, OwnersSame, RestPlain

LEMMA OthersRest == ASSUME Typed, RestInv, Remove \/ Strip \/ UNCHANGED vars PROVE RestInv'
<1>1. UNCHANGED <<owner, row, process, act>> /\ displaced \subseteq displaced' /\ Heard
  BY Hears DEF Remove, Strip, vars, Heard
<1>2. \A r \in Places : file'[r] \in {file[r], None}
  BY DEF Typed, TypeOK, Remove, Strip, vars, disk
<1>3. OwnersStay /\ OriginsStay  BY <1>1, OwnersSame, OriginsSame
<1>4. Awake' => Awake  BY <1>1 DEF Awake
<1>5. ASSUME NEW p \in Paths, Exists(p), file[p] \notin displaced', file'[p] = file[p]
      PROVE  /\ p \in due \cup missed => Cares(p)'
             /\ Indexed(p) => Cares(p)'
             /\ \A x \in {} : ToIndex(x, p) => Cares(p)'
  <2>1. Indexed(p) => Indexed(p)'  BY <1>1, <1>3, <1>5, IndexedStays
  <2> QED  BY <1>1, <2>1 DEF Cares, Heard
<1>6. {} \in SUBSET Actors /\ \A x \in {} : Orderly(x)'  OBVIOUS
<1> HIDE DEF RestInv
<1> QED  BY <1>1, <1>2, <1>3, <1>4, <1>5, <1>6, RestKept

LEMMA InitRest == ASSUME Init PROVE RestInv
<1>1. process = "down" /\ \A x \in Actors : act[x].step = "idle" /\ act[x].todo = {}
  BY IdleFields DEF Init, InitWith
<1> QED
  BY <1>1 DEF RestInv, Cared, Awake, Orderly, NamesOwn, NamesHere, Vacant, Listing, Naming

LEMMA StepRest == ASSUME Typed, SideInv, IdInv, Stopped, RestInv, [Next]_vars PROVE RestInv'
<1> HIDE DEF RestInv
<1>1. ASSUME NEW x \in Actors, IndexStep(x) \/ List(x) \/ Wipe(x) \/ NextFile(x) PROVE RestInv'
  BY <1>1, ReadRest, MatchRest, WriteRest, UpsertRest, ListRest, WipeRest, NextRest DEF IndexStep
<1>2. ASSUME NEW u \in Requests, Request(u) PROVE RestInv'
  BY <1>2, AskRest, CopyRest, SideRest, ForgetRest, BinRest, TrashRest, OutRest DEF Request
<1> QED
  BY <1>1, <1>2, ServeRest, PurgeFileRest, PurgeRowRest, ProcessRest, UserRest, OthersRest DEF Next

\* The index is complete when nothing is under way: whatever imports, copies, reindexes,
\* repairs, deletions and restores overlapped, and however often the process stopped, a row
\* has every file of the Library, unless its import was refused or nobody watched when it
\* came, or another file took its place under the hands of an operation.
THEOREM LibraryIsIndexed == Spec => []RestIsIndexed
<1>1. Init => Typed /\ SideInv /\ IdInv /\ Stopped /\ RestInv
  BY InitTyped, InitSides, InitIds, InitRest
<1>2. Typed /\ SideInv /\ IdInv /\ Stopped /\ RestInv /\ [Next]_vars
      => Typed' /\ SideInv' /\ IdInv' /\ Stopped' /\ RestInv'
  BY StepTyped, StepSides, StepIds, StepStopped, StepRest
<1>3. RestInv => RestIsIndexed
  <2> SUFFICES ASSUME RestInv, Quiescent, NEW p \in Paths, Exists(p), p \notin missed,
                      file[p] \notin displaced
               PROVE  \E i \in Ids : row[i].at = p
    BY DEF RestIsIndexed
  <2>1. \A x \in Actors : act[x].step = "idle" /\ act[x].todo = {}
    BY DEF Quiescent, At, RestInv, Orderly, Listing, Indexing
  <2>2. Awake  BY <2>1, Names DEF Awake, Quiescent
  <2>3. Cares(p)  BY <2>2 DEF RestInv, Cared
  <2>4. \A x \in Actors : ~ToIndex(x, p)  BY <2>1 DEF ToIndex, Indexing
  <2> QED  BY <2>3, <2>4 DEF Cares, Indexed, Quiescent
<1> QED  BY <1>1, <1>2, <1>3, PTL DEF Spec
=============================================================================
