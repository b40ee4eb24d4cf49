------------------------------- MODULE Library -------------------------------
(***************************************************************************)
(* The Library of packages/core/src/library: a folder of media files, each *)
(* with a sidecar that names its asset, and the assets table that indexes  *)
(* them.  Files are the truth: the index is made again at every start.     *)
(* The indexers (watcher and maintenance queue, folder imports, recovery   *)
(* of metadata, reindex) take a lock per path; moving an asset to the      *)
(* Trash and back takes none, and neither does the user, who adds and      *)
(* moves files with other programs.                                        *)
(*                                                                         *)
(* One step is one rename, one sidecar written or one statement.  What is  *)
(* left out: folders, tags and lineage, the thumbnails, unreadable         *)
(* sidecars, and the shortcut of indexAsset for a file that did not change,*)
(* which writes nothing that Upsert would not write again.                 *)
(***************************************************************************)
EXTENDS Integers, FiniteSets

CONSTANTS
    Paths,           \* places of the Library
    Bins,            \* places of the Trash; bound: the files moved there
    Beside,          \* the "-restored" path of each path
    Files,           \* media files
    Content,         \* what each is: its bytes, hence hash and size
    Embedded,        \* the asset_id in the file's own metadata, or None
    Ids,             \* asset ids; bound: the ids made
    Requests,        \* requests of the interface
    Operations,      \* what they ask for
    None,
    MaxCalls,        \* bound: requests
    MaxMoves,        \* bound: moves and removals by other programs
    MaxBoots         \* bound: starts of the process

Places == Paths \cup Bins
Actors == Requests \cup {"worker", "starter"}

ASSUME PlacesAssumption ==
    /\ Paths \cap Bins = {} /\ None \notin Places \cup Files \cup Ids \cup Actors
    /\ Beside \in [Paths -> Paths]
    /\ Content \in [Files -> Files]
    /\ Embedded \in [Files -> Ids \cup {None}]
    /\ \A f, g \in Files : Content[f] = Content[g] => Embedded[f] = Embedded[g]
ASSUME RequestsAssumption ==
    /\ {"worker", "starter"} \cap Requests = {}
    /\ Operations \subseteq {"import", "copy", "edit", "trash", "restore", "recover", "reindex"}
    /\ MaxCalls \in Nat /\ MaxMoves \in Nat /\ MaxBoots \in Nat

VARIABLES
    file,            \* the media file at each place
    side,            \* the asset_id of the sidecar at each place
    owner,           \* the file each id was made for, whose hash its sidecars carry
    row,             \* assets
    process,         \* "down", "starting" while the reindex runs, "up"
    due,             \* paths the watcher will import: waiting, timed or queued
    lock,            \* withPathLock
    act,             \* what each actor does
    forgotten,       \* files of the Trash whose row went, or went elsewhere
    displaced,       \* files whose place another file took, also under the hands of an
                     \* operation, or whose sidecar or row went while it was all that knew
                     \* them: the properties say nothing of these
    missed,          \* paths that changed while nobody watched, or whose import was refused
    calls, moves, boots

disk == <<file, side>>
bounds == <<calls, moves, boots>>
vars == <<file, side, owner, row, process, due, lock, act, forgotten, displaced, missed, calls, moves, boots>>
-----------------------------------------------------------------------------
Rows == [at : Places \cup {None}, from : Paths \cup {None}]
NoRow == [at |-> None, from |-> None]
\* trashedAt and originalPath are written together.
Trashed(i) == row[i].from # None

Steps == {"idle", "scan", "list", "wipe", "next", "lock", "match", "write", "sweep",
          "upsert", "note", "forget", "bin", "stamp", "carry", "unlink", "trashed",
          "out", "follow", "restored", "purge", "delete"}
\* A row's path and its id, as a purge lists them.
Entries == Places \X Ids
Acts == [step : Steps, at : Places \cup {None}, to : Places \cup {None}, id : Ids \cup {None},
         seen : Ids \cup {None}, todo : SUBSET Paths, bins : SUBSET Entries]
Idle == [step |-> "idle", at |-> None, to |-> None, id |-> None, seen |-> None, todo |-> {},
         bins |-> {}]

TypeOK ==
    /\ file \in [Places -> Files \cup {None}]
    /\ side \in [Places -> Ids \cup {None}]
    /\ owner \in [Ids -> Files \cup {None}]
    /\ row \in [Ids -> Rows]
    /\ process \in {"down", "starting", "up"}
    /\ due \subseteq Paths /\ missed \subseteq Paths
    /\ lock \in [Paths -> Actors \cup {None}]
    /\ act \in [Actors -> Acts]
    /\ forgotten \subseteq Files /\ displaced \subseteq Files
    /\ calls \in 0 .. MaxCalls /\ moves \in 0 .. MaxMoves /\ boots \in 0 .. MaxBoots

\* A new Library; some of the bounds may be used up, some files absent.
InitWith(c, m, n, absent) ==
    /\ file = [p \in Places |-> None] /\ side = [p \in Places |-> None]
    /\ owner = [i \in Ids |-> None]
    /\ row = [i \in Ids |-> NoRow]
    /\ process = "down" /\ due = {} /\ missed = {}
    /\ lock = [p \in Paths |-> None]
    /\ act = [x \in Actors |-> Idle]
    /\ forgotten = {} /\ displaced = absent
    /\ calls = c /\ moves = m /\ boots = n
Init == InitWith(0, 0, 0, {})

-----------------------------------------------------------------------------
At(x, s) == act[x].step = s
To(x, s) == act' = [act EXCEPT ![x].step = s]
Exists(p) == file[p] # None
Holding(p, f) == file[p] = f

\* The watcher reports a media file or a sidecar that appears or changes.  It is made
\* after the reindex, and reports nothing that was there before it.
Notice(ps) ==
    IF process = "up" THEN due' = due \cup (ps \cap Paths) /\ UNCHANGED missed
    ELSE missed' = missed \cup (ps \cap Paths) /\ UNCHANGED due
Quiet == UNCHANGED <<due, missed>>

\* When a sidecar goes, the timer of its file, if that is the file's only notice, goes too.
Dismiss(p) ==
    \/ Quiet
    \/ /\ p \in due /\ process = "up"
       /\ due' = due \ {p} /\ missed' = missed \cup {p}

\* No operation is under way on a path.
Touches(x, p) == p \in {act[x].at, act[x].to}
Untouched(p, by) == \A x \in by : ~Touches(x, p)

Held(p) == IF p = None THEN None ELSE file[p]
IdAt(p) == IF p = None THEN None ELSE side[p]
\* The files of an operation: those at its places, and those its ids were made for.
Concerned(x) ==
    {f \in Files : \/ f \in {Held(act[x].at), Held(act[x].to)}
                  \/ \E i \in Ids \cap {act[x].id, act[x].seen, IdAt(act[x].at)} : owner[i] = f}
\* A copy or a restore takes no lock: it may put a file at a path under the hands of
\* others, which then know it for the one that was there.
Crossed(f, p, by) == UNION {{f} \cup Concerned(x) : x \in {y \in by : Touches(y, p)}}

\* An operation is over: a reindex goes on to its next file, whatever came of this one.
Done(x) ==
    act' = [act EXCEPT ![x] = IF x = "starter" \/ @.todo # {} THEN [@ EXCEPT !.step = "next"]
                              ELSE Idle]

-----------------------------------------------------------------------------
(* indexAsset.                                                              *)

Unlock(x) == lock' = [lock EXCEPT ![act[x].at] = None]
Throw(x) == Unlock(x) /\ Done(x)

\* A restored file is there before its sidecar.
Awaited(p) == \E u \in Requests : At(u, "follow") /\ act[u].to = p

\* Deviation: two callers index one path at a time.
ReadUnheld(x) ==
    /\ At(x, "lock") /\ Exists(act[x].at)
    /\ LET p == act[x].at IN
        /\ lock' = [lock EXCEPT ![p] = x]
        /\ act' = [act EXCEPT ![x].id = side[p],
                              ![x].step = IF side[p] # None THEN "upsert" ELSE "match"]
        /\ displaced' = IF side[p] = None /\ Awaited(p) THEN displaced \cup {file[p]} ELSE displaced
    /\ Quiet
    /\ UNCHANGED <<disk, owner, row, process, forgotten, bounds>>

\* A lock is taken by whoever finds it free, the file is probed and hashed, and its sidecar
\* read; a file that is gone is an error.
Read(x) ==
    /\ At(x, "lock") /\ lock[act[x].at] = None
    /\ LET p == act[x].at IN
        \/ /\ ~Exists(p)
           /\ Done(x)
           /\ UNCHANGED <<lock, displaced>>
        \/ /\ Exists(p)
           /\ lock' = [lock EXCEPT ![p] = x]
           /\ act' = [act EXCEPT ![x].id = side[p],
                                 ![x].step = IF side[p] # None THEN "upsert" ELSE "match"]
           /\ displaced' = IF side[p] = None /\ Awaited(p) THEN displaced \cup {file[p]} ELSE displaced
    /\ Quiet
    /\ UNCHANGED <<disk, owner, row, process, forgotten, bounds>>

\* Deviation: the bytes are not compared.
TwinsAny(p) == {i \in Ids : row[i].at \notin {None, p} /\ owner[i] # None}

\* Rows of the same bytes under another path.
Twins(p) == {i \in Ids : /\ row[i].at \notin {None, p} /\ owner[i] # None
                         /\ Content[owner[i]] = Content[file[p]]}

\* recoverExternalMove takes the id of one whose file is gone and whose sidecar is still
\* there; it cannot look into the Trash, which resolveInRoot refuses.
Left(p) == {i \in Twins(p) : row[i].at \in Paths /\ ~Exists(row[i].at) /\ side[row[i].at] # None}
Binned(p) == {i \in Twins(p) : row[i].at \in Bins}

Fresh == {i \in Ids : /\ owner[i] = None /\ \A f \in Files : Embedded[f] # i
                     /\ \A x \in Actors : act[x].id # i}

\* A file of the same bytes takes over the id, or the sidecar of a third.
Taken(i, f) == /\ Content[owner[i]] = Content[f]
               /\ {owner[i], owner[side[row[i].at]]} # {f}

Carried(i) == row[i].at # None \/ \E p \in Places : side[p] = i
Pending(i) == \E x \in Actors : i \in {act[x].id, act[x].seen}
\* An id in the metadata of several files is still that of another.
Shared(i, f) == /\ owner[i] \notin {None, f}
                /\ Carried(i) \/ Pending(i) \/ \E p \in Places : Holding(p, owner[i])

Match(x) ==
    /\ At(x, "match")
    /\ LET p == act[x].at
           f == file[p] IN
        \/ /\ IF Exists(p) THEN Binned(p) # {} ELSE TRUE
           /\ Throw(x)
           /\ missed' = missed \cup {p}
           /\ UNCHANGED <<owner, displaced>>
        \/ \E i \in IF Exists(p) THEN Left(p) ELSE {} :
            /\ act' = [act EXCEPT ![x].step = "write", ![x].id = side[row[i].at], ![x].to = row[i].at]
            /\ displaced' = IF Taken(i, f) \/ ~Untouched(row[i].at, Actors \ {x})
                            THEN displaced \cup {f, owner[i], owner[side[row[i].at]]} ELSE displaced
            /\ UNCHANGED <<lock, owner, missed>>
        \/ /\ Exists(p) /\ Left(p) = {} /\ Binned(p) = {}
           /\ \E i \in IF Embedded[f] # None THEN {Embedded[f]} ELSE Fresh :
                /\ act' = [act EXCEPT ![x].step = "write", ![x].id = i, ![x].to = None]
                /\ owner' = [owner EXCEPT ![i] = f]
                /\ displaced' = IF Shared(i, f) THEN displaced \cup {f, owner[i]} ELSE displaced
           /\ UNCHANGED <<lock, missed>>
    /\ UNCHANGED <<disk, row, due, process, forgotten, bounds>>

Write(x) ==
    /\ At(x, "write")
    /\ side' = [side EXCEPT ![act[x].at] = act[x].id]
    /\ Notice(IF Exists(act[x].at) THEN {act[x].at} ELSE {})
    /\ To(x, IF act[x].to # None THEN "sweep" ELSE "upsert")
    /\ UNCHANGED <<file, owner, row, process, lock, forgotten, displaced, bounds>>

Sweep(x) ==
    /\ At(x, "sweep")
    /\ side' = [side EXCEPT ![act[x].to] = None]
    /\ To(x, "upsert")
    /\ Dismiss(act[x].to)
    /\ UNCHANGED <<file, owner, row, process, lock, forgotten, displaced, bounds>>

InTrash == {f \in Files : \E b \in Bins : Holding(b, f)}

\* The row of the id, whose path no other row may have.  The sidecar's time is read for
\* the row, so one that is gone is an error.
Upsert(x) ==
    /\ At(x, "upsert")
    /\ LET p == act[x].at
           i == act[x].id IN
        IF side[p] = None \/ \E j \in Ids \ {i} : row[j].at = p
        THEN missed' = missed \cup {p} /\ UNCHANGED <<row, forgotten, displaced>>
        ELSE /\ row' = [row EXCEPT ![i].at = p]
             /\ missed' = missed \ {p}
             /\ forgotten' = forgotten \cup (InTrash \cap {Held(row[i].at)})
             /\ displaced' = IF Trashed(i) THEN displaced \cup {owner[i]} ELSE displaced
    /\ Throw(x)
    /\ UNCHANGED <<disk, due, owner, process, bounds>>

IndexStep(x) == Read(x) \/ Match(x) \/ Write(x) \/ Sweep(x) \/ Upsert(x)

-----------------------------------------------------------------------------
(* reindexLibrary.                                                          *)

Present == {p \in Paths : Exists(p)}

\* The files are listed; an import of a folder starts the same way, and wipes nothing.
List(x) ==
    /\ At(x, "list") \/ At(x, "scan")
    /\ act' = [act EXCEPT ![x].step = IF @ = "list" THEN "wipe"
                                     ELSE IF Present = {} THEN "idle" ELSE "next",
                          ![x].todo = Present]
    /\ missed' = {}
    /\ UNCHANGED <<disk, owner, row, process, due, lock, forgotten, displaced, bounds>>

\* Files another program moved without their sidecar, known by the row only.
Strays(I) == {f \in Files : \E i \in I : /\ owner[i] = f /\ row[i].at # None
                                          /\ ~Holding(row[i].at, f)}

Wipe(x) ==
    /\ At(x, "wipe")
    /\ row' = [i \in Ids |-> NoRow]
    /\ forgotten' = forgotten \cup InTrash
    /\ missed' = missed \cup ({row[i].at : i \in Ids} \cap (Paths \ act[x].todo))
    /\ IF x # "starter" /\ act[x].todo = {} THEN act' = [act EXCEPT ![x] = Idle] ELSE To(x, "next")
    /\ displaced' = displaced \cup Strays(Ids)
    /\ UNCHANGED <<disk, owner, process, due, lock, bounds>>

\* The files are taken in order; which order does not matter to them.
NextFile(x) ==
    /\ At(x, "next") /\ act[x].todo # {}
    /\ \E p \in act[x].todo :
        act' = [act EXCEPT ![x] = [Idle EXCEPT !.step = "lock", !.at = p,
                                                !.todo = act[x].todo \ {p}]]
    /\ Quiet
    /\ UNCHANGED <<disk, owner, row, process, lock, forgotten, displaced, bounds>>

\* The end of the reindex at the start: the queues are served and the watcher is ready.
Ready ==
    /\ At("starter", "next") /\ act["starter"].todo = {}
    /\ process' = "up"
    /\ act' = [act EXCEPT !["starter"] = Idle]
    /\ Quiet
    /\ UNCHANGED <<disk, owner, row, lock, forgotten, displaced, bounds>>

-----------------------------------------------------------------------------
(* The interface's requests.                                                *)

Free(u) == At(u, "idle") /\ calls < MaxCalls /\ process # "down"
Begin(u, a) == act' = [act EXCEPT ![u] = a] /\ calls' = calls + 1

\* importFolder and the reindex of the settings page.
AskScan(u) ==
    /\ Free(u)
    /\ \E op \in Operations \cap {"import", "reindex"} :
        Begin(u, [Idle EXCEPT !.step = IF op = "import" THEN "scan" ELSE "list"])
    /\ Quiet
    /\ UNCHANGED <<disk, owner, row, process, lock, forgotten, displaced, moves, boots>>

\* A file put where another file, or the sidecar another left, still is.
Clash(f, p) ==
    IF Exists(p) \/ side[p] # None
    THEN ({f, file[p]} \ {None}) \cup {owner[i] : i \in {side[p]} \ {None}} ELSE {}

\* Files not seen before, whose id no operation has in its hands.
New == {f \in Files \ displaced : /\ \A p \in Places : ~Holding(p, f)
                                 /\ \A i \in Ids : owner[i] = f =>
                                      Embedded[f] = i /\ ~Carried(i) /\ ~Pending(i)}

\* importSources writes the file over whatever has its name.
AskCopy(u) ==
    /\ Free(u) /\ "copy" \in Operations
    /\ \E p \in Paths, f \in New :
        /\ file' = [file EXCEPT ![p] = f]
        /\ displaced' = displaced \cup Clash(f, p) \cup Crossed(f, p, Actors \ {u})
        /\ Notice({p})
        /\ Begin(u, [Idle EXCEPT !.step = "lock", !.at = p])
    /\ UNCHANGED <<side, owner, row, process, lock, forgotten, moves, boots>>

\* An operation on an asset reads its row first; one in the Trash has no path that
\* resolveInRoot accepts.
Asset(i) == row[i].at \in Paths /\ Exists(row[i].at)

\* updateAssetMetadata.
AskEdit(u) ==
    /\ Free(u) /\ "edit" \in Operations
    /\ \E i \in Ids :
        /\ Asset(i) /\ side[row[i].at] # None
        /\ Begin(u, [Idle EXCEPT !.step = "note", !.at = row[i].at, !.seen = side[row[i].at]])
    /\ Quiet
    /\ UNCHANGED <<disk, owner, row, process, lock, forgotten, displaced, moves, boots>>

Note(u) ==
    /\ At(u, "note")
    /\ side' = [side EXCEPT ![act[u].at] = act[u].seen]
    /\ Notice(IF Exists(act[u].at) THEN {act[u].at} ELSE {})
    /\ To(u, "lock")
    /\ UNCHANGED <<file, owner, row, process, lock, forgotten, displaced, bounds>>

\* recoverAssetMetadata: the row goes, then the file is indexed, unless it is in the
\* Trash.
AskRecover(u) ==
    /\ Free(u) /\ "recover" \in Operations
    /\ \E i \in Ids :
        /\ row[i].at # None
        /\ Begin(u, [Idle EXCEPT !.step = "forget", !.at = row[i].at, !.id = i])
    /\ Quiet
    /\ UNCHANGED <<disk, owner, row, process, lock, forgotten, displaced, moves, boots>>

\* An indexer gave the row another path since the operation read it.
Overtake(u) ==
    missed' = missed \cup ({row[act[u].id].at} \cap (Paths \ {act[u].at}))

Forget(u) ==
    /\ At(u, "forget")
    /\ row' = [row EXCEPT ![act[u].id] = NoRow]
    /\ forgotten' = forgotten \cup (InTrash \cap {Held(row[act[u].id].at)})
    /\ act' = [act EXCEPT ![u] = IF @.at \in Paths THEN [@ EXCEPT !.step = "lock", !.id = None]
                                ELSE Idle]
    /\ displaced' = displaced \cup Strays({act[u].id})
    /\ Overtake(u)
    /\ UNCHANGED <<disk, owner, process, lock, bounds, due>>

-----------------------------------------------------------------------------
(* deleteAssetToTrash.                                                      *)

EmptyBin == {b \in Bins : /\ file[b] = None /\ side[b] = None
                          /\ \A i \in Ids : row[i].at # b
                          /\ \A x \in Actors : act[x].to # b /\ act[x].at # b
                          /\ \A e \in act["worker"].bins : e[1] # b}

\* The name of the moment, which no other deletion has.
AskTrash(u) ==
    /\ Free(u) /\ "trash" \in Operations
    /\ \E i \in Ids, b \in EmptyBin :
        /\ Asset(i)
        /\ Begin(u, [Idle EXCEPT !.step = "bin", !.at = row[i].at, !.to = b, !.id = i,
                                !.seen = side[row[i].at]])
    /\ Quiet
    /\ UNCHANGED <<disk, owner, row, process, lock, forgotten, displaced, moves, boots>>

\* A rename of a file; one that is gone is an error, one that was there is overwritten.
\* What a restore finds at a path of the Library is not the file that was trashed.
Rename(p, q, by) ==
    /\ file' = [file EXCEPT ![p] = None, ![q] = file[p]]
    /\ displaced' = displaced \cup Clash(file[p], q) \cup Crossed(file[p], q, by)
                               \cup IF {p, q} \subseteq Paths THEN {file[p]} ELSE {}

\* Deviation: the watcher watches the Trash.
BinNoticed(u) ==
    /\ At(u, "bin") /\ Exists(act[u].at)
    /\ Rename(act[u].at, act[u].to, Actors \ {u})
    /\ To(u, IF act[u].seen # None THEN "stamp" ELSE "carry")
    /\ due' = due \cup {act[u].to}
    /\ UNCHANGED <<side, owner, row, process, lock, forgotten, missed, bounds>>

Bin(u) ==
    /\ At(u, "bin")
    /\ \/ /\ Exists(act[u].at)
          /\ Rename(act[u].at, act[u].to, Actors \ {u})
          /\ To(u, IF act[u].seen # None THEN "stamp" ELSE "carry")
       \/ /\ ~Exists(act[u].at)
          /\ act' = [act EXCEPT ![u] = Idle]
          /\ UNCHANGED <<file, displaced>>
    /\ Quiet
    /\ UNCHANGED <<side, owner, row, process, lock, forgotten, bounds>>

Stamp(u) ==
    /\ At(u, "stamp")
    /\ side' = [side EXCEPT ![act[u].to] = act[u].seen]
    /\ To(u, "unlink")
    /\ Quiet
    /\ UNCHANGED <<file, owner, row, process, lock, forgotten, displaced, bounds>>

Unlink(u) ==
    /\ At(u, "unlink")
    /\ side' = [side EXCEPT ![act[u].at] = None]
    /\ To(u, "trashed")
    /\ Dismiss(act[u].at)
    /\ UNCHANGED <<file, owner, row, process, lock, forgotten, displaced, bounds>>

\* renameIfExists of the sidecar.
Carry(u) ==
    /\ At(u, "carry")
    /\ side' = IF side[act[u].at] = None THEN side
               ELSE [side EXCEPT ![act[u].at] = None, ![act[u].to] = side[act[u].at]]
    /\ To(u, "trashed")
    /\ Dismiss(act[u].at)
    /\ UNCHANGED <<file, owner, row, process, lock, forgotten, displaced, bounds>>

Trash(u) ==
    /\ At(u, "trashed")
    /\ LET i == act[u].id
           b == act[u].to IN
        IF row[i].at = None
        THEN forgotten' = forgotten \cup {file[b]} /\ UNCHANGED <<row, displaced>>
        ELSE /\ row' = [row EXCEPT ![i] = [at |-> b, from |-> act[u].at]]
             /\ forgotten' = forgotten \cup (InTrash \cap {Held(row[i].at)})
             /\ displaced' = displaced \cup
                  (Strays({i}) \ IF row[i].at = act[u].at THEN {file[b]} ELSE {})
    /\ act' = [act EXCEPT ![u] = Idle]
    /\ Overtake(u)
    /\ UNCHANGED <<disk, owner, process, due, lock, bounds>>

-----------------------------------------------------------------------------
(* restoreAsset.                                                            *)

\* Beside the original path when that is taken; whether the other is taken too is not
\* asked.
AskRestore(u) ==
    /\ Free(u) /\ "restore" \in Operations
    /\ \E i \in Ids :
        /\ Trashed(i) /\ Exists(row[i].at)
        /\ Begin(u, [Idle EXCEPT !.step = "out", !.at = row[i].at, !.id = i,
                                !.to = IF Exists(row[i].from) THEN Beside[row[i].from] ELSE row[i].from])
    /\ Quiet
    /\ UNCHANGED <<disk, owner, row, process, lock, forgotten, displaced, moves, boots>>

Out(u) ==
    /\ At(u, "out")
    /\ \/ /\ Exists(act[u].at)
          /\ Rename(act[u].at, act[u].to, Actors \ {u})
          /\ Notice({act[u].to})
          /\ To(u, "follow")
       \/ /\ ~Exists(act[u].at)
          /\ act' = [act EXCEPT ![u] = Idle]
          /\ Quiet
          /\ UNCHANGED <<file, displaced>>
    /\ UNCHANGED <<side, owner, row, process, lock, forgotten, bounds>>

\* The sidecar follows, and is written again without its Trash block.
Follow(u) ==
    /\ At(u, "follow")
    /\ side' = IF side[act[u].at] = None THEN side
               ELSE [side EXCEPT ![act[u].at] = None, ![act[u].to] = side[act[u].at]]
    /\ Notice({act[u].to} \cap Present)
    /\ To(u, "restored")
    /\ UNCHANGED <<file, owner, row, process, lock, forgotten, displaced, bounds>>

\* Deviation: the row keeps its time in the Trash.
RestoreStamped(u) ==
    /\ At(u, "restored")
    /\ LET i == act[u].id IN
        row' = IF row[i].at = None \/ \E j \in Ids \ {i} : row[j].at = act[u].to THEN row
               ELSE [row EXCEPT ![i].at = act[u].to]
    /\ forgotten' = forgotten \cup (InTrash \cap {Held(row[act[u].id].at)})
    /\ act' = [act EXCEPT ![u] = Idle]
    /\ Overtake(u)
    /\ displaced' = IF row' = row \/ row[act[u].id].at \in Bins THEN displaced
                    ELSE displaced \cup Strays({act[u].id})
    /\ UNCHANGED <<disk, owner, process, due, lock, bounds>>

Restore(u) ==
    /\ At(u, "restored")
    /\ LET i == act[u].id IN
        row' = IF row[i].at = None \/ \E j \in Ids \ {i} : row[j].at = act[u].to THEN row
               ELSE [row EXCEPT ![i] = [at |-> act[u].to, from |-> None]]
    /\ forgotten' = forgotten \cup (InTrash \cap {Held(row[act[u].id].at)})
    /\ act' = [act EXCEPT ![u] = Idle]
    /\ Overtake(u)
    /\ displaced' = IF row' = row \/ row[act[u].id].at \in Bins THEN displaced
                    ELSE displaced \cup Strays({act[u].id})
    /\ UNCHANGED <<disk, owner, process, due, lock, bounds>>

-----------------------------------------------------------------------------
(* The maintenance queue, served one message at a time.                     *)

\* Deviation: one timer for all paths.
ImportOnce ==
    /\ process = "up" /\ At("worker", "idle")
    /\ \E p \in due : act' = [act EXCEPT !["worker"] = [Idle EXCEPT !.step = "lock", !.at = p]]
    /\ due' = {}
    /\ UNCHANGED <<disk, owner, row, process, missed, lock, forgotten, displaced, bounds>>

Import ==
    /\ process = "up" /\ At("worker", "idle")
    /\ \E p \in due :
        /\ due' = due \ {p}
        /\ act' = [act EXCEPT !["worker"] = [Idle EXCEPT !.step = "lock", !.at = p]]
    /\ UNCHANGED <<disk, owner, row, process, missed, lock, forgotten, displaced, bounds>>

\* purgeTrash lists the rows that are old enough.
Purge ==
    /\ process = "up" /\ At("worker", "idle")
    /\ \E old \in SUBSET {i \in Ids : Trashed(i)} :
        /\ old # {}
        /\ act' = [act EXCEPT !["worker"] = [Idle EXCEPT !.step = "purge",
                                                        !.bins = {<<row[i].at, i>> : i \in old}]]
    /\ Quiet
    /\ UNCHANGED <<disk, owner, row, process, lock, forgotten, displaced, bounds>>

\* Deviation: only the sidecar is removed.
PurgeSidecar ==
    /\ At("worker", "purge")
    /\ \E e \in act["worker"].bins :
        /\ e[1] \in Bins
        /\ side' = [side EXCEPT ![e[1]] = None]
        /\ act' = [act EXCEPT !["worker"] = [@ EXCEPT !.step = "delete", !.at = e[1], !.id = e[2],
                                                      !.bins = @ \ {e}]]
    /\ Quiet
    /\ UNCHANGED <<file, owner, row, process, lock, forgotten, displaced, bounds>>

\* A row that is not in the Trash stops the purge.
PurgeFile ==
    /\ At("worker", "purge")
    /\ \E e \in act["worker"].bins :
        \/ /\ e[1] \in Bins
           /\ file' = [file EXCEPT ![e[1]] = None]
           /\ side' = [side EXCEPT ![e[1]] = None]
           /\ displaced' = IF Exists(e[1]) \/ side[e[1]] = None THEN displaced
                           ELSE displaced \cup {owner[side[e[1]]]}
           /\ act' = [act EXCEPT !["worker"] = [@ EXCEPT !.step = "delete", !.at = e[1], !.id = e[2],
                                                         !.bins = act["worker"].bins \ {e}]]
        \/ /\ e[1] \notin Bins
           /\ act' = [act EXCEPT !["worker"] = Idle]
           /\ UNCHANGED <<disk, displaced>>
    /\ Quiet
    /\ UNCHANGED <<owner, row, process, lock, forgotten, bounds>>

\* The row may have another path by now.
PurgeRow ==
    /\ At("worker", "delete")
    /\ row' = [row EXCEPT ![act["worker"].id] = NoRow]
    /\ act' = [act EXCEPT !["worker"] = IF @.bins = {} THEN Idle
                                         ELSE [@ EXCEPT !.step = "purge", !.at = None, !.id = None]]
    /\ forgotten' = forgotten \cup ((InTrash \cap {Held(row[act["worker"].id].at)})
                                    \ {file[act["worker"].at]})
    /\ displaced' = displaced \cup Strays({act["worker"].id})
    /\ Overtake("worker")
    /\ UNCHANGED <<disk, owner, process, due, lock, bounds>>

-----------------------------------------------------------------------------
(* The process, and other programs.                                         *)

Boot ==
    /\ process = "down" /\ boots < MaxBoots
    /\ process' = "starting" /\ boots' = boots + 1
    /\ act' = [act EXCEPT !["starter"] = [Idle EXCEPT !.step = "list"]]
    /\ Quiet
    /\ UNCHANGED <<disk, owner, row, lock, forgotten, displaced, calls, moves>>

\* Restored files whose sidecar is still in the Trash: a crash parts them for good.
Halfway ==
    {f \in Files : \E u \in Requests : /\ At(u, "follow")
                                      /\ \/ Holding(act[u].to, f)
                                         \/ \E i \in Ids : side[act[u].at] = i /\ owner[i] = f}

\* The timers are lost, the queued messages are not.
Crash ==
    /\ process # "down" /\ boots < MaxBoots
    /\ process' = "down"
    /\ act' = [x \in Actors |-> Idle]
    /\ lock' = [p \in Paths |-> None]
    /\ due' \in SUBSET due
    /\ displaced' = displaced \cup Halfway
    /\ UNCHANGED <<disk, owner, row, missed, forgotten, bounds>>

\* A new file, where no sidecar of another is left.
Add ==
    /\ \E p \in Paths, f \in New :
        /\ file[p] = None /\ side[p] = None /\ Untouched(p, Actors)
        /\ file' = [file EXCEPT ![p] = f]
        /\ Notice({p})
    /\ UNCHANGED <<side, owner, row, process, lock, act, forgotten, displaced, bounds>>

\* A file is moved, with its sidecar or without.
Move ==
    /\ moves < MaxMoves /\ moves' = moves + 1
    /\ \E p \in Paths, q \in Paths :
        /\ Exists(p) /\ file[q] = None /\ side[q] = None
        /\ file' = [file EXCEPT ![p] = None, ![q] = file[p]]
        /\ \/ /\ side' = [side EXCEPT ![p] = None, ![q] = side[p]]
              /\ UNCHANGED displaced
           \/ /\ displaced' = IF side[p] # None /\ row[side[p]].at # p
                              THEN displaced \cup {file[p]} ELSE displaced
              /\ UNCHANGED side
        /\ Notice({q})
        /\ Untouched(p, Actors) /\ Untouched(q, Actors)
    /\ UNCHANGED <<owner, row, process, lock, act, forgotten, calls, boots>>

\* A file is removed, its sidecar is not.
Remove ==
    /\ moves < MaxMoves /\ moves' = moves + 1
    /\ \E p \in Paths :
        /\ Exists(p) /\ side[p] # None /\ Untouched(p, Actors)
        /\ file' = [file EXCEPT ![p] = None]
    /\ Quiet
    /\ UNCHANGED <<side, owner, row, process, lock, act, forgotten, displaced, calls, boots>>

\* A sidecar is removed.
Strip ==
    /\ moves < MaxMoves /\ moves' = moves + 1
    /\ \E p \in Paths :
        /\ side[p] # None /\ Untouched(p, Actors)
        /\ side' = [side EXCEPT ![p] = None]
        /\ Dismiss(p)
        /\ displaced' = displaced \cup {f \in Files : Holding(p, f)} \cup {owner[side[p]]}
    /\ UNCHANGED <<file, owner, row, process, lock, act, forgotten, calls, boots>>

Request(u) ==
    \/ AskScan(u) \/ AskCopy(u) \/ AskEdit(u) \/ Note(u) \/ AskRecover(u) \/ Forget(u)
    \/ AskTrash(u) \/ Bin(u) \/ Stamp(u) \/ Unlink(u) \/ Carry(u) \/ Trash(u)
    \/ AskRestore(u) \/ Out(u) \/ Follow(u) \/ Restore(u)

Next ==
    \/ \E x \in Actors : IndexStep(x) \/ List(x) \/ Wipe(x) \/ NextFile(x)
    \/ \E u \in Requests : Request(u)
    \/ Ready \/ Import \/ Purge \/ PurgeFile \/ PurgeRow
    \/ Boot \/ Crash \/ Add \/ Move \/ Remove \/ Strip

Spec == Init /\ [][Next]_vars
-----------------------------------------------------------------------------
Quiescent == process = "up" /\ due = {} /\ \A x \in Actors : At(x, "idle")

\* A file has one id, whoever indexes it and however often: the watcher, an import, a
\* reindex or a repair never make two (locks.ts names the race), and a move by another
\* program, the Trash and a restart keep the one it has (recoverExternalMove,
\* readEmbeddedMetadata).  Not so for copies of a generated file, which bring the id of
\* the original, nor for a restored file a crash parted from its sidecar, nor for a file
\* moved without its sidecar whose row an operation then gave another path.
OneId ==
    \A f \in Files \ displaced : Cardinality({i \in Ids : owner[i] = f /\ Carried(i)}) <= 1

\* The sidecar beside a file is its own: no indexer, edit or move through the Trash leaves
\* a file with the asset id of another.  Not so where a copy or a restore, which take no
\* lock, put a file at a path in the middle of another operation.
IdFollowsFile ==
    \A p \in Places : Exists(p) /\ side[p] # None =>
        \/ owner[side[p]] = file[p]
        \/ {owner[side[p]], file[p]} \subseteq displaced

\* When the queue is empty and no operation is under way, the index has every file of
\* the Library, but those whose import was refused or whose change nobody saw.
RestIsIndexed ==
    Quiescent => \A p \in Paths : Exists(p) =>
        \/ \E i \in Ids : row[i].at = p
        \/ p \in missed \/ file[p] \in displaced

\* A file in the Trash can be restored, and will be purged: some row has it there, with
\* its original path.  Not so where a reindex or a repair removed the row, as every start
\* does, or where an operation that read an older row gave it to another file.
TrashIsKept ==
    process = "up" =>
        \A b \in Bins : Exists(b) /\ Untouched(b, Actors) =>
            \/ \E i \in Ids : row[i].at = b /\ Trashed(i)
            \/ file[b] \in forgotten

\* No row stops the purge: one with a time in the Trash is in the Trash.  The exception
\* is a row an indexer moved to the path of a restore, or of a file under another name.
PurgeGoesOn ==
    \A i \in Ids : Trashed(i) => row[i].at \in Bins \/ owner[i] \in displaced
=============================================================================
