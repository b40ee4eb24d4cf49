----------------------------- MODULE Characters -----------------------------
(***************************************************************************)
(* One Character: its versions, the edits that change them, the jobs that  *)
(* freeze them and the trainings that make identities of them.             *)
(*                                                                         *)
(* An edit first looks for a version that no job has used, and forks one   *)
(* when the current version is frozen; only then does it read, merge and   *)
(* write.  Transactions (the fork, the acceptance of a job) are one step;  *)
(* every other statement is a step of its own, except that the reads of a  *)
(* version and of its references count as one, and so do the deletion or   *)
(* insertion of a reference and the reads before it that decide only its   *)
(* place in the list.  An edit is told by the number of its call: what it  *)
(* writes into a sentence or attaches carries that number, 0 being what    *)
(* the Character was created with.                                         *)
(***************************************************************************)
EXTENDS Naturals, Sequences, FiniteSets

CONSTANTS
    Callers,      \* requests in progress at a time
    Operations,   \* what they may ask for
    MaxRefs,      \* bound on the references one request adds
    MaxCalls,     \* bound on the requests
    MaxCrashes    \* bound on the crashes

ASSUME BoundsAssumption == MaxRefs \in Nat /\ MaxCalls \in Nat /\ MaxCrashes \in Nat

Fields   == {"descriptor", "anchors"}
Marks    == 0 .. MaxCalls
Rows     == [by : Marks, role : {"anchor", "other"}, nr : 1 .. MaxRefs]
Looks    == [Fields -> Marks]
Edits    == {"describe", "add", "remove"}

VARIABLES
    look,       \* the appearance of each version: the edit each sentence is from
    refs,       \* the character_references of each version
    current,    \* characters.current_version
    frozen,     \* the versions marked frozen
    young,      \* the edits whose words read as a minor
    consent,    \* consentSatisfied of the Character
    jobs,       \* accepted jobs, with the look they were resolved with
    identities, \* trained_identities: their rows
    disk,       \* whose artefact lora.safetensors of each version is
    call,       \* the request of each caller
    calls, crashes,
    \* What follows serves the properties only.
    overtaken,  \* jobs whose version an edit under way at their acceptance may change
    crowded,    \* versions two requests attached anchors to at once
    switched,   \* the owner has chosen a current version
    mixed,      \* callers whose edit met another edit or a switch
    moved,      \* callers whose training a change of consent, version or words met
    torn,       \* versions whose trainings met, or were cut off behind their file
    refused     \* edits that failed

store  == <<look, refs, current, frozen>>
people == <<young, consent, switched>>
made   == <<jobs, identities, disk>>
ghosts == <<overtaken, crowded, torn, refused>>
vars   == <<store, people, made, call, calls, crashes, ghosts, mixed, moved>>

Versions == 1 .. Len(look)
Newest == Len(look)

\* What one request may add: references of any roles, one at least.
Some(n, role, k) == {[by |-> n, role |-> role, nr |-> i] : i \in 1 .. k}
Batches(n) ==
    {Some(n, "anchor", p[1]) \cup Some(n, "other", p[2]) :
        p \in {q \in (0 .. MaxRefs) \X (0 .. MaxRefs) : q[1] + q[2] \in 1 .. MaxRefs}}
Anchors(rows) == {r \in rows : r.role = "anchor"}

Idle == [pc |-> "idle", op |-> "describe", n |-> 0, at |-> 1, field |-> "descriptor",
         seen |-> [f \in Fields |-> 0], refs |-> {}, rows |-> {}, todo |-> {}, home |-> 1,
         forked |-> FALSE, result |-> "failed", id |-> 0]

Pcs == {"idle", "check", "fork", "edit", "write", "insert", "accept",
        "minor", "consent", "load", "submit", "file", "select", "row"}
Calls == [pc : Pcs, op : Edits \cup {"generate", "train"}, n : Marks, at : Nat,
          field : Fields, seen : Looks, refs : SUBSET Rows, rows : SUBSET Rows, todo : SUBSET Rows,
          home : Nat, forked : BOOLEAN, result : {"ready", "failed"}, id : Marks]

Jobs == [version : Nat, look : Looks, refs : SUBSET Rows]
Identities == [id : Marks, version : Nat, status : {"ready", "failed"}, file : Marks]

TypeOK ==
    /\ look \in Seq(Looks) /\ refs \in Seq(SUBSET Rows) /\ disk \in Seq(Marks)
    /\ Len(refs) = Len(look) /\ Len(disk) = Len(look)
    /\ current \in Versions /\ frozen \subseteq Versions
    /\ young \subseteq Marks /\ consent \in BOOLEAN
    /\ jobs \in Seq(Jobs)
    /\ identities \subseteq Identities
    /\ call \in [Callers -> Calls] /\ \A c \in Callers : call[c].at \in Versions
    /\ calls \in Marks /\ crashes \in Nat
    /\ overtaken \subseteq Nat /\ crowded \subseteq Versions /\ torn \subseteq Versions
    /\ switched \in BOOLEAN /\ mixed \subseteq Callers /\ moved \subseteq Callers
    /\ refused \subseteq Marks

\* createCharacter, and the references its request brought, if any.
Init ==
    /\ look = <<[f \in Fields |-> 0]>>
    /\ \E rows \in {{}} \cup Batches(0) : refs = <<rows>>
    /\ current = 1 /\ frozen = {} /\ young \in SUBSET {0} /\ consent \in BOOLEAN
    /\ jobs = <<>> /\ identities = {} /\ disk = <<0>>
    /\ call = [c \in Callers |-> Idle]
    /\ calls = 0 /\ crashes = 0
    /\ overtaken = {} /\ crowded = {} /\ switched = FALSE
    /\ mixed = {} /\ moved = {} /\ torn = {} /\ refused = {}

-----------------------------------------------------------------------------
At(c, p) == call[c].pc = p
Goto(c, p) == call' = [call EXCEPT ![c].pc = p]
End(c) == call' = [call EXCEPT ![c] = Idle]

Editing(c)  == call[c].op \in Edits /\ ~At(c, "idle")
Training(c) == call[c].op = "train" /\ ~At(c, "idle")
Reaches(c, v) == call[c].pc \in {"edit", "write", "insert"} /\ call[c].at = v
Saving(c, v)  == call[c].pc \in {"file", "select", "row"} /\ call[c].at = v
Trainers == {c \in Callers : Training(c)}

\* minorSuspected of a version's words.
Minor(v) == \E f \in Fields : look[v][f] \in young

Count == calls < MaxCalls /\ calls' = calls + 1
Begin(c, r) == At(c, "idle") /\ Count /\ call' = [call EXCEPT ![c] = r]
Ask(op, p) == [Idle EXCEPT !.pc = p, !.op = op, !.n = calls + 1, !.at = current, !.home = current]

\* The edits of a Character's current version: its words, references added, one
\* removed.  The head is read at once.  Words that read as a minor's may stand in the
\* descriptor.
AskEdit(c, op) ==
    LET others == {d \in Callers \ {c} : Editing(d)}
    IN  /\ op \in Operations \cap Edits
        /\ \E f \in Fields, minor \in BOOLEAN,
              rows \in CASE op = "add"    -> Batches(calls + 1)
                         [] op = "remove" -> {{r} : r \in refs[current]}
                         [] OTHER         -> {{}} :
              /\ op # "describe" => f = "descriptor" /\ ~minor
              /\ f = "anchors" => ~minor
              /\ Begin(c, [Ask(op, "check") EXCEPT !.field = f, !.rows = rows, !.todo = rows])
              /\ young' = IF minor THEN young \cup {calls + 1} ELSE young
        /\ mixed' = IF others = {} THEN mixed \ {c} ELSE mixed \cup others \cup {c}
        /\ UNCHANGED <<store, consent, switched, made, crashes, ghosts, moved>>

\* setCurrentVersion.
Switch(v) ==
    /\ "switch" \in Operations /\ v \in Versions /\ Count
    /\ current' = v /\ switched' = TRUE
    /\ mixed' = mixed \cup {c \in Callers : Editing(c)}
    /\ moved' = moved \cup Trainers
    /\ UNCHANGED <<look, refs, frozen, young, consent, made, call, crashes, ghosts>>

\* setConsent.
SetConsent ==
    /\ "consent" \in Operations /\ Count
    /\ consent' = ~consent
    /\ moved' = moved \cup Trainers
    /\ UNCHANGED <<store, young, switched, made, call, crashes, ghosts, mixed>>

-----------------------------------------------------------------------------
(* Edits: ensureUnfrozenVersion, then the change.                           *)

Check(c) ==
    /\ At(c, "check")
    /\ Goto(c, IF call[c].at \in frozen THEN "fork" ELSE "edit")
    /\ UNCHANGED <<store, people, made, calls, crashes, ghosts, mixed, moved>>

\* Deviation: the version that was read is forked, not the one that is current now.
ForkSeen(c) ==
    LET from == call[c].at
    IN  /\ At(c, "fork")
        /\ IF from < Newest
           THEN /\ refused' = refused \cup {call[c].n} /\ End(c)
                /\ UNCHANGED <<store, disk, crowded, moved>>
           ELSE /\ current' = from + 1
                /\ look' = Append(look, look[from])
                /\ refs' = Append(refs, refs[from]) /\ disk' = Append(disk, 0)
                /\ crowded' = IF from \in crowded THEN crowded \cup {from + 1} ELSE crowded
                /\ call' = [call EXCEPT ![c].pc = "edit", ![c].at = from + 1, ![c].forked = TRUE]
                /\ moved' = moved \cup Trainers
                /\ UNCHANGED <<frozen, refused>>
        /\ UNCHANGED <<people, jobs, identities, calls, crashes, overtaken, torn, mixed>>

\* Deviation: the Character goes on pointing at the version that was forked.
ForkAside(c) ==
    LET from == current
    IN  /\ At(c, "fork") /\ from = Newest
        /\ look' = Append(look, look[from])
        /\ refs' = Append(refs, refs[from]) /\ disk' = Append(disk, 0)
        /\ call' = [call EXCEPT ![c].pc = "edit", ![c].at = from + 1, ![c].forked = TRUE]
        /\ UNCHANGED <<current, frozen, people, jobs, identities, calls, crashes, ghosts, mixed, moved>>

\* Deviation: the Character points at the next version before there is one.
ForkCutOff(c) ==
    /\ At(c, "fork")
    /\ current' = current + 1
    /\ refused' = refused \cup {call[c].n} /\ End(c)
    /\ UNCHANGED <<look, refs, frozen, people, made, calls, crashes, overtaken, crowded, torn,
                   mixed, moved>>

\* forkVersion, one transaction.  When the next number is taken the insert fails.
Fork(c) ==
    LET from == current
    IN  /\ At(c, "fork")
        /\ IF from < Newest
           THEN /\ refused' = refused \cup {call[c].n} /\ End(c)
                /\ UNCHANGED <<store, disk, crowded, moved>>
           ELSE /\ current' = from + 1
                /\ look' = Append(look, look[from])
                /\ refs' = Append(refs, refs[from]) /\ disk' = Append(disk, 0)
                /\ crowded' = IF from \in crowded THEN crowded \cup {from + 1} ELSE crowded
                /\ call' = [call EXCEPT ![c].pc = "edit", ![c].at = from + 1, ![c].forked = TRUE]
                /\ moved' = moved \cup Trainers
                /\ UNCHANGED <<frozen, refused>>
        /\ UNCHANGED <<people, jobs, identities, calls, crashes, overtaken, torn, mixed>>

\* setAppearance reads the version's words, merges its own and writes them all.
ReadLook(c) ==
    /\ At(c, "edit") /\ call[c].op = "describe"
    /\ call' = [call EXCEPT ![c].pc = "write", ![c].seen = look[call[c].at]]
    /\ UNCHANGED <<store, people, made, calls, crashes, ghosts, mixed, moved>>

WriteLook(c) ==
    LET k == call[c]
    IN  /\ At(c, "write")
        /\ look' = [look EXCEPT ![k.at] = [k.seen EXCEPT ![k.field] = k.n]]
        /\ moved' = moved \cup {d \in Trainers : call[d].at = k.at}
        /\ End(c)
        /\ UNCHANGED <<current, refs, frozen, people, made, calls, crashes, ghosts, mixed>>

\* A request that is about to attach an anchor to a version.
Attaches(c, v) == At(c, "insert") /\ call[c].at = v /\ Anchors(call[c].todo) # {}

\* Deviation: the anchors of the version that was read at first are deleted.
ClearHome(c) ==
    LET v == call[c].home
    IN  /\ At(c, "edit") /\ call[c].op = "add"
        /\ refs' = IF Anchors(call[c].rows) # {} THEN [refs EXCEPT ![v] = @ \ Anchors(@)] ELSE refs
        /\ Goto(c, "insert")
        /\ UNCHANGED <<current, look, frozen, people, made, calls, crashes, ghosts, mixed, moved>>

\* addReferences: with an anchor among the references to add, the anchors there are go.
ClearAnchor(c) ==
    LET v == call[c].at
        replaces == Anchors(call[c].rows) # {}
        others == {d \in Callers \ {c} : Attaches(d, v)}
    IN  /\ At(c, "edit") /\ call[c].op = "add"
        /\ refs' = IF replaces THEN [refs EXCEPT ![v] = @ \ Anchors(@)] ELSE refs
        /\ crowded' = IF ~replaces THEN crowded
                      ELSE IF others = {} THEN crowded \ {v} ELSE crowded \cup {v}
        /\ Goto(c, "insert")
        /\ UNCHANGED <<current, look, frozen, people, made, calls, crashes, overtaken, torn,
                       refused, mixed, moved>>

\* Its loop: one reference after the other, in the order of the request.
Insert(c) ==
    LET k == call[c]
    IN  /\ At(c, "insert")
        /\ \E r \in k.todo :
              /\ refs' = [refs EXCEPT ![k.at] = @ \cup {r}]
              /\ IF k.todo = {r} THEN End(c) ELSE call' = [call EXCEPT ![c].todo = @ \ {r}]
        /\ UNCHANGED <<current, look, frozen, people, made, calls, crashes, ghosts, mixed, moved>>

\* removeReference deletes by the row's id and by version; a fork copies the rows
\* under ids of their own, so behind a fork there is nothing to delete.
Remove(c) ==
    LET k == call[c]
    IN  /\ At(c, "edit") /\ k.op = "remove"
        /\ refs' = IF k.home = k.at THEN [refs EXCEPT ![k.at] = @ \ k.rows] ELSE refs
        /\ End(c)
        /\ UNCHANGED <<current, look, frozen, people, made, calls, crashes, ghosts, mixed, moved>>

-----------------------------------------------------------------------------
(* Jobs.                                                                    *)

\* resolveForEngine: the version a mention names, or the current one, is read into
\* the request.
Resolve(c, v) ==
    /\ "generate" \in Operations /\ v \in Versions
    /\ Begin(c, [Ask("generate", "accept") EXCEPT !.at = v, !.seen = look[v], !.refs = refs[v]])
    /\ UNCHANGED <<store, people, made, crashes, ghosts, mixed, moved>>

\* Deviation: the version is left for the completion of the job to freeze.
AcceptLoosely(c) ==
    LET k == call[c]
    IN  /\ At(c, "accept")
        /\ jobs' = Append(jobs, [version |-> k.at, look |-> k.seen, refs |-> k.refs])
        /\ overtaken' = IF look[k.at] # k.seen \/ refs[k.at] # k.refs
                            \/ \E d \in Callers : Reaches(d, k.at)
                        THEN overtaken \cup {Len(jobs) + 1} ELSE overtaken
        /\ End(c)
        /\ UNCHANGED <<store, people, identities, disk, calls, crashes, crowded, torn, refused,
                       mixed, moved>>

\* createJob's transaction: the row, and the versions it names frozen.  When the job
\* completes they are frozen once more.
Accept(c) ==
    LET k == call[c]
    IN  /\ At(c, "accept")
        /\ jobs' = Append(jobs, [version |-> k.at, look |-> k.seen, refs |-> k.refs])
        /\ frozen' = frozen \cup {k.at}
        /\ overtaken' = IF look[k.at] # k.seen \/ refs[k.at] # k.refs
                            \/ \E d \in Callers : Reaches(d, k.at)
                        THEN overtaken \cup {Len(jobs) + 1} ELSE overtaken
        /\ End(c)
        /\ UNCHANGED <<current, look, refs, people, identities, disk, calls, crashes,
                       crowded, torn, refused, mixed, moved>>

-----------------------------------------------------------------------------
(* Trainings: startTraining.                                                *)

AskTraining(c) ==
    /\ "train" \in Operations
    /\ Begin(c, Ask("train", "minor"))
    /\ moved' = moved \ {c}
    /\ UNCHANGED <<store, people, made, crashes, ghosts, mixed>>

\* Deviation: a Character with consent is not asked for its age.
AssertAfterConsent(c) ==
    /\ At(c, "minor")
    /\ IF Minor(current) /\ ~consent THEN End(c) ELSE Goto(c, "consent")
    /\ UNCHANGED <<store, people, made, calls, crashes, ghosts, mixed, moved>>

\* assertNotMinor looks at the version that is current now.
AssertNotMinor(c) ==
    /\ At(c, "minor")
    /\ IF Minor(current) THEN End(c) ELSE Goto(c, "consent")
    /\ UNCHANGED <<store, people, made, calls, crashes, ghosts, mixed, moved>>

AssertConsent(c) ==
    /\ At(c, "consent")
    /\ IF consent THEN Goto(c, "load") ELSE End(c)
    /\ UNCHANGED <<store, people, made, calls, crashes, ghosts, mixed, moved>>

\* Too few references refuse the training.
LoadSources(c) ==
    /\ At(c, "load")
    /\ IF refs[call[c].at] = {} THEN End(c) ELSE Goto(c, "submit")
    /\ UNCHANGED <<store, people, made, calls, crashes, ghosts, mixed, moved>>

\* The trainer finishes; or it refuses, fails or does not answer, or what it made can
\* not be fetched and saved, and the identity is recorded as failed.
Train(c, result) ==
    LET v == call[c].at
    IN  /\ At(c, "submit")
        /\ call' = [call EXCEPT ![c].pc = IF result = "ready" THEN "file" ELSE "select",
                                ![c].result = result]
        /\ torn' = IF \E d \in Callers \ {c} : Saving(d, v) THEN torn \cup {v} ELSE torn
        /\ UNCHANGED <<store, people, made, calls, crashes, overtaken, crowded, refused, mixed, moved>>

\* Deviation: a file that could not be saved is not noticed.
FileLost(c, result) ==
    /\ At(c, "file")
    /\ call' = [call EXCEPT ![c].pc = "select", ![c].result = result]
    /\ UNCHANGED <<store, people, made, calls, crashes, ghosts, mixed, moved>>

\* The artefact, and its manifest, which may fail.
WriteFile(c, result) ==
    /\ At(c, "file")
    /\ disk' = [disk EXCEPT ![call[c].at] = call[c].n]
    /\ call' = [call EXCEPT ![c].pc = "select", ![c].result = result]
    /\ UNCHANGED <<store, people, jobs, identities, calls, crashes, ghosts, mixed, moved>>

\* upsertIdentity: the row there is, if any, then its update or an insert.
SelectIdentity(c) ==
    LET known == {r \in identities : r.version = call[c].at}
    IN  /\ At(c, "select")
        /\ \E id \in IF known = {} THEN {0} ELSE {r.id : r \in known} :
              call' = [call EXCEPT ![c].pc = "row", ![c].id = id]
        /\ UNCHANGED <<store, people, made, calls, crashes, ghosts, mixed, moved>>

\* Deviation: a row for each training.
InsertIdentity(c) ==
    LET k == call[c]
    IN  /\ At(c, "row")
        /\ identities' = identities \cup
             {[id |-> k.n, version |-> k.at, status |-> k.result,
               file |-> IF k.result = "ready" THEN k.n ELSE 0]}
        /\ End(c)
        /\ UNCHANGED <<store, people, jobs, disk, calls, crashes, ghosts, mixed, moved>>

WriteIdentity(c) ==
    LET k == call[c]
        row == [id |-> IF k.id = 0 THEN k.n ELSE k.id, version |-> k.at, status |-> k.result,
                file |-> IF k.result = "ready" THEN k.n ELSE 0]
    IN  /\ At(c, "row")
        /\ identities' = {r \in identities : r.id # row.id} \cup {row}
        /\ End(c)
        /\ UNCHANGED <<store, people, jobs, disk, calls, crashes, ghosts, mixed, moved>>

\* The process dies: the requests are gone, the database and the disk stay.
Crash ==
    /\ crashes < MaxCrashes /\ crashes' = crashes + 1
    /\ call' = [c \in Callers |-> Idle]
    /\ torn' = torn \cup {call[c].at : c \in {d \in Callers :
                    Training(d) /\ call[d].pc \in {"select", "row"}}}
    /\ UNCHANGED <<store, people, made, calls, overtaken, crowded, refused, mixed, moved>>

-----------------------------------------------------------------------------
EditStep(c) ==
    Check(c) \/ Fork(c) \/ ReadLook(c) \/ WriteLook(c) \/ ClearAnchor(c) \/ Insert(c) \/ Remove(c)

TrainStep(c) ==
    \/ AssertNotMinor(c) \/ AssertConsent(c) \/ LoadSources(c)
    \/ \E result \in {"ready", "failed"} : Train(c, result) \/ WriteFile(c, result)
    \/ SelectIdentity(c) \/ WriteIdentity(c)

Next ==
    \/ \E c \in Callers :
          \/ \E op \in Edits : AskEdit(c, op)
          \/ AskTraining(c)
          \/ \E v \in Versions : Resolve(c, v)
          \/ EditStep(c) \/ Accept(c) \/ TrainStep(c)
    \/ \E v \in Versions : Switch(v)
    \/ SetConsent
    \/ Crash

Spec == Init /\ [][Next]_vars
-----------------------------------------------------------------------------
(* Properties.                                                              *)

\* The version a job names keeps, for ever, the words and references the job was
\* resolved with: later edits fork.  Excepted are the jobs whose version was edited
\* between their resolution and their acceptance, or had an edit under way past
\* ensureUnfrozenVersion's check when they were accepted.
LookIsKept ==
    \A k \in DOMAIN jobs : k \notin overtaken =>
        look[jobs[k].version] = jobs[k].look /\ refs[jobs[k].version] = jobs[k].refs

\* An anchor that is added replaces the ones there were: the anchors of a version are of
\* one request, through forks, replacements, removals and requests that died half way,
\* unless two requests attached anchors to it at once.
AnchorsReplaced ==
    \A v \in Versions \ crowded : \A r, s \in Anchors(refs[v]) : r.by = s.by

\* "The anchor is one slot, not a list": no version has two.
OneAnchor == \A v \in Versions : \A r, s \in Anchors(refs[v]) : r = s

\* However edits and jobs interleave, no edit fails as long as the owner never chose
\* a current version: the next version number is free whenever a fork needs it.
EditsAccepted == switched \/ refused = {}

\* An edit that met no other edit and no switch shows in the current version when it
\* ends, whatever jobs froze meanwhile.  A reference taken from a frozen version is
\* excepted: it stays in the version the removal forks.
Shows(k) ==
    CASE k.op = "describe" -> look'[current'][k.field] = k.n
      [] k.op = "remove"   -> k.forked \/ k.rows \cap refs'[current'] = {}
      [] OTHER             -> k.rows \subseteq refs'[current']
EditShows ==
    [][\A c \in Callers \ mixed :
          Editing(c) /\ ~Editing(c)' /\ refused' = refused /\ crashes' = crashes => Shows(call[c])]_vars

\* An identity that is ready is on disk: the file of its version is the one its row
\* describes, unless a training of the version is between its file and its row,
\* trainings of it met, or a crash cut one off there.
IdentityHasFile ==
    \A r \in identities :
        \/ r.status = "failed" \/ disk[r.version] = r.file
        \/ r.version \in torn \/ \E c \in Callers : Saving(c, r.version)

\* A version has one identity of a trainer, unless trainings of it met.
OneIdentity ==
    \A v \in Versions \ torn : Cardinality({r \in identities : r.version = v}) <= 1

\* What reaches the trainer is a version of somebody who consented and whose words do
\* not read as a minor, unless the consent, the current version or those words changed
\* since the training began.
TrainsOnlyWilling ==
    \A c \in Callers \ moved :
        Training(c) /\ call[c].pc \in {"submit", "file", "select", "row"} =>
            consent /\ ~Minor(call[c].at)
=============================================================================
