-------------------------------- MODULE Spend --------------------------------
(***************************************************************************)
(* The budget of packages/core/src/budget/enforcer.ts and everything that  *)
(* spends under it: the jobs of the engine, and the calls that pay a       *)
(* provider outside the queue (voice clone, design and preview, identity   *)
(* training, the analyze tool), which hold their price in the ledger while *)
(* the provider works.                                                     *)
(*                                                                         *)
(* The spend ledger and the job rows are in the database; a call lives in  *)
(* the process and is lost with it.  A transaction is one step, everything *)
(* else is one step per statement or provider request.  Jobs are those of  *)
(* JobEngine, reduced to what the caps see of them.                        *)
(***************************************************************************)
EXTENDS Integers, FiniteSetsExt

CONSTANTS
    Jobs,            \* rows of the jobs table
    Calls,           \* paid calls that do not go through the queue
    Kinds,           \* the kinds each call may be of
    Estimate,        \* estimate_usd of each job and call: what is reserved
    Quote,           \* authoritative_usd ?? estimate_usd: what is charged
    Caps,            \* the caps: daily, monthly, of a folder, of a provider
    DaysPerMonth,
    MaxDay,          \* bound: the last day
    MaxAsks,         \* bound: requests about a job after its creation
    MaxCrashes       \* bound: restarts

Ids == Jobs \cup Calls
AllKinds == {"clone", "design", "preview", "soul", "lora", "analyze"}

\* A cap: the days it looks back over, the spend it counts, and the requests it is
\* asked about.  The folder's name is a prefix of more names than its descendants'.
CapRecords == [window : {"day", "month"}, limit : Nat, counts : SUBSET Ids, asks : SUBSET Ids]

ASSUME SpendersAssumption ==
    /\ Jobs \cap Calls = {} /\ IsFiniteSet(Ids)
    /\ Kinds \in [Calls -> SUBSET AllKinds]
ASSUME PricesAssumption ==
    /\ Estimate \in [Ids -> Nat] /\ Quote \in [Ids -> Nat]
ASSUME CapsAssumption ==
    /\ Caps \subseteq CapRecords
    /\ \A k \in Caps : k.counts \subseteq k.asks
ASSUME BoundsAssumption ==
    /\ DaysPerMonth \in Nat \ {0}
    /\ MaxDay \in Nat /\ MaxAsks \in Nat /\ MaxCrashes \in Nat

VARIABLES
    today,
    ledger,          \* spend_ledger: the row of each job and call
    status,          \* jobs.status; queued, running and waiting are "open"
    drive,           \* the worker of the job: what it has done, what it will write
    ask,             \* the request about the job that is under way
    call,            \* the paid call: where it is, its kind, how the provider's part ended
    provider,        \* the provider's side of the call
    waived,          \* spent outside the caps: overridden, or never put to them
    asks, crashes

vars == <<today, ledger, status, drive, ask, call, provider, waived, asks, crashes>>
-----------------------------------------------------------------------------
\* A pending row is a hold, which counts like a charge.
Rows == [state : {"none", "pending", "final"}, amount : Nat, day : Nat]
NoRow == [state |-> "none", amount |-> 0, day |-> 0]

JobStatuses == {"none", "open", "failed", "settled"}
Drives == {"idle", "working", "failed", "settled"}
Asks == {"none", "retry", "check", "cancel", "cancelled"}

CallPcs == {"new", "prepare", "request", "answered", "ambiguous", "release", "record",
            "settle", "audit", "rescue", "end"}
\* How the provider's part ended, or what broke the call off.
Ends == {"none", "done", "refused", "reported", "timeout", "broken",
         "unprepared", "database", "crash"}
CallRecords == [pc : CallPcs, kind : AllKinds, end : Ends]
NewCall == [pc |-> "new", kind |-> "clone", end |-> "none"]

TypeOK ==
    /\ today \in 0 .. MaxDay
    /\ ledger \in [Ids -> Rows]
    /\ status \in [Jobs -> JobStatuses]
    /\ drive \in [Jobs -> Drives]
    /\ ask \in [Jobs -> Asks]
    /\ call \in [Calls -> CallRecords]
    /\ provider \in [Calls -> {"idle", "accepted", "billed"}]
    /\ waived \in [Ids -> BOOLEAN]
    /\ asks \in 0 .. MaxAsks /\ crashes \in 0 .. MaxCrashes

Init ==
    /\ today = 0
    /\ ledger = [i \in Ids |-> NoRow]
    /\ status = [j \in Jobs |-> "none"]
    /\ drive = [j \in Jobs |-> "idle"]
    /\ ask = [j \in Jobs |-> "none"]
    /\ call = [c \in Calls |-> NewCall]
    /\ provider = [c \in Calls |-> "idle"]
    /\ waived = [i \in Ids |-> FALSE]
    /\ asks = 0 /\ crashes = 0

-----------------------------------------------------------------------------
(* The caps.                                                                *)

InWindow(k, d) == IF k.window = "day" THEN d = today
                  ELSE d \div DaysPerMonth = today \div DaysPerMonth

Spent(k, i) ==
    IF ledger[i].state # "none" /\ InWindow(k, ledger[i].day) THEN ledger[i].amount ELSE 0
Reserved(i) == IF i \in Jobs /\ status[i] = "open" THEN Estimate[i] ELSE 0

\* ledgerTotal and openReservations of one scope.
Total(k) == SumFunctionOnSet([i \in Ids |-> Spent(k, i) + Reserved(i)], k.counts)

\* Deviation: open jobs are not counted.
TotalSpent(k) == SumFunctionOnSet([i \in Ids |-> Spent(k, i)], k.counts)

\* Deviation: the ledger alone is put against the caps.
AdmittedBySpend(i, price) == \A k \in Caps : i \in k.asks => TotalSpent(k) + price <= k.limit

\* reserveBudget: every cap the request falls under has room for it.
Admitted(i, price) == \A k \in Caps : i \in k.asks => Total(k) + price <= k.limit

-----------------------------------------------------------------------------
(* Jobs.                                                                    *)

Row(amount) == [state |-> "final", amount |-> amount, day |-> today]

\* createJob: the caps and the row in one transaction.  The owner may override.
Create(j) ==
    /\ status[j] = "none"
    /\ \E override \in BOOLEAN :
        /\ Admitted(j, Quote[j]) \/ override
        /\ waived' = [waived EXCEPT ![j] = ~Admitted(j, Quote[j])]
    /\ status' = [status EXCEPT ![j] = "open"]
    /\ UNCHANGED <<today, ledger, drive, ask, call, provider, asks, crashes>>

\* A request about the job reads its row first.
Ask(j) ==
    /\ ask[j] = "none" /\ asks < MaxAsks
    /\ \/ status[j] = "failed" /\ ask' \in {[ask EXCEPT ![j] = a] : a \in {"retry", "check"}}
       \/ status[j] = "open" /\ ask' = [ask EXCEPT ![j] = "cancel"]
    /\ asks' = asks + 1
    /\ UNCHANGED <<today, ledger, status, drive, call, provider, waived, crashes>>

\* retryJob passes the caps again, or is refused.
Retry(j) ==
    /\ ask[j] = "retry"
    /\ \/ /\ Admitted(j, Quote[j])
          /\ status' = [status EXCEPT ![j] = "open"]
          /\ waived' = [waived EXCEPT ![j] = FALSE]
       \/ /\ ~Admitted(j, Quote[j])
          /\ UNCHANGED <<status, waived>>
    /\ ask' = [ask EXCEPT ![j] = "none"]
    /\ UNCHANGED <<today, ledger, drive, call, provider, asks, crashes>>

\* checkJob opens the job again without asking the caps.
Check(j) ==
    /\ ask[j] = "check"
    /\ status' = [status EXCEPT ![j] = "open"]
    /\ waived' = [waived EXCEPT ![j] = TRUE]
    /\ ask' = [ask EXCEPT ![j] = "none"]
    /\ UNCHANGED <<today, ledger, drive, call, provider, asks, crashes>>

CancelWrite(j) ==
    /\ ask[j] = "cancel"
    /\ status' = [status EXCEPT ![j] = "settled"]
    /\ ask' = [ask EXCEPT ![j] = "cancelled"]
    /\ UNCHANGED <<today, ledger, drive, call, provider, waived, asks, crashes>>

CancelRecord(j) ==
    /\ ask[j] = "cancelled"
    /\ ledger' = [ledger EXCEPT ![j] = Row(0)]
    /\ ask' = [ask EXCEPT ![j] = "none"]
    /\ UNCHANGED <<today, status, drive, call, provider, waived, asks, crashes>>

Work(j) ==
    /\ status[j] = "open" /\ drive[j] = "idle"
    /\ drive' = [drive EXCEPT ![j] = "working"]
    /\ UNCHANGED <<today, ledger, status, ask, call, provider, waived, asks, crashes>>

\* The charge was reserved, and the job still counts as reserved.
Covered(j, amount) == status[j] = "open" /\ amount <= Quote[j] /\ amount <= Estimate[j]

\* #recordLedger, by #complete or #finishError: what the provider billed, which the
\* quote bounds only as far as the provider keeps to it, over the row of an earlier
\* attempt.
Record(j) ==
    /\ drive[j] = "working"
    /\ \E amount \in {0, Quote[j], Quote[j] + 1}, st \in {"failed", "settled"} :
        /\ ledger' = [ledger EXCEPT ![j] = Row(amount)]
        /\ drive' = [drive EXCEPT ![j] = st]
        /\ waived' = [waived EXCEPT ![j] = @ \/ ~(amount = 0 \/ Covered(j, amount))]
    /\ UNCHANGED <<today, status, ask, call, provider, asks, crashes>>

\* Deviation: the status is written before the charge is known.
FinishEarly(j) ==
    /\ drive[j] # "idle"
    /\ status' = [status EXCEPT ![j] = drive[j]]
    /\ drive' = [drive EXCEPT ![j] = "idle"]
    /\ UNCHANGED <<today, ledger, ask, call, provider, waived, asks, crashes>>

\* The status, whatever it says by now.
Finish(j) ==
    /\ drive[j] \in {"failed", "settled"}
    /\ status' = [status EXCEPT ![j] = drive[j]]
    /\ drive' = [drive EXCEPT ![j] = "idle"]
    /\ UNCHANGED <<today, ledger, ask, call, provider, waived, asks, crashes>>

-----------------------------------------------------------------------------
(* Calls outside the queue.                                                 *)

Is(c, p) == call[c].pc = p
Kind(c) == call[c].kind
To(c, p) == call' = [call EXCEPT ![c].pc = p]
Break(c, e) == call' = [call EXCEPT ![c].pc = "end", ![c].end = e]

\* What the kinds differ in: a step between the hold and the request that may
\* throw; a time limit told apart from other errors; something to store before
\* the settlement; a settlement that moves the row to the day it is made; and what
\* an error after the provider's answer leads to.
Prepares  == {"clone", "lora"}
Waits     == {"clone", "design", "soul", "lora"}
Stores    == {"clone", "design", "soul", "lora"}
Redates   == {"preview", "soul", "lora"}
Afterwards(kind) == CASE kind = "lora" -> "rescue" [] kind = "analyze" -> "release" [] OTHER -> "end"

\* holdSpend: the caps and a pending row in one transaction.
Hold(c) ==
    /\ Is(c, "new") /\ Admitted(c, Estimate[c])
    /\ \E kind \in Kinds[c] : call' = [call EXCEPT ![c].pc = "prepare", ![c].kind = kind]
    /\ ledger' = [ledger EXCEPT ![c] = [state |-> "pending", amount |-> Estimate[c], day |-> today]]
    /\ UNCHANGED <<today, status, drive, ask, provider, waived, asks, crashes>>

\* The sample is uploaded, the trigger word accepted.
Prepare(c) ==
    /\ Is(c, "prepare")
    /\ \/ To(c, "request")
       \/ Kind(c) \in Prepares /\ Break(c, "unprepared")
    /\ UNCHANGED <<today, ledger, status, drive, ask, provider, waived, asks, crashes>>

\* The provider takes the request, and bills it in its own time.
Accept(c) ==
    /\ Is(c, "request") /\ provider[c] = "idle"
    /\ provider' = [provider EXCEPT ![c] = "accepted"]
    /\ UNCHANGED <<today, ledger, status, drive, ask, call, waived, asks, crashes>>

Bill(c) ==
    /\ provider[c] = "accepted"
    /\ provider' = [provider EXCEPT ![c] = "billed"]
    /\ UNCHANGED <<today, ledger, status, drive, ask, call, waived, asks, crashes>>

\* A provider that has not billed may still refuse, or report a failure; it then
\* bills nothing.
Refuse(c) ==
    /\ Is(c, "request") /\ provider[c] # "billed"
    /\ provider' = [provider EXCEPT ![c] = "idle"]
    /\ call' = [call EXCEPT ![c].pc = "release",
                            ![c].end = IF provider[c] = "idle" THEN "refused" ELSE "reported"]
    /\ UNCHANGED <<today, ledger, status, drive, ask, waived, asks, crashes>>

\* Deviation: a time limit is an error like any other.
TimesOutFree(c) ==
    /\ Is(c, "request") /\ provider[c] # "idle" /\ Kind(c) \in Waits
    /\ call' = [call EXCEPT ![c].pc = "release", ![c].end = "timeout"]
    /\ UNCHANGED <<today, ledger, status, drive, ask, provider, waived, asks, crashes>>

\* The answer never arrives: the kinds that poll give up after a while.
TimesOut(c) ==
    /\ Is(c, "request") /\ provider[c] # "idle" /\ Kind(c) \in Waits
    /\ call' = [call EXCEPT ![c].pc = "ambiguous", ![c].end = "timeout"]
    /\ UNCHANGED <<today, ledger, status, drive, ask, provider, waived, asks, crashes>>

\* A request fails for another reason, whether or not the provider has the work.
Breaks(c) ==
    /\ Is(c, "request")
    /\ call' = [call EXCEPT ![c].pc = "release", ![c].end = "broken"]
    /\ UNCHANGED <<today, ledger, status, drive, ask, provider, waived, asks, crashes>>

Answers(c) ==
    /\ Is(c, "request") /\ provider[c] = "billed"
    /\ call' = [call EXCEPT ![c].pc = IF Kind(c) \in Stores THEN "record" ELSE "settle",
                            ![c].end = "done"]
    /\ UNCHANGED <<today, ledger, status, drive, ask, provider, waived, asks, crashes>>

\* recordClonedVoice, recordDesignedVoice, or the artefact and upsertIdentity.
Store(c) ==
    /\ Is(c, "record")
    /\ To(c, "settle")
    /\ UNCHANGED <<today, ledger, status, drive, ask, provider, waived, asks, crashes>>

\* releaseHold.
Release(c) ==
    /\ Is(c, "release")
    /\ ledger' = [ledger EXCEPT ![c] = NoRow]
    /\ To(c, "end")
    /\ UNCHANGED <<today, status, drive, ask, provider, waived, asks, crashes>>

\* settleHold.  The row keeps its day unless the caller names another.
Settled(c, redate) ==
    /\ ledger' = [ledger EXCEPT ![c] = [state |-> "final", amount |-> Quote[c],
                                        day |-> IF redate THEN today ELSE @.day]]
    /\ waived' = [waived EXCEPT ![c] = @ \/ Quote[c] > Estimate[c]
                                         \/ (redate /\ ledger[c].day # today)]

SettleAmbiguous(c) ==
    /\ Is(c, "ambiguous") \/ Is(c, "rescue")
    /\ Settled(c, FALSE)
    /\ To(c, "end")
    /\ UNCHANGED <<today, status, drive, ask, provider, asks, crashes>>

\* Deviation: the settlement is left to the audit.
SettleNothing(c) ==
    /\ Is(c, "settle")
    /\ To(c, "audit")
    /\ UNCHANGED <<today, ledger, status, drive, ask, provider, waived, asks, crashes>>

Settle(c) ==
    /\ Is(c, "settle")
    /\ Settled(c, Kind(c) \in Redates)
    /\ To(c, "audit")
    /\ UNCHANGED <<today, status, drive, ask, provider, asks, crashes>>

Audit(c) ==
    /\ Is(c, "audit")
    /\ To(c, "end")
    /\ UNCHANGED <<today, ledger, status, drive, ask, provider, waived, asks, crashes>>

\* A statement fails: the disk, or the database under it.  After the provider's
\* answer it depends on the kind who catches that.
Fails(c) ==
    /\ \/ /\ call[c].pc \in {"release", "ambiguous", "rescue"}
          /\ Break(c, "database")
       \/ /\ call[c].pc \in {"record", "settle", "audit"}
          /\ call' = [call EXCEPT ![c].pc = Afterwards(Kind(c)), ![c].end = "database"]
    /\ UNCHANGED <<today, ledger, status, drive, ask, provider, waived, asks, crashes>>

-----------------------------------------------------------------------------
\* Recovery drives the open jobs again; nothing remembers the calls.
Crash ==
    /\ crashes < MaxCrashes
    /\ crashes' = crashes + 1
    /\ drive' = [j \in Jobs |-> "idle"]
    /\ ask' = [j \in Jobs |-> "none"]
    /\ call' = [c \in Calls |-> IF call[c].pc \in {"new", "end"} THEN call[c]
                                ELSE [call[c] EXCEPT !.pc = "end", !.end = "crash"]]
    /\ UNCHANGED <<today, ledger, status, provider, waived, asks>>

Midnight ==
    /\ today < MaxDay
    /\ today' = today + 1
    /\ UNCHANGED <<ledger, status, drive, ask, call, provider, waived, asks, crashes>>

JobStep(j) == Create(j) \/ Ask(j) \/ Retry(j) \/ Check(j) \/ CancelWrite(j) \/ CancelRecord(j)
                 \/ Work(j) \/ Record(j) \/ Finish(j)

Reply(c) == Accept(c) \/ Bill(c) \/ Refuse(c) \/ TimesOut(c) \/ Breaks(c) \/ Answers(c)
CallStep(c) == Hold(c) \/ Prepare(c) \/ Reply(c) \/ Store(c) \/ Release(c)
                  \/ SettleAmbiguous(c) \/ Settle(c) \/ Audit(c) \/ Fails(c)

Next ==
    \/ \E j \in Jobs : JobStep(j)
    \/ \E c \in Calls : CallStep(c)
    \/ Crash \/ Midnight

Spec == Init /\ [][Next]_vars
-----------------------------------------------------------------------------
(* Properties.                                                              *)

\* What a job or a call is committed to under a cap: while a job is open, what the
\* caps admitted it for.
Committed(k, i) ==
    IF Reserved(i) > 0 THEN (IF Quote[i] < Estimate[i] THEN Quote[i] ELSE Estimate[i])
    ELSE Spent(k, i)

\* However jobs and calls interleave, the spend that went through the caps fits
\* them on every day: the only money beyond a cap is what the owner overrode, what a
\* provider charged above its estimate, what a check reopened, what was billed after a
\* cancel, and what a settlement moved into a later day.
CapsHold ==
    \A k \in Caps :
        SumFunctionOnSet([i \in Ids |-> Committed(k, i)], {i \in k.counts : ~waived[i]}) <= k.limit

\* A call the provider billed is in the ledger, at the price it was held or
\* settled for, unless a request broke without an answer, or a statement failed after
\* one (the analyze tool releases its hold then).
BilledIsCounted ==
    \A c \in Calls : provider[c] = "billed" =>
        \/ ledger[c].state = "pending" \/ (ledger[c].state = "final" /\ ledger[c].amount = Quote[c])
        \/ call[c].end = "broken"
        \/ call[c].end = "database" /\ Kind(c) = "analyze"

\* A hold that nobody will settle is left only by a crash, by a statement that
\* failed, or by a call that threw between its hold and its request: every other end of
\* a call settles or releases it, so the caps are not eaten up by calls that are over.
NoForgottenHold ==
    \A c \in Calls : ledger[c].state = "pending" /\ Is(c, "end") =>
        call[c].end \in {"crash", "database", "unprepared"}
=============================================================================
