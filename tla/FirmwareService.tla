-------------------------- MODULE FirmwareService --------------------------
(***************************************************************************)
(* The firmware version checker                                            *)
(* (backend/app/tools/firmware_upgrade/service.py): a scheduler and a pool *)
(* like those of the backup service, with one row of facts per device and  *)
(* no history.  A check records that it runs, asks the device for its      *)
(* version with no session open, and records what it found; upgrades,      *)
(* requests, deletions and restarts happen in between.                     *)
(*                                                                         *)
(* Hours, row ids and budgets are as in BackupService.  A device's version *)
(* is the number of times it was upgraded.  "Variant" marks a faulty       *)
(* version of the operation below it, used to test the properties.         *)
(***************************************************************************)
EXTENDS Naturals, Sequences, FiniteSets

CONSTANTS
    MaxDevice,      \* bound: largest id of the table devices
    Worker,         \* threads of the pool (firmware_workers)
    CheckEvery,     \* firmware_check_minutes
    Retry,          \* failure_retry_minutes
    MaxAge,         \* bound: ages stop growing here
    Budget,         \* bound: how often each rare event may happen
    NoRow           \* the absence of a row

BudgetType == [create : Nat, delete : Nat, edit : Nat, upgrade : Nat, restart : Nat, dbError : Nat]

ASSUME FirmwareAssumption ==
    /\ MaxDevice \in Nat /\ MaxAge \in Nat
    /\ CheckEvery \in 1..MaxAge /\ Retry \in 1..MaxAge
    /\ Budget \in BudgetType
    /\ IsFiniteSet(Worker)

DeviceId == 1..MaxDevice

\* What a device answers: who it is (the model's own name for it, whatever its
\* id) and its version.  NoFacts: not known.
Answer == [born : Nat, version : Nat]
NoFacts == [born |-> 0, version |-> 0]

DeviceRow == [enabled : BOOLEAN, born : Nat, version : Nat]
FactsRow == [status : {"never", "running", "success", "failed"}, age : 0..MaxAge,
             facts : Answer, previous : Nat]
Job == [pc : {"idle", "start", "ask", "record", "release"}, dev : 0..MaxDevice, born : Nat,
        ok : BOOLEAN, facts : Answer]
IdleJob == [pc |-> "idle", dev |-> 0, born |-> 0, ok |-> FALSE, facts |-> NoFacts]

ASSUME FirmwareRowAssumption == NoRow \notin DeviceRow \cup FactsRow

VARIABLES
    device,     \* table devices, with the version each device really runs
    facts,      \* table fw_device_facts
    mode,       \* the server process: "down", "up" or "stopping"
    inFlight,   \* FirmwareService._in_flight
    queue,      \* work queue of the thread pool
    job,        \* what each thread is doing
    due,        \* the rest of the due list of the current tick
    budget

tables == <<device, facts>>
vars == <<device, facts, mode, inFlight, queue, job, due, budget>>

TypeOK ==
    /\ device \in [DeviceId -> DeviceRow \cup {NoRow}]
    /\ facts \in [DeviceId -> FactsRow \cup {NoRow}]
    /\ mode \in {"down", "up", "stopping"}
    /\ inFlight \subseteq DeviceId
    /\ queue \in Seq(DeviceId)
    /\ job \in [Worker -> Job]
    /\ due \subseteq DeviceId
    /\ budget \in BudgetType

Init ==
    /\ device = [d \in DeviceId |-> NoRow] /\ facts = [d \in DeviceId |-> NoRow]
    /\ mode = "down"
    /\ inFlight = {} /\ queue = <<>> /\ due = {}
    /\ job = [w \in Worker |-> IdleJob]
    /\ budget = Budget

Rows(table) == {id \in DOMAIN table : table[id] # NoRow}
Spend(what) == budget[what] > 0 /\ budget' = [budget EXCEPT ![what] = @ - 1]
IsNextId(id) == (\A d \in Rows(device) : d < id) /\ (id = 1 \/ id - 1 \in Rows(device))

-----------------------------------------------------------------------------
(* Scheduling                                                              *)

\* Variant: a row whose status was left out.
NewFactsNoStatus == [status |-> "", age |-> MaxAge, facts |-> NoFacts, previous |-> 0]

NewFacts == [status |-> "never", age |-> MaxAge, facts |-> NoFacts, previous |-> 0]

\* ensure_facts: every device has a row afterwards.
EnsureFacts ==
    [d \in DeviceId |-> IF device[d] # NoRow /\ facts[d] = NoRow THEN NewFacts ELSE facts[d]]

Interval(row) == IF row.status = "failed" /\ Retry < CheckEvery THEN Retry ELSE CheckEvery

DueDevices(rows) ==
    {d \in Rows(device) : /\ device[d].enabled /\ rows[d].status # "running"
                          /\ rows[d].age >= Interval(rows[d])}

\* Variant: no membership test.
SubmitUnchecked(d) == inFlight' = inFlight \cup {d} /\ queue' = Append(queue, d)

Submit(d) ==
    IF d \in inFlight THEN UNCHANGED <<inFlight, queue>>
    ELSE inFlight' = inFlight \cup {d} /\ queue' = Append(queue, d)

\* Variant: a restart forgets nothing and repairs nothing.
RecoverNothing == UNCHANGED facts

RecoverInterrupted ==
    facts' = [d \in DeviceId |-> IF facts[d] # NoRow /\ facts[d].status = "running"
                                 THEN [facts[d] EXCEPT !.status = "failed"] ELSE facts[d]]

Start ==
    /\ mode = "down" /\ mode' = "up" /\ RecoverInterrupted
    /\ UNCHANGED <<device, inFlight, queue, job, due, budget>>

\* stop(): queued checks are cancelled, running ones left to finish.
Stop ==
    /\ mode = "up" /\ mode' = "stopping" /\ Spend("restart")
    /\ queue' = <<>>
    /\ UNCHANGED <<tables, inFlight, job, due>>

ProcessEnds ==
    /\ mode' = "down" /\ inFlight' = {} /\ queue' = <<>> /\ due' = {}
    /\ job' = [w \in Worker |-> IdleJob]
    /\ UNCHANGED tables

\* The interpreter joins the threads of the pool before it exits.
Exit ==
    /\ mode = "stopping" /\ \A w \in Worker : job[w].pc = "idle"
    /\ ProcessEnds /\ UNCHANGED budget

Crash == mode # "down" /\ Spend("restart") /\ ProcessEnds

\* A tick reads its whole due list first.  A database error here ends the
\* tick and changes nothing.
ReadDue ==
    /\ mode = "up" /\ due = {}
    /\ facts' = EnsureFacts /\ due' = DueDevices(EnsureFacts)
    /\ UNCHANGED <<device, mode, inFlight, queue, job, budget>>

SubmitDue ==
    /\ mode = "up"
    /\ \E d \in due : Submit(d) /\ due' = due \ {d}
    /\ UNCHANGED <<tables, mode, job, budget>>

\* After the shutdown the pool refuses work, but the device stays reserved.
SubmitRefused ==
    /\ mode = "stopping"
    /\ \E d \in due :
          \/ d \in inFlight /\ due' = due \ {d} /\ UNCHANGED inFlight
          \/ d \notin inFlight /\ due' = {} /\ inFlight' = inFlight \cup {d}
    /\ UNCHANGED <<tables, mode, queue, job, budget>>

-----------------------------------------------------------------------------
(* check(), by a thread of the pool                                        *)

At(w, pc) == job[w].pc = pc
Go(w, pc) == job' = [job EXCEPT ![w].pc = pc]

TakeJob(w) ==
    /\ mode = "up" /\ queue # <<>> /\ At(w, "idle")
    /\ job' = [job EXCEPT ![w] = [IdleJob EXCEPT !.pc = "start", !.dev = Head(queue)]]
    /\ queue' = Tail(queue)
    /\ UNCHANGED <<tables, mode, inFlight, due, budget>>

\* Phase 1: the attempt.  The device may be gone by now.
RecordAttempt(w) ==
    LET d == job[w].dev IN
    /\ At(w, "start")
    /\ \/ device[d] = NoRow /\ Go(w, "release") /\ UNCHANGED facts
       \/ /\ device[d] # NoRow
          /\ job' = [job EXCEPT ![w].pc = "ask", ![w].born = device[d].born]
          /\ facts' = [EnsureFacts EXCEPT ![d].status = "running", ![d].age = 0]
    /\ UNCHANGED <<device, mode, inFlight, queue, due, budget>>

\* Phase 2: the device named in phase 1 is asked over SSH.  It fails, or
\* answers with its version (one that is gone by now may have had any).
Ask(w) ==
    LET d == job[w].dev IN
    /\ At(w, "ask")
    /\ \/ Go(w, "record")
       \/ \E v \in 1..(Budget["upgrade"] + 1) :
             /\ device[d] # NoRow /\ device[d].born = job[w].born => v = device[d].version
             /\ job' = [job EXCEPT ![w].pc = "record", ![w].ok = TRUE,
                                   ![w].facts = [born |-> job[w].born, version |-> v]]
    /\ UNCHANGED <<tables, mode, inFlight, queue, due, budget>>

\* Variant: a failed check leaves an empty row.
RecordAndForget(w) ==
    LET d == job[w].dev IN
    /\ At(w, "record") /\ Go(w, "release")
    /\ facts' = IF facts[d] = NoRow THEN facts
                ELSE [facts EXCEPT ![d].status = IF job[w].ok THEN "success" ELSE "failed",
                                   ![d].facts = job[w].facts]
    /\ UNCHANGED <<device, mode, inFlight, queue, due, budget>>

\* Variant: the previous version is overwritten by every check.
RecordPreviousAlways(w) ==
    LET d == job[w].dev IN
    /\ At(w, "record") /\ Go(w, "release")
    /\ facts' = IF facts[d] = NoRow THEN facts
                ELSE IF ~job[w].ok THEN [facts EXCEPT ![d].status = "failed"]
                ELSE [facts EXCEPT ![d].status = "success", ![d].facts = job[w].facts,
                                   ![d].previous = facts[d].facts.version]
    /\ UNCHANGED <<device, mode, inFlight, queue, due, budget>>

\* Phase 3: the outcome, if the row is still there.  A failure keeps the facts;
\* a new version keeps the one before.
RecordOutcome(w) ==
    LET d == job[w].dev
        old == facts[d].facts.version
        upgraded == old # 0 /\ old # job[w].facts.version IN
    /\ At(w, "record") /\ Go(w, "release")
    /\ facts' = IF facts[d] = NoRow THEN facts
                ELSE IF ~job[w].ok THEN [facts EXCEPT ![d].status = "failed"]
                ELSE [facts EXCEPT ![d].status = "success", ![d].facts = job[w].facts,
                                   ![d].previous = IF upgraded THEN old ELSE @]
    /\ UNCHANGED <<device, mode, inFlight, queue, due, budget>>

\* A transaction of check() fails and is rolled back; the exception is logged.
DbError(w) ==
    /\ job[w].pc \in {"start", "record"} /\ Spend("dbError")
    /\ Go(w, "release")
    /\ UNCHANGED <<tables, mode, inFlight, queue, due>>

Release(w) ==
    /\ At(w, "release")
    /\ job' = [job EXCEPT ![w] = IdleJob]
    /\ inFlight' = inFlight \ {job[w].dev}
    /\ UNCHANGED <<tables, mode, queue, due, budget>>

-----------------------------------------------------------------------------
(* Requests, and the world outside                                         *)

CreateDevice ==
    /\ mode = "up" /\ Spend("create")
    /\ \E d \in DeviceId, e \in BOOLEAN :
          /\ IsNextId(d)
          /\ device' = [device EXCEPT
                           ![d] = [enabled |-> e, born |-> budget["create"], version |-> 1]]
    /\ UNCHANGED <<facts, mode, inFlight, queue, job, due>>

UpdateDevice(d) ==
    /\ mode = "up" /\ device[d] # NoRow /\ Spend("edit")
    /\ device' = [device EXCEPT ![d].enabled = ~@]
    /\ UNCHANGED <<facts, mode, inFlight, queue, job, due>>

\* The foreign key takes the facts along.
DeleteDevice(d) ==
    /\ mode = "up" /\ device[d] # NoRow /\ Spend("delete")
    /\ device' = [device EXCEPT ![d] = NoRow] /\ facts' = [facts EXCEPT ![d] = NoRow]
    /\ UNCHANGED <<mode, inFlight, queue, job, due>>

\* _rows, for the report, its summary and the monitoring sensor.
ReadReport ==
    /\ mode = "up" /\ facts' = EnsureFacts
    /\ UNCHANGED <<device, mode, inFlight, queue, job, due, budget>>

\* check_now, for any device there is, and check_all, for each enabled one.
CheckNow(d) ==
    /\ mode = "up" /\ device[d] # NoRow /\ Submit(d)
    /\ UNCHANGED <<tables, mode, job, due, budget>>

\* Somebody upgrades the device itself.
Upgrade(d) ==
    /\ device[d] # NoRow /\ Spend("upgrade")
    /\ device' = [device EXCEPT ![d].version = @ + 1]
    /\ UNCHANGED <<facts, mode, inFlight, queue, job, due>>

TimePasses ==
    /\ facts' = [d \in DeviceId |-> IF facts[d] = NoRow \/ facts[d].age = MaxAge THEN facts[d]
                                    ELSE [facts[d] EXCEPT !.age = @ + 1]]
    /\ UNCHANGED <<device, mode, inFlight, queue, job, due, budget>>

Next ==
    \/ Start \/ Stop \/ Exit \/ Crash
    \/ ReadDue \/ SubmitDue \/ SubmitRefused
    \/ \E w \in Worker : TakeJob(w) \/ RecordAttempt(w) \/ Ask(w) \/ RecordOutcome(w)
                         \/ DbError(w) \/ Release(w)
    \/ CreateDevice \/ ReadReport \/ TimePasses
    \/ \E d \in DeviceId : UpdateDevice(d) \/ DeleteDevice(d) \/ CheckNow(d) \/ Upgrade(d)

Spec == Init /\ [][Next]_vars

-----------------------------------------------------------------------------
(* Properties                                                              *)

Queued == {queue[i] : i \in DOMAIN queue}
InHand == {job[w].dev : w \in {v \in Worker : ~At(v, "idle")}}

Gate == INSTANCE JobGate WITH
    Device <- DeviceId,
    Threads <- Cardinality(Worker),
    active <- [d \in DeviceId |-> IF d \in Queued THEN "queued"
                                 ELSE IF d \in InHand THEN "running" ELSE "free"]

\* The checker keeps the same gate as the backup service (service.py:91-111):
\* a device is queued only when free, and checked only after being queued.
ImplementsGate == Gate!Spec

\* A device shown as being checked is being checked, or due_device_ids would
\* pass it over for ever (service.py:83).  Crashes, restarts and deleted devices
\* do not break this; only a failing phase 3 does.
RunningIsOwned ==
    (mode = "up" /\ budget.dbError = Budget.dbError) =>
        \A d \in Rows(facts) : facts[d].status = "running" =>
            \E w \in Worker : job[w].pc \in {"ask", "record"} /\ job[w].dev = d

Known(d) == facts[d] # NoRow /\ facts[d].facts.version # 0

\* "A failed check keeps the last known version" (docs/firmware.md:34), and so
\* does a restart: a known version is never lost while the device is there.
\* Nor does a check record an older version over a newer one of the same
\* device, however long it took: no two of them overlap (service.py:93-96).
NeverGoesBack ==
    [][\A d \in DeviceId : Known(d) =>
          \/ facts'[d] = NoRow
          \/ /\ Known(d)'
             /\ facts'[d].facts.born = facts[d].facts.born =>
                    facts[d].facts.version <= facts'[d].facts.version]_vars

\* "When a device's version changes, the previous version and the time it
\* changed are kept" (docs/firmware.md:35): later checks and failures do not
\* lose it, and it is always older than the version shown.  A device that was
\* given the id of a deleted one while that was checked may break this.
PreviousIsOlder ==
    budget.delete = Budget.delete => \A d \in Rows(facts) :
        facts[d].previous # 0 => facts[d].previous < facts[d].facts.version

=============================================================================
