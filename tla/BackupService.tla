--------------------------- MODULE BackupService ---------------------------
(***************************************************************************)
(* The config-backup scheduler and its workers                             *)
(* (backend/app/tools/config_backup/service.py), the database rows they    *)
(* share with the inventory and backup APIs, and the command-line backup   *)
(* that runs the same code in a process of its own.                        *)
(*                                                                         *)
(* A backup is three database-visible steps: record the attempt, fetch and *)
(* archive the configuration with no session open, record the outcome.     *)
(* Everything else may happen in between.                                  *)
(*                                                                         *)
(* Time is counted in hours and kept as the age of each row, so a clock    *)
(* that runs for ever has finitely many values.  Row ids are the rowids of *)
(* SQLite: one more than the largest in the table, so that the id of a     *)
(* deleted last row is given out again.                                    *)
(*                                                                         *)
(* A definition that comes just before one of the code's operations and    *)
(* says how it differs from it is a faulty variant: no action uses it, it  *)
(* is there to show that the properties would notice.                      *)
(***************************************************************************)
EXTENDS Naturals, Sequences, FiniteSets

CONSTANTS
    MaxDevice,      \* bound: largest id of the table devices
    MaxRun,         \* bound: largest id of the table backup_runs
    Worker,         \* threads of the pool (backup_workers)
    Shell,          \* processes running "netops backup <name>"
    Freq,           \* values of frequency_minutes an administrator sets
    DefaultFreq,    \* default_frequency_minutes
    Retry,          \* failure_retry_minutes
    Retention,      \* history_retention_days
    StaleAfter,     \* the 48 hours after which the sensor misses a good backup
    MaxWait,        \* bound: the time since an attempt stops growing here
    NewEnabled,     \* bound: values of enabled that a device is created with
    Budget,         \* bound: how often each rare event may happen
    NoRow           \* the absence of a row

ASSUME SizeAssumption ==
    MaxDevice \in Nat /\ MaxRun \in Nat /\ MaxWait \in Nat /\ NewEnabled \subseteq BOOLEAN

ASSUME ProcessAssumption == Worker \cap Shell = {} /\ IsFiniteSet(Worker)

ASSUME TimeAssumption ==
    /\ Freq \subseteq 1..MaxWait /\ DefaultFreq \in Freq
    /\ Retry \in 1..MaxWait /\ StaleAfter \in Nat
    /\ Retention \in Nat \ {0, 1}

ASSUME BudgetAssumption ==
    Budget \in [create : Nat, delete : Nat, edit : Nat, restart : Nat,
                dbError : Nat, shell : Nat, kill : Nat]

DeviceId == 1..MaxDevice
RunId == 1..MaxRun
Runner == Worker \cup Shell
Status == {"never", "running", "success", "failed"}

DeviceRow == [enabled : BOOLEAN]

\* "age" is the time since last_attempt, MaxWait when there was none, which
\* due_device_ids treats alike: due whatever the interval.  "good" is the time
\* since last_success, likewise.  Each age stops growing where nothing that is
\* compared with it is larger.  What a backup stored (config_path,
\* last_commit) is the business of ConfigArchive.
StateRow == [freq : Freq, enabled : BOOLEAN, status : Status,
             age : 0..MaxWait, good : 0..StaleAfter]

RunRow == [dev : DeviceId, status : Status, age : 0..Retention]

\* A thread inside run(): what it is about to do and the values it snapshot.
Pc == {"idle", "start", "fetch", "record", "release"}
Job == [pc : Pc, dev : 0..MaxDevice, run : 0..MaxRun, ok : BOOLEAN]
IdleJob == [pc |-> "idle", dev |-> 0, run |-> 0, ok |-> FALSE]

ASSUME NoRowAssumption == NoRow \notin DeviceRow \cup StateRow \cup RunRow

VARIABLES
    device,     \* table devices
    state,      \* table backup_state
    run,        \* table backup_runs
    mode,       \* the server process: "down", "up" or "stopping"
    inFlight,   \* BackupService._in_flight
    queue,      \* work queue of the thread pool
    job,        \* what each runner is doing
    sched,      \* the scheduler thread: where it is and its due list
    pruned,     \* _last_prune lies within the last hour
    budget      \* what is left of Budget

tables == <<device, state, run>>
memory == <<inFlight, queue, sched, pruned>>
vars == <<device, state, run, mode, inFlight, queue, job, sched, pruned, budget>>

Rows(table) == {id \in DOMAIN table : table[id] # NoRow}
Spend(what) == budget[what] > 0 /\ budget' = [budget EXCEPT ![what] = @ - 1]

\* SQLite's choice for INTEGER PRIMARY KEY without AUTOINCREMENT.
IsNextId(id, used) ==
    /\ \A u \in used : u < id
    /\ id = 1 \/ id - 1 \in used

TypeOK ==
    /\ device \in [DeviceId -> DeviceRow \cup {NoRow}]
    /\ state \in [DeviceId -> StateRow \cup {NoRow}]
    /\ run \in [RunId -> RunRow \cup {NoRow}]
    /\ mode \in {"down", "up", "stopping"}
    /\ inFlight \subseteq DeviceId
    /\ queue \in Seq(DeviceId)
    /\ job \in [Runner -> Job]
    /\ sched \in [pc : {"wait", "submit"}, due : SUBSET DeviceId]
    /\ pruned \in BOOLEAN
    /\ budget \in [create : Nat, delete : Nat, edit : Nat, restart : Nat,
                   dbError : Nat, shell : Nat, kill : Nat]

Waiting == [pc |-> "wait", due |-> {}]

\* A fresh installation, before the service is started for the first time.
Init ==
    /\ device = [d \in DeviceId |-> NoRow]
    /\ state = [d \in DeviceId |-> NoRow]
    /\ run = [r \in RunId |-> NoRow]
    /\ mode = "down"
    /\ inFlight = {} /\ queue = <<>>
    /\ job = [r \in Runner |-> IdleJob]
    /\ sched = Waiting /\ pruned = FALSE
    /\ budget = Budget

-----------------------------------------------------------------------------
(* Helpers of the service                                                  *)

\* A state row whose frequency was left out.
NewStateNoFrequency ==
    [freq |-> 0, enabled |-> TRUE, status |-> "never", age |-> MaxWait, good |-> StaleAfter]

NewState ==
    [freq |-> DefaultFreq, enabled |-> TRUE, status |-> "never",
     age |-> MaxWait, good |-> StaleAfter]

\* ensure_states: every device has a state row afterwards.
EnsureStates ==
    [d \in DeviceId |-> IF device[d] # NoRow /\ state[d] = NoRow THEN NewState ELSE state[d]]

\* How long to wait after the last attempt.
Interval(s) == IF s.status = "failed" /\ Retry < s.freq THEN Retry ELSE s.freq

\* A due list that waits for an administrator after a failure.
DueUnlessFailed(states) ==
    {d \in Rows(device) :
        /\ states[d] # NoRow
        /\ device[d].enabled /\ states[d].enabled
        /\ states[d].status \notin {"running", "failed"}
        /\ states[d].age >= Interval(states[d])}

\* The two enabled flags, the status test and the interval of due_device_ids.
DueDevices(states) ==
    {d \in Rows(device) :
        /\ states[d] # NoRow
        /\ device[d].enabled /\ states[d].enabled
        /\ states[d].status # "running"
        /\ states[d].age >= Interval(states[d])}

\* An hour later.
NextAge(age, bound) == IF age < bound THEN age + 1 ELSE age
Older(row) == [row EXCEPT !.age = NextAge(@, Retention)]
OlderState(row) == [row EXCEPT !.age = NextAge(@, MaxWait), !.good = NextAge(@, StaleAfter)]

\* submit without its membership test, as it would run without the lock.
SubmitUnchecked(d) ==
    /\ inFlight' = inFlight \cup {d}
    /\ queue' = Append(queue, d)

\* submit: refuse a device that is queued or running, else reserve and queue it.
Submit(d) ==
    IF d \in inFlight
    THEN UNCHANGED <<inFlight, queue>>
    ELSE /\ inFlight' = inFlight \cup {d}
         /\ queue' = Append(queue, d)

-----------------------------------------------------------------------------
(* The server process                                                      *)

Interrupt(row) == IF row # NoRow /\ row.status = "running"
                  THEN [row EXCEPT !.status = "failed"] ELSE row

\* Recovery that repairs the device rows and forgets the history.
RecoverStatesOnly ==
    /\ state' = [d \in DeviceId |-> Interrupt(state[d])]
    /\ UNCHANGED run

\* Recovery without its two WHERE clauses: every row is marked failed.
RecoverEverything ==
    /\ state' = [d \in DeviceId |-> IF state[d] = NoRow THEN NoRow
                                   ELSE [state[d] EXCEPT !.status = "failed"]]
    /\ run' = [r \in RunId |-> IF run[r] = NoRow THEN NoRow
                              ELSE [run[r] EXCEPT !.status = "failed"]]

\* recover_interrupted: every row still "running" is marked failed.
RecoverInterrupted ==
    /\ state' = [d \in DeviceId |-> Interrupt(state[d])]
    /\ run' = [r \in RunId |-> Interrupt(run[r])]

\* A new process: recovery, then the scheduler, then requests.
Start ==
    /\ mode = "down" /\ mode' = "up"
    /\ RecoverInterrupted
    /\ UNCHANGED <<device, memory, job, budget>>

\* stop(): the scheduler is told to end, queued work is cancelled and
\* running work left to finish.  Cancelled devices stay in _in_flight.
Stop ==
    /\ mode = "up" /\ mode' = "stopping"
    /\ Spend("restart")
    /\ queue' = <<>>
    /\ UNCHANGED <<tables, inFlight, job, sched, pruned>>

\* The memory of the process is gone; shells are other processes.
ProcessEnds ==
    /\ mode' = "down"
    /\ inFlight' = {} /\ queue' = <<>> /\ sched' = Waiting /\ pruned' = FALSE
    /\ job' = [r \in Runner |-> IF r \in Worker THEN IdleJob ELSE job[r]]
    /\ UNCHANGED tables

\* The interpreter joins the pool's threads before it exits.
Exit ==
    /\ mode = "stopping"
    /\ \A w \in Worker : job[w].pc = "idle"
    /\ ProcessEnds
    /\ UNCHANGED budget

Crash ==
    /\ mode \in {"up", "stopping"}
    /\ Spend("restart")
    /\ ProcessEnds

-----------------------------------------------------------------------------
(* The scheduler thread: tick                                              *)

\* due_device_ids: the whole list is read before the first submit.
ReadDue ==
    /\ mode = "up" /\ sched.pc = "wait"
    /\ state' = EnsureStates
    /\ sched' = [pc |-> "submit", due |-> DueDevices(EnsureStates)]
    /\ UNCHANGED <<device, run, mode, inFlight, queue, job, pruned, budget>>

SubmitDue ==
    /\ mode = "up" /\ sched.pc = "submit"
    /\ \E d \in sched.due :
          /\ Submit(d)
          /\ sched' = [sched EXCEPT !.due = @ \ {d}]
    /\ UNCHANGED <<tables, mode, job, pruned, budget>>

\* The pool was shut down under the tick: a device is still reserved, then
\* the pool refuses the work and the exception ends the thread's last tick.
SubmitRefused ==
    /\ mode = "stopping" /\ sched.pc = "submit"
    /\ \E d \in sched.due :
          \/ d \in inFlight /\ sched' = [sched EXCEPT !.due = @ \ {d}] /\ UNCHANGED inFlight
          \/ d \notin inFlight /\ inFlight' = inFlight \cup {d} /\ sched' = Waiting
    /\ UNCHANGED <<tables, mode, queue, job, pruned, budget>>

\* _prune_history, at most once an hour; the tick ends.
Prune ==
    /\ mode = "up" /\ sched = [pc |-> "submit", due |-> {}]
    /\ sched' = Waiting /\ pruned' = TRUE
    /\ run' = [r \in RunId |-> IF ~pruned /\ run[r] # NoRow /\ run[r].age >= Retention
                               THEN NoRow ELSE run[r]]
    /\ UNCHANGED <<device, state, mode, inFlight, queue, job, budget>>

\* A database error in the due list or in pruning ends the tick.
TickFails ==
    /\ mode = "up" /\ Spend("dbError")
    /\ \/ sched.pc = "wait" /\ UNCHANGED <<sched, pruned>>
       \/ sched = [pc |-> "submit", due |-> {}] /\ sched' = Waiting /\ pruned' = TRUE
    /\ UNCHANGED <<tables, mode, inFlight, queue, job>>

-----------------------------------------------------------------------------
(* run(), by a thread of the pool or by a shell                            *)

\* Bound: nobody starts before the bounded history has room for another run.
HistoryHasRoom ==
    \E id \in RunId :
        /\ IsNextId(id, Rows(run))
        /\ id + Cardinality({r \in Runner : job[r].pc = "start"}) <= MaxRun

\* A thread of the pool takes the oldest work item.
TakeJob(w) ==
    /\ mode = "up" /\ queue # <<>>
    /\ HistoryHasRoom
    /\ job[w].pc = "idle"
    /\ job' = [job EXCEPT ![w] = [IdleJob EXCEPT !.pc = "start", !.dev = Head(queue)]]
    /\ queue' = Tail(queue)
    /\ UNCHANGED <<tables, mode, inFlight, sched, pruned, budget>>

\* "netops backup <name>": no scheduler, and an _in_flight of its own.
ShellStart(c) ==
    /\ job[c].pc = "idle" /\ HistoryHasRoom /\ Spend("shell")
    /\ \E d \in Rows(device) :
          job' = [job EXCEPT ![c] = [IdleJob EXCEPT !.pc = "start", !.dev = d]]
    /\ UNCHANGED <<tables, mode, memory>>

\* Phase 1: the run row, last_attempt and the status, in one transaction.
RecordAttempt(r) ==
    LET d == job[r].dev IN
    /\ job[r].pc = "start"
    /\ \/ /\ device[d] = NoRow
          /\ job' = [job EXCEPT ![r].pc = "release"]
          /\ UNCHANGED <<state, run>>
       \/ /\ device[d] # NoRow
          /\ \E id \in RunId :
                /\ IsNextId(id, Rows(run))
                /\ run' = [run EXCEPT ![id] = [dev |-> d, status |-> "running", age |-> 0]]
                /\ job' = [job EXCEPT ![r].pc = "fetch", ![r].run = id]
          /\ state' = [EnsureStates EXCEPT ![d].status = "running", ![d].age = 0]
    /\ UNCHANGED <<device, mode, memory, budget>>

\* Phase 2: SSH, cleaning and the archive, which may fail at any point.  A
\* device without a usable credential fails here too.
Fetch(r) ==
    /\ job[r].pc = "fetch"
    /\ \E ok \in BOOLEAN : job' = [job EXCEPT ![r].pc = "record", ![r].ok = ok]
    /\ UNCHANGED <<tables, mode, memory, budget>>

Outcome(r) == IF job[r].ok THEN "success" ELSE "failed"

\* What phase 3 writes into the device's row.
Concluded(row, ok) ==
    IF ok THEN [row EXCEPT !.status = "success", !.good = 0]
          ELSE [row EXCEPT !.status = "failed"]

\* Phase 3 that leaves the device row alone when the backup failed.
RecordOutcomeOfSuccess(r) ==
    LET id == job[r].run  d == job[r].dev IN
    /\ job[r].pc = "record"
    /\ job' = [job EXCEPT ![r].pc = "release"]
    /\ run' = [run EXCEPT ![id] = IF @ = NoRow THEN @ ELSE [@ EXCEPT !.status = Outcome(r)]]
    /\ state' = [state EXCEPT ![d] =
                    IF @ = NoRow \/ ~job[r].ok THEN @ ELSE Concluded(@, TRUE)]
    /\ UNCHANGED <<device, mode, memory, budget>>

\* Phase 3: both rows are looked up again by id and written, or neither.
RecordOutcome(r) ==
    LET id == job[r].run  d == job[r].dev
        found == run[id] # NoRow /\ state[d] # NoRow IN
    /\ job[r].pc = "record"
    /\ job' = [job EXCEPT ![r].pc = "release"]
    /\ run' = IF found THEN [run EXCEPT ![id].status = Outcome(r)] ELSE run
    /\ state' = IF found THEN [state EXCEPT ![d] = Concluded(@, job[r].ok)] ELSE state
    /\ UNCHANGED <<device, mode, memory, budget>>

\* A transaction of run() fails: it is rolled back and the exception ends
\* the run, caught by _run_and_release in the server.
DbError(r) ==
    /\ job[r].pc \in {"start", "record"}
    /\ Spend("dbError")
    /\ job' = [job EXCEPT ![r].pc = "release"]
    /\ UNCHANGED <<tables, mode, memory>>

\* A release that only a backup which reached the device gets to.
ReleaseOnSuccess(r) ==
    /\ job[r].pc = "release"
    /\ job' = [job EXCEPT ![r] = IdleJob]
    /\ inFlight' = IF r \in Worker /\ job[r].ok THEN inFlight \ {job[r].dev} ELSE inFlight
    /\ UNCHANGED <<tables, mode, queue, sched, pruned, budget>>

\* The finally clause of _run_and_release; a shell just ends.
Release(r) ==
    /\ job[r].pc = "release"
    /\ job' = [job EXCEPT ![r] = IdleJob]
    /\ inFlight' = IF r \in Worker THEN inFlight \ {job[r].dev} ELSE inFlight
    /\ UNCHANGED <<tables, mode, queue, sched, pruned, budget>>

ShellKilled(c) ==
    /\ job[c].pc # "idle"
    /\ Spend("kill")
    /\ job' = [job EXCEPT ![c] = IdleJob]
    /\ UNCHANGED <<tables, mode, memory>>

-----------------------------------------------------------------------------
(* Requests                                                                *)

CreateDevice ==
    /\ mode = "up" /\ Spend("create")
    /\ \E d \in DeviceId, e \in NewEnabled :
          /\ IsNextId(d, Rows(device))
          /\ device' = [device EXCEPT ![d] = [enabled |-> e]]
    /\ UNCHANGED <<state, run, mode, memory, job>>

\* update_device, reduced to the field the scheduler reads.
UpdateDevice(d) ==
    /\ mode = "up" /\ device[d] # NoRow /\ Spend("edit")
    /\ \E e \in BOOLEAN : device' = [device EXCEPT ![d].enabled = e]
    /\ UNCHANGED <<state, run, mode, memory, job>>

\* delete_device: the foreign keys take the state and the history along.
DeleteDevice(d) ==
    /\ mode = "up" /\ device[d] # NoRow /\ Spend("delete")
    /\ device' = [device EXCEPT ![d] = NoRow]
    /\ state' = [state EXCEPT ![d] = NoRow]
    /\ run' = [r \in RunId |-> IF run[r] # NoRow /\ run[r].dev = d THEN NoRow ELSE run[r]]
    /\ UNCHANGED <<mode, memory, job>>

UpdateSettings(d) ==
    /\ mode = "up" /\ device[d] # NoRow /\ Spend("edit")
    /\ \E f \in Freq, e \in BOOLEAN :
          state' = [EnsureStates EXCEPT ![d].freq = f, ![d].enabled = e]
    /\ UNCHANGED <<device, run, mode, memory, job>>

\* Lists, summary and the monitoring sensor create missing state rows.
ReadStates ==
    /\ mode = "up"
    /\ state' = EnsureStates
    /\ UNCHANGED <<device, run, mode, memory, job, budget>>

RunNow(d) ==
    /\ mode = "up" /\ device[d] # NoRow
    /\ state' = EnsureStates
    /\ Submit(d)
    /\ UNCHANGED <<device, run, mode, job, sched, pruned, budget>>

\* An hour passes.  A backup is bounded by the SSH timeouts (minutes), the
\* history is kept for days: no run in progress grows older than Retention.
TimePasses ==
    /\ \A r \in Runner :
          (job[r].pc \in {"fetch", "record"} /\ run[job[r].run] # NoRow) =>
              run[job[r].run].age + 1 < Retention
    /\ state' = [d \in DeviceId |-> IF state[d] = NoRow THEN NoRow ELSE OlderState(state[d])]
    /\ run' = [r \in RunId |-> IF run[r] = NoRow THEN NoRow ELSE Older(run[r])]
    /\ pruned' = FALSE
    /\ UNCHANGED <<device, mode, inFlight, queue, job, sched, budget>>

-----------------------------------------------------------------------------
(* The monitoring sensor                                                   *)

\* A sensor that takes a backup in progress for a good one.
StaleUnlessRunning(row) == row.status # "running" /\ row.good >= StaleAfter

Failing(row) == row.status = "failed"
Never(row) == row.status = "never"
Stale(row) == row.good >= StaleAfter

\* One of the sensor's three backup channels counts the device.
Counted(d) ==
    LET row == EnsureStates[d] IN
    /\ device[d] # NoRow
    /\ device[d].enabled /\ row.enabled
    /\ Failing(row) \/ Never(row) \/ Stale(row)

-----------------------------------------------------------------------------
Server == Start \/ Stop \/ Exit \/ Crash
Scheduler == ReadDue \/ SubmitDue \/ SubmitRefused \/ Prune \/ TickFails
Run(r) == RecordAttempt(r) \/ Fetch(r) \/ RecordOutcome(r) \/ DbError(r) \/ Release(r)
Request ==
    \/ CreateDevice \/ ReadStates
    \/ \E d \in DeviceId : UpdateDevice(d) \/ DeleteDevice(d) \/ UpdateSettings(d) \/ RunNow(d)

Next ==
    \/ Server \/ Scheduler \/ Request \/ TimePasses
    \/ \E w \in Worker : TakeJob(w)
    \/ \E c \in Shell : ShellStart(c) \/ ShellKilled(c)
    \/ \E r \in Runner : Run(r)

Spec == Init /\ [][Next]_vars

\* systemd restarts the service and waits for its pools; the scheduler's wait,
\* a thread and the SSH timeouts all end; clocks advance.  Nobody has to send
\* a request, and nothing has to fail.
Fairness ==
    /\ WF_vars(Start) /\ WF_vars(Exit)
    /\ WF_vars(ReadDue) /\ WF_vars(SubmitDue) /\ WF_vars(Prune)
    /\ WF_vars(\E w \in Worker : TakeJob(w))
    /\ \A r \in Runner : WF_vars(RecordAttempt(r)) /\ WF_vars(Fetch(r))
                         /\ WF_vars(RecordOutcome(r)) /\ WF_vars(Release(r))
    /\ WF_vars(TimePasses)

FairSpec == Spec /\ Fairness

-----------------------------------------------------------------------------
(* Properties                                                              *)

Queued == {queue[i] : i \in DOMAIN queue}
Busy == {w \in Worker : job[w].pc # "idle"}
InHand == {job[w].dev : w \in Busy}

\* No device is queued or worked on twice by the server: no two queue entries,
\* no two threads, no entry and a thread share a device, and _in_flight holds
\* exactly those devices, so that is_busy tells the truth (service.py:110-128).
GateExact ==
    /\ \A i, j \in DOMAIN queue : queue[i] = queue[j] => i = j
    /\ \A v, w \in Busy : job[v].dev = job[w].dev => v = w
    /\ Queued \cap InHand = {}
    /\ Queued \cup InHand \subseteq inFlight
    /\ mode = "up" => inFlight \subseteq Queued \cup InHand

Recording(r) == job[r].pc \in {"fetch", "record"}

\* No transaction of a backup or a tick has failed, and no shell was killed.
Undisturbed == budget.dbError = Budget.dbError /\ budget.kill = Budget.kill

\* While the server is up, a device or a run shown as running is being backed
\* up by somebody: otherwise due_device_ids would skip the device for ever
\* (service.py:90).  Stops, crashes and recovery do not break this; a failing
\* phase 3 and a killed shell do.
RunningIsOwned ==
    (mode = "up" /\ Undisturbed) =>
        /\ \A d \in Rows(state) : state[d].status = "running" =>
              \E r \in Runner : Recording(r) /\ job[r].dev = d
        /\ \A id \in Rows(run) : run[id].status = "running" =>
              \E r \in Runner : Recording(r) /\ job[r].run = id

\* The gate this service keeps, seen from its queue and its threads.
Gate == INSTANCE JobGate WITH
    Device <- DeviceId,
    Threads <- Cardinality(Worker),
    active <- [d \in DeviceId |-> IF d \in Queued THEN "queued"
                                 ELSE IF d \in InHand THEN "running" ELSE "free"]

\* The queue and the threads implement JobGate: a device is queued only when
\* free and run only after being queued (service.py:108-128).
ImplementsGate == Gate!Spec

\* Nothing but the server has backed up a device, and no device was deleted.  A
\* shell is not bound by the server's gate, and its run is called interrupted
\* when the server starts; under the id of a deleted device, or of a run that
\* went with it, a late thread finds rows that are not its own (service.py:196).
Alone == budget.shell = Budget.shell /\ budget.delete = Budget.delete

\* While the server is alone, the status shown for a device is that of its
\* newest run, through crashes, recovery, failing transactions, pruning and ids
\* given out again after it (service.py:130-137, 203-204, 220-224).
LatestRunShown ==
    Alone => \A id \in Rows(run) :
        (\A other \in Rows(run) : run[other].dev = run[id].dev => other <= id)
            => state[run[id].dev].status = run[id].status

\* While the server is alone, a concluded run keeps its outcome until it is
\* pruned: neither a thread that a stop left to finish nor the recovery of a
\* later start rewrites it (service.py:196-203, 220-222).
FinishedRunsStay ==
    [][Alone' => \A id \in Rows(run) :
          (run[id].status # "running" /\ run'[id] # NoRow) =>
              run'[id].status = run[id].status]_vars

\* Past its retry or frequency, whatever the status shown, while enabled.
Overdue(d) ==
    /\ device[d] # NoRow /\ device[d].enabled
    /\ \/ state[d] = NoRow
       \/ state[d] # NoRow /\ state[d].enabled /\ state[d].age >= Interval(state[d])

\* "Failed devices are retried hourly (configurable) rather than waiting for
\* the next scheduled run" (README.md:39), and healthy ones at their frequency:
\* an overdue device is eventually attempted, disabled or deleted.
OverdueIsAttempted == \A d \in DeviceId : Overdue(d) ~> ~Overdue(d)

\* The part of it that the code keeps (service.py:85-100): an overdue device
\* is attempted, through crashes, restarts and devices that replace one
\* another, as long as no transaction fails and no shell is killed.
OverdueIsAttemptedIfUndisturbed ==
    \A d \in DeviceId : Overdue(d) ~> (~Overdue(d) \/ ~Undisturbed)

\* What happens to the devices that are never attempted again: an overdue device
\* is attempted, disabled or deleted, or the sensor counts it, also when a
\* transaction fails or a shell is killed (monitoring.py:51-57, which tests
\* last_success whatever the status shown).
OverdueIsNoticed == \A d \in DeviceId : Overdue(d) ~> (~Overdue(d) \/ Counted(d))

\* A device that was accepted ("Backup queued") is eventually free for another
\* backup, by release or by a restart (api.py:111-119, service.py:126-128).
GateOpens == \A d \in DeviceId : d \in inFlight ~> d \notin inFlight

=============================================================================
