------------------------ MODULE BackupServiceProofs ------------------------
(***************************************************************************)
(* BackupService for any number of devices, runs, threads and shells: its  *)
(* types, the exactness of its gate, that it implements JobGate, that what *)
(* is shown as running has an owner, and, for a server that works alone,   *)
(* that a device shows its newest run and a concluded run keeps its        *)
(* outcome.                                                                *)
(***************************************************************************)
EXTENDS BackupService, FiniteSetTheorems, TLAPS

Elements(q) == {q[i] : i \in DOMAIN q}

\* What appending to a sequence without repetitions does.
LEMMA AppendElements ==
    ASSUME NEW S, NEW q \in Seq(S), NEW e \in S
    PROVE  /\ Append(q, e) \in Seq(S)
           /\ Elements(Append(q, e)) = Elements(q) \cup {e}
           /\ (/\ e \notin Elements(q)
               /\ \A i, j \in DOMAIN q : q[i] = q[j] => i = j)
              => \A i, j \in DOMAIN Append(q, e) :
                    Append(q, e)[i] = Append(q, e)[j] => i = j
<1> DEFINE a == Append(q, e)
<1>1. /\ a \in Seq(S) /\ Len(a) = Len(q) + 1 /\ DOMAIN a = 1..(Len(q) + 1)
      /\ Len(q) \in Nat /\ DOMAIN q = 1..Len(q)
      /\ a[Len(q) + 1] = e
      /\ \A i \in 1..Len(q) : a[i] = q[i]
  OBVIOUS
<1> HIDE DEF a
<1>2. Elements(a) = Elements(q) \cup {e}
  <2>1. \A i \in DOMAIN a : i \in DOMAIN q \/ i = Len(q) + 1
    BY <1>1
  <2>2. Elements(a) \subseteq Elements(q) \cup {e}
    BY <1>1, <2>1 DEF Elements
  <2>3. Elements(q) \subseteq Elements(a)
    BY <1>1 DEF Elements
  <2>4. e \in Elements(a)
    BY <1>1 DEF Elements
  <2> QED
    BY <2>2, <2>3, <2>4
<1>3. ASSUME e \notin Elements(q), \A i, j \in DOMAIN q : q[i] = q[j] => i = j,
             NEW i \in DOMAIN a, NEW j \in DOMAIN a, a[i] = a[j]
      PROVE  i = j
  <2>1. \A k \in DOMAIN q : q[k] # e
    BY <1>3 DEF Elements
  <2>2. /\ i \in DOMAIN q \/ i = Len(q) + 1
        /\ j \in DOMAIN q \/ j = Len(q) + 1
    BY <1>1
  <2> QED
    BY <1>1, <1>3, <2>1, <2>2
<1> QED
  BY <1>1, <1>2, <1>3 DEF a

\* What taking the head of a sequence without repetitions does.
LEMMA TailElements ==
    ASSUME NEW S, NEW q \in Seq(S), q # <<>>
    PROVE  /\ Head(q) \in S /\ Tail(q) \in Seq(S)
           /\ Elements(q) = Elements(Tail(q)) \cup {Head(q)}
           /\ (\A i, j \in DOMAIN q : q[i] = q[j] => i = j)
              => /\ Head(q) \notin Elements(Tail(q))
                 /\ \A i, j \in DOMAIN Tail(q) : Tail(q)[i] = Tail(q)[j] => i = j
<1> DEFINE t == Tail(q)
<1>1. /\ t \in Seq(S) /\ Len(q) \in Nat \ {0} /\ DOMAIN q = 1..Len(q)
      /\ DOMAIN t = 1..(Len(q) - 1)
      /\ \A i \in DOMAIN t : t[i] = q[i + 1]
      /\ Head(q) = q[1] /\ Head(q) \in S
  OBVIOUS
<1> HIDE DEF t
<1>2. \A i \in DOMAIN t : i + 1 \in DOMAIN q /\ i + 1 # 1
  BY <1>1
<1>3. \A i \in DOMAIN q : i = 1 \/ (i - 1 \in DOMAIN t /\ t[i - 1] = q[i])
  BY <1>1
<1>4. Elements(q) = Elements(t) \cup {Head(q)}
  <2>1. Elements(q) \subseteq Elements(t) \cup {Head(q)}
    BY <1>1, <1>3 DEF Elements
  <2>2. Elements(t) \subseteq Elements(q)
    BY <1>1, <1>2 DEF Elements
  <2>3. Head(q) \in Elements(q)
    BY <1>1 DEF Elements
  <2> QED
    BY <2>1, <2>2, <2>3
<1>5. ASSUME \A i, j \in DOMAIN q : q[i] = q[j] => i = j
      PROVE  Head(q) \notin Elements(t)
  BY <1>1, <1>2, <1>5 DEF Elements
<1>6. ASSUME \A i, j \in DOMAIN q : q[i] = q[j] => i = j,
             NEW i \in DOMAIN t, NEW j \in DOMAIN t, t[i] = t[j]
      PROVE  i = j
  <2>1. i + 1 = j + 1
    BY <1>1, <1>2, <1>6
  <2> QED
    BY <1>1, <2>1
<1> QED
  BY <1>1, <1>4, <1>5, <1>6 DEF t

-----------------------------------------------------------------------------
(* Type correctness                                                        *)

\* A busy runner holds the id of a device, a recording one that of a run.
JobSound ==
    \A r \in Runner :
        /\ job[r].pc # "idle" => job[r].dev \in DeviceId
        /\ Recording(r) => job[r].run \in RunId

TypeInv == TypeOK /\ JobSound

LEMMA RowTypes ==
    /\ NewState \in StateRow /\ IdleJob \in Job
    /\ \A row \in StateRow : OlderState(row) \in StateRow /\ Interrupt(row) \in StateRow
    /\ \A row \in RunRow : Older(row) \in RunRow /\ Interrupt(row) \in RunRow
    /\ Interrupt(NoRow) = NoRow
    /\ NoRow \notin StateRow /\ NoRow \notin RunRow /\ NoRow \notin DeviceRow
<1>1. NewState \in StateRow /\ IdleJob \in Job
  BY SizeAssumption, TimeAssumption DEF NewState, StateRow, Status, IdleJob, Job, Pc
<1>2. NoRow \notin StateRow /\ NoRow \notin RunRow /\ NoRow \notin DeviceRow
  BY NoRowAssumption
<1>3. \A row \in StateRow : OlderState(row) \in StateRow /\ Interrupt(row) \in StateRow
  <2>1. /\ \A a \in 0..MaxWait : NextAge(a, MaxWait) \in 0..MaxWait
        /\ \A a \in 0..StaleAfter : NextAge(a, StaleAfter) \in 0..StaleAfter
    BY SizeAssumption, TimeAssumption DEF NextAge
  <2>2. \A row \in StateRow : OlderState(row) \in StateRow
    BY <2>1 DEF StateRow, OlderState
  <2>3. \A row \in StateRow : Interrupt(row) \in StateRow
    BY DEF StateRow, Interrupt, Status
  <2> QED
    BY <2>2, <2>3
<1>4. \A row \in RunRow : Older(row) \in RunRow /\ Interrupt(row) \in RunRow
  BY TimeAssumption DEF RunRow, Older, NextAge, Interrupt, Status
<1>5. Interrupt(NoRow) = NoRow
  BY DEF Interrupt
<1> QED
  BY <1>1, <1>2, <1>3, <1>4, <1>5

LEMMA EnsureStatesType ==
    ASSUME TypeOK
    PROVE  /\ EnsureStates \in [DeviceId -> StateRow \cup {NoRow}]
           /\ \A d \in DeviceId : device[d] # NoRow => EnsureStates[d] \in StateRow
BY RowTypes DEF TypeOK, EnsureStates

LEMMA SubmitType ==
    ASSUME TypeOK, NEW d \in DeviceId, Submit(d)
    PROVE  inFlight' \subseteq DeviceId /\ queue' \in Seq(DeviceId)
<1>1. Append(queue, d) \in Seq(DeviceId)
  BY DEF TypeOK
<1>2. inFlight' \in {inFlight, inFlight \cup {d}} /\ queue' \in {queue, Append(queue, d)}
  BY DEF Submit
<1> QED
  BY <1>1, <1>2 DEF TypeOK

LEMMA SpendType ==
    ASSUME TypeOK, NEW what \in {"create", "delete", "edit", "restart", "dbError",
                              "shell", "kill"},
           Spend(what)
    PROVE  budget' \in [create : Nat, delete : Nat, edit : Nat, restart : Nat,
                        dbError : Nat, shell : Nat, kill : Nat]
BY DEF TypeOK, Spend

LEMMA TypeInit == Init => TypeInv
<1> SUFFICES ASSUME Init PROVE TypeInv
  OBVIOUS
<1>1. IdleJob \in Job /\ IdleJob.pc = "idle"
  BY RowTypes DEF IdleJob
<1>2. TypeOK
  <2>1. <<>> \in Seq(DeviceId)
    OBVIOUS
  <2>2. Waiting \in [pc : {"wait", "submit"}, due : SUBSET DeviceId]
    BY DEF Waiting
  <2> QED
    BY <1>1, <2>1, <2>2, BudgetAssumption DEF Init, TypeOK
<1>3. JobSound
  BY <1>1 DEF Init, JobSound, Recording, IdleJob
<1> QED
  BY <1>2, <1>3 DEF TypeInv

LEMMA ProcessEndsType ==
    ASSUME TypeInv, ProcessEnds
    PROVE  /\ inFlight' \subseteq DeviceId /\ queue' \in Seq(DeviceId)
           /\ job' \in [Runner -> Job] /\ JobSound'
           /\ sched' \in [pc : {"wait", "submit"}, due : SUBSET DeviceId]
           /\ pruned' = FALSE /\ mode' = "down" /\ UNCHANGED <<device, state, run>>
<1>1. IdleJob \in Job /\ IdleJob.pc = "idle"
  BY RowTypes DEF IdleJob
<1>2. job' \in [Runner -> Job] /\ JobSound'
  BY <1>1 DEF ProcessEnds, TypeInv, TypeOK, JobSound, Recording
<1>3. <<>> \in Seq(DeviceId)
  OBVIOUS
<1> QED
  BY <1>2, <1>3 DEF ProcessEnds, Waiting, tables

LEMMA ServerType ==
    ASSUME TypeInv, Server
    PROVE  TypeInv'
<1> USE DEF TypeInv
<1>1. CASE Start
  <2>1. /\ state' \in [DeviceId -> StateRow \cup {NoRow}]
        /\ run' \in [RunId -> RunRow \cup {NoRow}]
    BY <1>1, RowTypes DEF Start, RecoverInterrupted, TypeOK
  <2> QED
    BY <1>1, <2>1 DEF Start, TypeOK, memory, JobSound, Recording
<1>2. CASE Stop
  BY <1>2, SpendType DEF Stop, TypeOK, tables, JobSound, Recording
<1>3. CASE Exit
  <2>1. ProcessEnds /\ UNCHANGED budget
    BY <1>3 DEF Exit
  <2> QED
    BY <2>1, ProcessEndsType DEF TypeOK
<1>4. CASE Crash
  <2>1. ProcessEnds /\ Spend("restart")
    BY <1>4 DEF Crash
  <2> QED
    BY <2>1, ProcessEndsType, SpendType DEF TypeOK
<1> QED
  BY <1>1, <1>2, <1>3, <1>4 DEF Server

LEMMA SchedulerType ==
    ASSUME TypeInv, Scheduler
    PROVE  TypeInv'
<1> USE DEF TypeInv
<1>1. CASE ReadDue
  <2>1. DueDevices(EnsureStates) \subseteq DeviceId
    BY DEF DueDevices, Rows, TypeOK
  <2> QED
    BY <1>1, <2>1, EnsureStatesType DEF ReadDue, TypeOK, JobSound, Recording
<1>2. CASE SubmitDue
  BY <1>2, SubmitType DEF SubmitDue, TypeOK, tables, JobSound, Recording
<1>3. CASE SubmitRefused
  BY <1>3 DEF SubmitRefused, TypeOK, tables, JobSound, Recording, Waiting
<1>4. CASE Prune
  <2>1. run' \in [RunId -> RunRow \cup {NoRow}]
    BY <1>4 DEF Prune, TypeOK
  <2>2. sched' = [pc |-> "wait", due |-> {}] /\ pruned' = TRUE
        /\ UNCHANGED <<device, state, mode, inFlight, queue, job, budget>>
    BY <1>4 DEF Prune, Waiting
  <2> QED
    BY <2>1, <2>2 DEF TypeOK, JobSound, Recording
<1>5. CASE TickFails
  <2>1. sched' \in [pc : {"wait", "submit"}, due : SUBSET DeviceId] /\ pruned' \in BOOLEAN
    <3>1. CASE UNCHANGED <<sched, pruned>>
      BY <3>1 DEF TypeOK
    <3>2. CASE sched' = Waiting /\ pruned' = TRUE
      BY <3>2 DEF Waiting
    <3> QED
      BY <1>5, <3>1, <3>2 DEF TickFails
  <2>2. Spend("dbError") /\ UNCHANGED <<device, state, run, mode, inFlight, queue, job>>
    BY <1>5 DEF TickFails, tables
  <2> QED
    BY <2>1, <2>2, SpendType DEF TypeOK, JobSound, Recording
<1> QED
  BY <1>1, <1>2, <1>3, <1>4, <1>5 DEF Scheduler

LEMMA RunType ==
    ASSUME TypeInv, NEW r \in Runner, Run(r)
    PROVE  TypeInv'
<1> DEFINE d == job[r].dev
<1> USE DEF TypeInv
<1>0. job[r] \in Job /\ IdleJob \in Job /\ IdleJob.pc = "idle"
  BY RowTypes DEF TypeOK, IdleJob
<1>1. CASE RecordAttempt(r)
  <2>1. d \in DeviceId
    BY <1>1 DEF RecordAttempt, JobSound
  <2>2. CASE device[d] = NoRow /\ job' = [job EXCEPT ![r].pc = "release"]
             /\ UNCHANGED <<state, run>>
    BY <1>0, <1>1, <2>2 DEF RecordAttempt, TypeOK, JobSound, Recording, Job, Pc, memory
  <2>3. ASSUME device[d] # NoRow, NEW id \in RunId,
               run' = [run EXCEPT ![id] = [dev |-> d, status |-> "running", age |-> 0]],
               job' = [job EXCEPT ![r].pc = "fetch", ![r].run = id],
               state' = [EnsureStates EXCEPT ![d].status = "running", ![d].age = 0]
        PROVE  TypeInv'
    <3>1. /\ device[d] \in DeviceRow /\ EnsureStates[d] \in StateRow
          /\ EnsureStates \in [DeviceId -> StateRow \cup {NoRow}]
      BY <2>1, <2>3, EnsureStatesType DEF TypeOK
    <3>2. state' \in [DeviceId -> StateRow \cup {NoRow}]
      BY <2>1, <2>3, <3>1, SizeAssumption, TimeAssumption DEF StateRow, Status
    <3>3. run' \in [RunId -> RunRow \cup {NoRow}]
      BY <2>1, <2>3, TimeAssumption DEF TypeOK, RunRow, Status
    <3>4. job' \in [Runner -> Job] /\ JobSound'
      <4>1. id \in 0..MaxRun
        BY SizeAssumption DEF RunId
      <4>2. [job[r] EXCEPT !.pc = "fetch", !.run = id] \in Job
        BY <1>0, <4>1 DEF Job, Pc
      <4>3. job' = [job EXCEPT ![r] = [job[r] EXCEPT !.pc = "fetch", !.run = id]]
        BY <2>3 DEF TypeOK
      <4>4. job' \in [Runner -> Job]
        BY <4>2, <4>3 DEF TypeOK
      <4>5. /\ job'[r].dev = d /\ job'[r].run = id
            /\ \A q \in Runner : q # r => job'[q] = job[q]
        BY <1>0, <4>3 DEF TypeOK, Job
      <4> QED
        BY <2>1, <4>4, <4>5 DEF JobSound, Recording
    <3> QED
      BY <1>1, <3>2, <3>3, <3>4 DEF RecordAttempt, TypeOK, memory
  <2> QED
    BY <1>1, <2>2, <2>3 DEF RecordAttempt
<1>2. CASE Fetch(r)
  <2>1. job' \in [Runner -> Job] /\ JobSound'
    <3>1. PICK ok \in BOOLEAN :
              job' = [job EXCEPT ![r] = [job[r] EXCEPT !.pc = "record", !.ok = ok]]
      BY <1>2 DEF Fetch, TypeOK
    <3>2. [job[r] EXCEPT !.pc = "record", !.ok = ok] \in Job
      BY <1>0, <3>1 DEF Job, Pc
    <3>3. job' \in [Runner -> Job]
      BY <3>1, <3>2 DEF TypeOK
    <3>4. /\ job'[r].dev = d /\ job'[r].run = job[r].run
          /\ \A q \in Runner : q # r => job'[q] = job[q]
      BY <1>0, <3>1 DEF TypeOK, Job
    <3>5. job[r].pc = "fetch"
      BY <1>2 DEF Fetch
    <3> QED
      BY <3>3, <3>4, <3>5 DEF JobSound, Recording
  <2> QED
    BY <1>2, <2>1 DEF Fetch, TypeOK, tables, memory
<1>3. CASE RecordOutcome(r)
  <2> DEFINE id == job[r].run
  <2>1. d \in DeviceId /\ id \in RunId /\ Outcome(r) \in Status
    BY <1>3 DEF RecordOutcome, JobSound, Recording, Outcome, Status
  <2>2. job' \in [Runner -> Job] /\ JobSound'
    BY <1>0, <1>3 DEF RecordOutcome, TypeOK, JobSound, Recording, Job, Pc
  <2>3. CASE run[id] # NoRow /\ state[d] # NoRow
    <3>1. run[id] \in RunRow /\ state[d] \in StateRow
      BY <2>1, <2>3 DEF TypeOK
    <3>2. run' \in [RunId -> RunRow \cup {NoRow}]
      BY <1>3, <2>1, <2>3, <3>1 DEF RecordOutcome, TypeOK, RunRow
    <3>3. state' \in [DeviceId -> StateRow \cup {NoRow}]
      <4>1. 0 \in 0..StaleAfter
        BY TimeAssumption
      <4>2. /\ [state[d] EXCEPT !.status = "success", !.good = 0] \in StateRow
            /\ [state[d] EXCEPT !.status = "failed"] \in StateRow
        BY <3>1, <4>1 DEF StateRow, Status
      <4>3. Concluded(state[d], job[r].ok) \in StateRow
        BY <4>2 DEF Concluded
      <4> QED
        BY <1>3, <2>1, <2>3, <4>3 DEF RecordOutcome, TypeOK
    <3> QED
      BY <1>3, <2>2, <3>2, <3>3 DEF RecordOutcome, TypeOK, memory
  <2>4. CASE ~(run[id] # NoRow /\ state[d] # NoRow)
    BY <1>3, <2>2, <2>4 DEF RecordOutcome, TypeOK, memory
  <2> QED
    BY <2>3, <2>4
<1>4. CASE DbError(r)
  BY <1>0, <1>4, SpendType DEF DbError, TypeOK, JobSound, Recording, Job, Pc, tables, memory
<1>5. CASE Release(r)
  BY <1>0, <1>5 DEF Release, TypeOK, JobSound, Recording, tables
<1> QED
  BY <1>1, <1>2, <1>3, <1>4, <1>5 DEF Run

LEMMA RequestType ==
    ASSUME TypeInv, Request
    PROVE  TypeInv'
<1> USE DEF TypeInv
<1>1. CASE CreateDevice
  <2>1. device' \in [DeviceId -> DeviceRow \cup {NoRow}]
    BY <1>1, SizeAssumption DEF CreateDevice, TypeOK, DeviceRow
  <2> QED
    BY <1>1, <2>1, SpendType DEF CreateDevice, TypeOK, JobSound, Recording, memory
<1>2. CASE ReadStates
  BY <1>2, EnsureStatesType DEF ReadStates, TypeOK, JobSound, Recording, memory
<1>3. ASSUME NEW d \in DeviceId, UpdateDevice(d) PROVE TypeInv'
  <2>1. device' \in [DeviceId -> DeviceRow \cup {NoRow}]
    BY <1>3 DEF UpdateDevice, TypeOK, DeviceRow
  <2> QED
    BY <1>3, <2>1, SpendType DEF UpdateDevice, TypeOK, JobSound, Recording, memory
<1>4. ASSUME NEW d \in DeviceId, DeleteDevice(d) PROVE TypeInv'
  BY <1>4, SpendType DEF DeleteDevice, TypeOK, JobSound, Recording, memory
<1>5. ASSUME NEW d \in DeviceId, UpdateSettings(d) PROVE TypeInv'
  <2>1. /\ EnsureStates[d] \in StateRow
        /\ EnsureStates \in [DeviceId -> StateRow \cup {NoRow}]
    BY <1>5, EnsureStatesType DEF UpdateSettings
  <2>2. state' \in [DeviceId -> StateRow \cup {NoRow}]
    BY <1>5, <2>1 DEF UpdateSettings, StateRow
  <2> QED
    BY <1>5, <2>2, SpendType DEF UpdateSettings, TypeOK, JobSound, Recording, memory
<1>6. ASSUME NEW d \in DeviceId, RunNow(d) PROVE TypeInv'
  BY <1>6, EnsureStatesType, SubmitType DEF RunNow, TypeOK, JobSound, Recording
<1> QED
  BY <1>1, <1>2, <1>3, <1>4, <1>5, <1>6 DEF Request

LEMMA TypeStep == TypeInv /\ [Next]_vars => TypeInv'
<1> SUFFICES ASSUME TypeInv, [Next]_vars PROVE TypeInv'
  OBVIOUS
<1>0. IdleJob \in Job /\ IdleJob.pc = "idle" /\ IdleJob.run = 0 /\ Worker \subseteq Runner
      /\ Shell \subseteq Runner /\ DeviceId \subseteq 0..MaxDevice
  BY RowTypes, SizeAssumption DEF IdleJob, Runner, DeviceId
<1>1. CASE TimePasses
  BY <1>1, RowTypes DEF TimePasses, TypeInv, TypeOK, JobSound, Recording
<1>2. ASSUME NEW w \in Worker, TakeJob(w) PROVE TypeInv'
  <2>1. Head(queue) \in DeviceId /\ Tail(queue) \in Seq(DeviceId)
    BY <1>2, TailElements DEF TakeJob, TypeInv, TypeOK
  <2>2. [IdleJob EXCEPT !.pc = "start", !.dev = Head(queue)] \in Job
    BY <1>0, <2>1 DEF Job, Pc
  <2>3. job' \in [Runner -> Job] /\ JobSound'
    BY <1>0, <1>2, <2>1, <2>2 DEF TakeJob, TypeInv, TypeOK, JobSound, Recording, Job
  <2> QED
    BY <1>2, <2>1, <2>3 DEF TakeJob, TypeInv, TypeOK, tables
<1>3. ASSUME NEW c \in Shell, ShellStart(c) PROVE TypeInv'
  <2>1. PICK d \in Rows(device) :
            job' = [job EXCEPT ![c] = [IdleJob EXCEPT !.pc = "start", !.dev = d]]
    BY <1>3 DEF ShellStart
  <2>2. d \in DeviceId
    BY DEF Rows, TypeInv, TypeOK
  <2>3. [IdleJob EXCEPT !.pc = "start", !.dev = d] \in Job
    BY <1>0, <2>2 DEF Job, Pc
  <2>4. job' \in [Runner -> Job] /\ JobSound'
    BY <1>0, <2>1, <2>2, <2>3 DEF TypeInv, TypeOK, JobSound, Recording, Job
  <2> QED
    BY <1>3, <2>4, SpendType DEF ShellStart, TypeInv, TypeOK, tables, memory
<1>4. ASSUME NEW c \in Shell, ShellKilled(c) PROVE TypeInv'
  BY <1>0, <1>4, SpendType
     DEF ShellKilled, TypeInv, TypeOK, JobSound, Recording, tables, memory
<1>5. CASE UNCHANGED vars
  BY <1>5 DEF vars, TypeInv, TypeOK, JobSound, Recording
<1> QED
  BY <1>1, <1>2, <1>3, <1>4, <1>5, ServerType, SchedulerType, RunType, RequestType DEF Next

\* Every variable keeps its type, whatever the interleaving of scheduler,
\* threads, shells, requests and restarts.
THEOREM TypeCorrect == Spec => []TypeOK
<1>1. TypeInv => TypeOK
  BY DEF TypeInv
<1> QED
  BY <1>1, TypeInit, TypeStep, PTL DEF Spec

-----------------------------------------------------------------------------
(* The gate                                                                *)

\* GateExact says nothing of _in_flight once the server stops; what a new
\* process starts from makes it inductive.
DownIsEmpty ==
    /\ mode # "up" => queue = <<>>
    /\ mode = "down" => inFlight = {} /\ Busy = {}

GateInv == GateExact /\ DownIsEmpty

\* What a device is to JobGate, and a step of JobGate or a stutter.
Active == [d \in DeviceId |-> IF d \in Queued THEN "queued"
                             ELSE IF d \in InHand THEN "running" ELSE "free"]
GateMoves == [Gate!Next]_Active

\* Each way a step moves devices between the queue and the threads is one of
\* JobGate's.
LEMMA MoveNothing ==
    ASSUME Queued' = Queued, InHand' = InHand
    PROVE  GateMoves
BY DEF GateMoves, Active

LEMMA MoveEnqueue ==
    ASSUME NEW d \in DeviceId, d \notin Queued \cup InHand,
           Queued' = Queued \cup {d}, InHand' = InHand
    PROVE  GateMoves
<1>1. Gate!Enqueue(d)
  BY DEF Gate!Enqueue
<1> QED
  BY <1>1 DEF GateMoves, Gate!Next

\* A thread is idle, so fewer devices are in hand than there are threads.
LEMMA MoveBegin ==
    ASSUME NEW d \in DeviceId, d \in Queued, GateInv, NEW w \in Worker \ Busy,
           InHand \subseteq DeviceId,
           Queued' = Queued \ {d}, InHand' = InHand \cup {d}
    PROVE  GateMoves
<1>1. Cardinality(InHand) < Cardinality(Worker)
  <2> DEFINE dev == [v \in Busy |-> job[v].dev]
  <2>1. dev \in Surjection(Busy, InHand)
    BY DEF Surjection, InHand
  <2>2. /\ IsFiniteSet(Busy) /\ Cardinality(Busy) <= Cardinality(Worker)
        /\ Cardinality(Busy) # Cardinality(Worker)
    BY ProcessAssumption, FS_Subset DEF Busy
  <2>3. Cardinality(InHand) <= Cardinality(Busy) /\ IsFiniteSet(InHand)
    BY <2>1, <2>2, FS_Surjection
  <2>4. /\ Cardinality(Worker) \in Nat /\ Cardinality(Busy) \in Nat
        /\ Cardinality(InHand) \in Nat
    BY <2>2, <2>3, ProcessAssumption, FS_CardinalityType
  <2> QED
    BY <2>2, <2>3, <2>4
<1>2. Gate!In("running") = InHand
  BY DEF Gate!In, GateInv, GateExact
<1>3. Gate!Cardinality(InHand) = Cardinality(InHand)
  BY DEF Gate!Cardinality, Cardinality
<1>4. Gate!Begin(d)
  BY <1>1, <1>2, <1>3 DEF Gate!Begin, GateInv, GateExact
<1> QED
  BY <1>4 DEF GateMoves, Gate!Next

LEMMA MoveFinish ==
    ASSUME NEW d \in DeviceId, d \in InHand, GateInv,
           Queued' = Queued, InHand' = InHand \ {d}
    PROVE  GateMoves
<1>1. Gate!Finish(d)
  BY DEF Gate!Finish, GateInv, GateExact
<1> QED
  BY <1>1 DEF GateMoves, Gate!Next

LEMMA MoveDrain ==
    ASSUME GateInv, Queued' = {}, InHand' = InHand
    PROVE  GateMoves
<1>1. Gate!Drain
  BY DEF Gate!Drain, GateInv, GateExact
<1> QED
  BY <1>1 DEF GateMoves, Gate!Next

LEMMA MoveAbort ==
    ASSUME Queued' = {}, InHand' = {}
    PROVE  GateMoves
<1>1. Gate!Abort
  BY DEF Gate!Abort
<1> QED
  BY <1>1 DEF GateMoves, Gate!Next

\* Steps that leave the queue, _in_flight, the mode and the threads' devices
\* alone cannot disturb the gate.
LEMMA GateFrame ==
    ASSUME GateInv, UNCHANGED <<inFlight, queue, mode>>,
           \A w \in Worker : /\ job'[w].pc = "idle" <=> job[w].pc = "idle"
                             /\ job'[w].dev = job[w].dev
    PROVE  GateInv' /\ GateMoves
<1>1. Busy' = Busy /\ InHand' = InHand /\ Queued' = Queued
  BY DEF Busy, InHand, Queued
<1> QED
  BY <1>1, MoveNothing DEF GateInv, GateExact, DownIsEmpty, Busy

LEMMA GateSubmit ==
    ASSUME TypeInv, GateInv, NEW d \in DeviceId, Submit(d), mode = "up",
           UNCHANGED <<mode, job>>
    PROVE  GateInv' /\ GateMoves
<1>1. Busy' = Busy /\ InHand' = InHand
  BY DEF Busy, InHand
<1>2. CASE d \in inFlight
  <2>1. UNCHANGED <<inFlight, queue, mode, job>>
    BY <1>2 DEF Submit
  <2> QED
    BY <2>1, GateFrame
<1>3. CASE d \notin inFlight
  <2>1. inFlight' = inFlight \cup {d} /\ queue' = Append(queue, d)
    BY <1>3 DEF Submit
  <2>2. d \notin Queued /\ d \notin InHand
    BY <1>3 DEF GateInv, GateExact
  <2>3. Queued' = Queued \cup {d}
    <3>1. queue \in Seq(DeviceId) /\ Queued = Elements(queue)
      BY DEF TypeInv, TypeOK, Queued, Elements
    <3>2. Queued' = Elements(Append(queue, d))
      BY <2>1 DEF Queued, Elements
    <3> QED
      BY <3>1, <3>2, AppendElements
  <2>4. \A i, j \in DOMAIN queue' : queue'[i] = queue'[j] => i = j
    BY <2>1, <2>2, AppendElements DEF TypeInv, TypeOK, Queued, Elements, GateInv, GateExact
  <2>5. \A v, w \in Busy' : job'[v].dev = job'[w].dev => v = w
    BY <1>1 DEF GateInv, GateExact
  <2>6. Queued' \cap InHand' = {} /\ Queued' \cup InHand' = inFlight'
    BY <1>1, <2>1, <2>2, <2>3 DEF GateInv, GateExact
  <2>7. GateMoves
    BY <1>1, <2>2, <2>3, MoveEnqueue
  <2> QED
    BY <2>4, <2>5, <2>6, <2>7 DEF GateInv, GateExact, DownIsEmpty
<1> QED
  BY <1>2, <1>3

LEMMA GateServer ==
    ASSUME TypeInv, GateInv, Server
    PROVE  GateInv' /\ GateMoves
<1>1. CASE Start
  <2>1. UNCHANGED <<inFlight, queue, job>> /\ mode = "down" /\ mode' = "up"
    BY <1>1 DEF Start, memory
  <2>2. Busy' = Busy /\ InHand' = InHand /\ Queued' = Queued
    BY <2>1 DEF Busy, InHand, Queued
  <2> QED
    BY <2>1, <2>2, MoveNothing DEF GateInv, GateExact, DownIsEmpty
<1>2. CASE Stop
  <2>1. UNCHANGED <<inFlight, job>> /\ queue' = <<>> /\ mode' = "stopping"
    BY <1>2 DEF Stop
  <2>2. Busy' = Busy /\ InHand' = InHand /\ Queued' = {} /\ DOMAIN queue' = {}
    BY <2>1 DEF Busy, InHand, Queued
  <2>3. GateExact'
    BY <2>1, <2>2 DEF GateInv, GateExact
  <2> QED
    BY <2>1, <2>2, <2>3, MoveDrain DEF GateInv, DownIsEmpty
<1>3. ASSUME ProcessEnds PROVE GateInv' /\ GateMoves
  <2>1. inFlight' = {} /\ queue' = <<>> /\ mode' = "down"
    BY <1>3 DEF ProcessEnds
  <2>2. \A w \in Worker : job'[w].pc = "idle"
    BY <1>3 DEF ProcessEnds, IdleJob, Runner
  <2>3. Busy' = {} /\ InHand' = {} /\ Queued' = {} /\ DOMAIN queue' = {}
    BY <2>1, <2>2 DEF Busy, InHand, Queued
  <2>4. GateExact'
    BY <2>1, <2>3 DEF GateExact
  <2> QED
    BY <2>1, <2>3, <2>4, MoveAbort DEF GateInv, DownIsEmpty
<1> QED
  BY <1>1, <1>2, <1>3 DEF Server, Exit, Crash

LEMMA GateScheduler ==
    ASSUME TypeInv, GateInv, Scheduler
    PROVE  GateInv' /\ GateMoves
<1>1. CASE ReadDue \/ Prune \/ TickFails
  <2>1. UNCHANGED <<inFlight, queue, mode, job>>
    BY <1>1 DEF ReadDue, Prune, TickFails
  <2> QED
    BY <2>1, GateFrame
<1>2. CASE SubmitDue
  <2>1. PICK d \in sched.due : Submit(d)
    BY <1>2 DEF SubmitDue
  <2>2. d \in DeviceId /\ mode = "up" /\ UNCHANGED <<mode, job>>
    BY <1>2, <2>1 DEF SubmitDue, TypeInv, TypeOK
  <2> QED
    BY <2>1, <2>2, GateSubmit
<1>3. CASE SubmitRefused
  <2>1. UNCHANGED <<queue, mode, job>> /\ mode = "stopping" /\ inFlight \subseteq inFlight'
    BY <1>3 DEF SubmitRefused
  <2>2. Busy' = Busy /\ InHand' = InHand /\ Queued' = Queued
    BY <2>1 DEF Busy, InHand, Queued
  <2>3. GateExact'
    BY <2>1, <2>2 DEF GateInv, GateExact
  <2> QED
    BY <2>1, <2>2, <2>3, MoveNothing DEF GateInv, DownIsEmpty
<1> QED
  BY <1>1, <1>2, <1>3 DEF Scheduler

LEMMA GateTakeJob ==
    ASSUME TypeInv, GateInv, NEW w \in Worker, TakeJob(w)
    PROVE  GateInv' /\ GateMoves
<1> DEFINE d == Head(queue)
<1>1. /\ mode = "up" /\ queue # <<>> /\ job[w].pc = "idle"
      /\ job' = [job EXCEPT ![w] = [IdleJob EXCEPT !.pc = "start", !.dev = d]]
      /\ queue' = Tail(queue) /\ UNCHANGED <<mode, inFlight>>
  BY DEF TakeJob
<1>2. job'[w].pc = "start" /\ job'[w].dev = d /\ \A v \in Worker \ {w} : job'[v] = job[v]
  BY <1>1 DEF TypeInv, TypeOK, Runner, IdleJob
<1>3. Busy' = Busy \cup {w} /\ w \notin Busy
  BY <1>1, <1>2 DEF Busy
<1>4. InHand' = InHand \cup {d}
  BY <1>2, <1>3 DEF InHand, Busy
<1>5. /\ Queued = Queued' \cup {d} /\ d \notin Queued'
      /\ \A i, j \in DOMAIN queue' : queue'[i] = queue'[j] => i = j
  <2>1. queue \in Seq(DeviceId) /\ Queued = Elements(queue)
    BY DEF TypeInv, TypeOK, Queued, Elements
  <2>2. Queued' = Elements(Tail(queue))
    BY <1>1 DEF Queued, Elements
  <2>3. \A i, j \in DOMAIN queue : queue[i] = queue[j] => i = j
    BY DEF GateInv, GateExact
  <2> QED
    BY <1>1, <2>1, <2>2, <2>3, TailElements
<1>6. \A u, v \in Busy' : job'[u].dev = job'[v].dev => u = v
  <2>1. \A v \in Busy : job[v].dev # d
    BY <1>5 DEF GateInv, GateExact, InHand
  <2>2. \A v \in Busy : v # w /\ job'[v].dev = job[v].dev
    BY <1>2, <1>3 DEF Busy
  <2>3. \A u, v \in Busy : job'[u].dev = job'[v].dev => u = v
    BY <2>2 DEF GateInv, GateExact
  <2> QED
    BY <1>2, <1>3, <2>1, <2>2, <2>3
<1>7. Queued' \cap InHand' = {} /\ Queued' \cup InHand' = inFlight'
  BY <1>1, <1>4, <1>5 DEF GateInv, GateExact
<1>8. GateMoves
  <2>1. d \in DeviceId /\ InHand \subseteq DeviceId
    BY <1>1, TailElements DEF TypeInv, TypeOK, InHand, Busy, GateInv, GateExact
  <2>2. Queued' = Queued \ {d}
    BY <1>5
  <2> QED
    BY <1>3, <1>4, <1>5, <2>1, <2>2, MoveBegin
<1> QED
  BY <1>1, <1>5, <1>6, <1>7, <1>8 DEF GateInv, GateExact, DownIsEmpty

LEMMA GateRelease ==
    ASSUME TypeInv, GateInv, NEW r \in Runner, Release(r)
    PROVE  GateInv' /\ GateMoves
<1> DEFINE d == job[r].dev
<1>1. /\ job[r].pc = "release" /\ job' = [job EXCEPT ![r] = IdleJob]
      /\ inFlight' = IF r \in Worker THEN inFlight \ {d} ELSE inFlight
      /\ UNCHANGED <<mode, queue>>
  BY DEF Release
<1>2. job'[r] = IdleJob /\ IdleJob.pc = "idle" /\ \A v \in Runner \ {r} : job'[v] = job[v]
  BY <1>1 DEF TypeInv, TypeOK, IdleJob
<1>3. CASE r \in Worker
  <2>1. r \in Busy /\ Busy' = Busy \ {r} /\ \A v \in Busy' : job'[v] = job[v]
    BY <1>1, <1>2, <1>3 DEF Busy, Runner
  <2>2. d \in InHand /\ \A v \in Busy \ {r} : job[v].dev # d
    BY <2>1 DEF InHand, GateInv, GateExact
  <2>3. InHand' = InHand \ {d}
    BY <2>1, <2>2 DEF InHand
  <2>4. Queued' = Queued /\ d \notin Queued
    BY <1>1, <2>2 DEF Queued, GateInv, GateExact
  <2>5. inFlight' = inFlight \ {d}
    BY <1>1, <1>3
  <2>6. \A u, v \in Busy' : job'[u].dev = job'[v].dev => u = v
    BY <2>1 DEF GateInv, GateExact
  <2>7. GateExact'
    BY <1>1, <2>3, <2>4, <2>5, <2>6 DEF GateInv, GateExact
  <2>8. GateMoves
    BY <2>2, <2>3, <2>4, MoveFinish DEF TypeInv, TypeOK, GateInv, GateExact
  <2> QED
    BY <1>1, <2>1, <2>5, <2>7, <2>8 DEF GateInv, DownIsEmpty
<1>4. CASE r \notin Worker
  <2>1. \A w \in Worker : job'[w] = job[w]
    BY <1>2, <1>4 DEF Runner
  <2> QED
    BY <1>1, <1>4, <2>1, GateFrame
<1> QED
  BY <1>3, <1>4

LEMMA GateRun ==
    ASSUME TypeInv, GateInv, NEW r \in Runner, Run(r)
    PROVE  GateInv' /\ GateMoves
<1>1. CASE RecordAttempt(r) \/ Fetch(r) \/ RecordOutcome(r) \/ DbError(r)
  <2>1. UNCHANGED <<inFlight, queue, mode>>
    BY <1>1 DEF RecordAttempt, Fetch, RecordOutcome, DbError, memory
  <2>2. /\ job[r].pc # "idle" /\ job'[r].pc # "idle" /\ job'[r].dev = job[r].dev
        /\ \A v \in Runner \ {r} : job'[v] = job[v]
    <3>1. job \in [Runner -> Job]
      BY DEF TypeInv, TypeOK
    <3>2. CASE RecordAttempt(r)
      <4>1. job[r].pc = "start"
        BY <3>2 DEF RecordAttempt
      <4>2. \/ job' = [job EXCEPT ![r].pc = "release"]
            \/ \E id \in RunId : job' = [job EXCEPT ![r].pc = "fetch", ![r].run = id]
        BY <3>2 DEF RecordAttempt
      <4> QED
        BY <3>1, <4>1, <4>2 DEF Job
    <3>3. CASE Fetch(r)
      BY <3>1, <3>3 DEF Fetch, Job
    <3>4. CASE RecordOutcome(r)
      BY <3>1, <3>4 DEF RecordOutcome, Job
    <3>5. CASE DbError(r)
      BY <3>1, <3>5 DEF DbError, Job
    <3> QED
      BY <1>1, <3>2, <3>3, <3>4, <3>5
  <2>3. \A w \in Worker : /\ job'[w].pc = "idle" <=> job[w].pc = "idle"
                          /\ job'[w].dev = job[w].dev
    BY <2>2 DEF Runner
  <2> QED
    BY <2>1, <2>3, GateFrame
<1>2. CASE Release(r)
  BY <1>2, GateRelease
<1> QED
  BY <1>1, <1>2 DEF Run

LEMMA GateRequest ==
    ASSUME TypeInv, GateInv, Request
    PROVE  GateInv' /\ GateMoves
<1>1. ASSUME NEW d \in DeviceId, RunNow(d) PROVE GateInv' /\ GateMoves
  <2>1. Submit(d) /\ mode = "up" /\ UNCHANGED <<mode, job>>
    BY <1>1 DEF RunNow
  <2> QED
    BY <2>1, GateSubmit
<1>2. ASSUME UNCHANGED <<inFlight, queue, mode, job>> PROVE GateInv' /\ GateMoves
  BY <1>2, GateFrame
<1> QED
  BY <1>1, <1>2
     DEF Request, CreateDevice, ReadStates, UpdateDevice, DeleteDevice, UpdateSettings, memory

LEMMA GateStep == TypeInv /\ GateInv /\ [Next]_vars => GateInv' /\ GateMoves
<1> SUFFICES ASSUME TypeInv, GateInv, [Next]_vars PROVE GateInv' /\ GateMoves
  OBVIOUS
<1>1. CASE TimePasses \/ UNCHANGED vars
  <2>1. UNCHANGED <<inFlight, queue, mode, job>>
    BY <1>1 DEF TimePasses, vars
  <2> QED
    BY <2>1, GateFrame
<1>2. ASSUME NEW c \in Shell, ShellStart(c) \/ ShellKilled(c) PROVE GateInv' /\ GateMoves
  <2>1. c \notin Worker /\ UNCHANGED <<inFlight, queue, mode>>
    BY <1>2, ProcessAssumption DEF ShellStart, ShellKilled, memory
  <2>2. \A w \in Worker : job'[w] = job[w]
    BY <1>2, <2>1 DEF ShellStart, ShellKilled, TypeInv, TypeOK, Runner
  <2> QED
    BY <2>1, <2>2, GateFrame
<1> QED
  BY <1>1, <1>2, GateServer, GateScheduler, GateRun, GateRequest, GateTakeJob DEF Next

LEMMA GateInit == Init => GateInv
<1> SUFFICES ASSUME Init PROVE GateInv
  OBVIOUS
<1>1. Busy = {} /\ InHand = {} /\ Queued = {} /\ DOMAIN queue = {}
  BY DEF Init, Busy, InHand, Queued, IdleJob, Runner
<1> QED
  BY <1>1 DEF Init, GateInv, GateExact, DownIsEmpty

\* The server never works on a device twice at once, and _in_flight is exact
\* while it is up: for any number of devices, threads and shells, through
\* deletions, failing transactions, shutdowns and crashes.
THEOREM GateIsExact == Spec => []GateExact
<1>1. Init => TypeInv /\ GateInv
  BY TypeInit, GateInit
<1>2. TypeInv /\ GateInv /\ [Next]_vars => (TypeInv /\ GateInv)'
  BY TypeStep, GateStep
<1>3. GateInv => GateExact
  BY DEF GateInv
<1> QED
  BY <1>1, <1>2, <1>3, PTL DEF Spec

\* The queue and the threads implement JobGate: a device is queued only when it
\* is free, begins only after it was queued and while a thread has nothing to do,
\* and is dropped only by a shutdown or a crash, for any number of threads.
THEOREM GateIsImplemented == Spec => ImplementsGate
<1>1. Init => TypeInv /\ GateInv
  BY TypeInit, GateInit
<1>2. Init => Gate!Init
  <2> SUFFICES ASSUME Init PROVE Gate!Init
    OBVIOUS
  <2>1. InHand = {} /\ Queued = {}
    BY DEF Init, Busy, InHand, Queued, IdleJob, Runner
  <2> QED
    BY <2>1 DEF Gate!Init
<1>3. TypeInv /\ GateInv /\ [Next]_vars => (TypeInv /\ GateInv)' /\ GateMoves
  BY TypeStep, GateStep
<1> QED
  BY <1>1, <1>2, <1>3, PTL DEF Spec, ImplementsGate, Gate!Spec, GateMoves, Active

-----------------------------------------------------------------------------
(* Rows that are shown as running                                          *)

\* What a backup under way has on record: its run, as long as that is its own.
Owns(r, id) ==
    Recording(r) /\ job[r].run = id /\ run[id] # NoRow /\ run[id].dev = job[r].dev

\* A run goes with its device's state, and its backup ends before it is old
\* enough to be pruned.
RunsHaveState == \A id \in Rows(run) : state[run[id].dev] # NoRow
RunsAreYoung ==
    \A r \in Runner :
        Recording(r) /\ run[job[r].run] # NoRow => run[job[r].run].age < Retention

SpentOnly == budget.dbError <= Budget.dbError /\ budget.kill <= Budget.kill

\* RunningIsOwned, and the owner's own run is still there: the transaction
\* that ends the backup will find both rows.
RowsOwned ==
    /\ \A d \in Rows(state) : state[d].status = "running" =>
          \E r \in Runner : Owns(r, job[r].run) /\ job[r].dev = d
    /\ \A id \in Rows(run) : run[id].status = "running" => \E r \in Runner : Owns(r, id)

OwnInv ==
    /\ RunsHaveState /\ RunsAreYoung /\ SpentOnly
    /\ mode = "up" /\ Undisturbed => RowsOwned

Events == {"create", "delete", "edit", "restart", "dbError", "shell", "kill"}

\* What is spent stays spent.
LEMMA Spending ==
    ASSUME TypeInv, SpentOnly, UNCHANGED budget \/ \E what \in Events : Spend(what)
    PROVE  /\ SpentOnly'
           /\ Undisturbed' => Undisturbed /\ ~Spend("dbError") /\ ~Spend("kill")
<1>1. budget \in [create : Nat, delete : Nat, edit : Nat, restart : Nat,
                  dbError : Nat, shell : Nat, kill : Nat]
  BY DEF TypeInv, TypeOK
<1>2. Budget.dbError \in Nat /\ Budget.kill \in Nat
  BY BudgetAssumption
<1>3. CASE UNCHANGED budget
  BY <1>1, <1>2, <1>3 DEF SpentOnly, Undisturbed, Spend
<1>4. ASSUME NEW what \in Events, Spend(what)
      PROVE  /\ budget'.dbError <= budget.dbError /\ budget'.kill <= budget.kill
             /\ budget'.dbError \in Nat /\ budget'.kill \in Nat
  BY <1>1, <1>4 DEF Spend, Events
<1>5. Spend("dbError") => budget'.dbError < budget.dbError
  BY <1>1 DEF Spend
<1>6. Spend("kill") => budget'.kill < budget.kill
  BY <1>1 DEF Spend
<1>7. CASE \E what \in Events : Spend(what)
  BY <1>1, <1>2, <1>4, <1>5, <1>6, <1>7 DEF SpentOnly, Undisturbed
<1> QED
  BY <1>3, <1>7

\* Steps that neither begin nor end what is recorded.
LEMMA OwnFrame ==
    ASSUME TypeInv, OwnInv, SpentOnly', UNCHANGED run,
           mode' = "up" /\ Undisturbed' => mode = "up" /\ Undisturbed,
           \A r \in Runner : /\ Recording(r)' <=> Recording(r)
                             /\ Recording(r) => job'[r].run = job[r].run
                                                /\ job'[r].dev = job[r].dev,
           \A d \in DeviceId :
              /\ state[d] # NoRow => state'[d] # NoRow
              /\ state'[d] # NoRow /\ state'[d].status = "running" =>
                    state[d] # NoRow /\ state[d].status = "running",
           DOMAIN state' = DeviceId
    PROVE  OwnInv'
<1>1. \A r \in Runner, id \in RunId : Owns(r, id) => Owns(r, id)'
  BY DEF Owns
<1>2. /\ Rows(run)' = Rows(run) /\ Rows(run) \subseteq RunId
      /\ \A id \in Rows(run) : run[id].dev \in DeviceId
      /\ Rows(state) \subseteq DeviceId /\ Rows(state)' \subseteq DeviceId
  BY DEF Rows, TypeInv, TypeOK, RunRow
<1>3. RunsHaveState'
  BY <1>2 DEF OwnInv, RunsHaveState
<1>4. RunsAreYoung'
  BY DEF OwnInv, RunsAreYoung
<1>5. ASSUME RowsOwned PROVE RowsOwned'
  <2>1. ASSUME NEW d \in Rows(state)', state'[d].status = "running"
        PROVE  \E r \in Runner : Owns(r, job[r].run)' /\ job'[r].dev = d
    <3>1. d \in Rows(state) /\ state[d].status = "running"
      BY <1>2, <2>1 DEF Rows, TypeInv, TypeOK
    <3>2. PICK r \in Runner : Owns(r, job[r].run) /\ job[r].dev = d
      BY <1>5, <3>1 DEF RowsOwned
    <3>3. Recording(r) /\ job'[r].run = job[r].run /\ job'[r].dev = job[r].dev
      BY <3>2 DEF Owns
    <3> QED
      BY <3>2, <3>3 DEF Owns
  <2>2. ASSUME NEW id \in Rows(run)', run'[id].status = "running"
        PROVE  \E r \in Runner : Owns(r, id)'
    BY <1>1, <1>2, <1>5, <2>2 DEF RowsOwned
  <2> QED
    BY <2>1, <2>2 DEF RowsOwned
<1> QED
  BY <1>3, <1>4, <1>5 DEF OwnInv

\* ensure_states adds rows and changes none.
LEMMA EnsureStatesKeeps ==
    ASSUME TypeInv
    PROVE  /\ DOMAIN EnsureStates = DeviceId
           /\ \A d \in DeviceId :
                 /\ state[d] # NoRow => EnsureStates[d] = state[d]
                 /\ EnsureStates[d] # NoRow /\ EnsureStates[d].status = "running" =>
                       state[d] # NoRow /\ state[d].status = "running"
BY DEF EnsureStates, NewState

LEMMA OwnServer ==
    ASSUME TypeInv, OwnInv, Server PROVE OwnInv'
<1>0. SpentOnly'
  BY Spending DEF OwnInv, Server, Start, Stop, Exit, Crash, Events
<1>1. CASE Start
  <2>1. /\ state' = [d \in DeviceId |-> Interrupt(state[d])]
        /\ run' = [id \in RunId |-> Interrupt(run[id])] /\ job' = job
    BY <1>1 DEF Start, RecoverInterrupted
  <2>2. \A row : Interrupt(row) # NoRow => row # NoRow
    BY DEF Interrupt
  <2>3. \A d \in DeviceId : /\ state'[d] = NoRow <=> state[d] = NoRow
                            /\ state'[d] # NoRow => state'[d].status # "running"
    BY <2>1, RowTypes DEF Interrupt, TypeInv, TypeOK, StateRow
  <2>4. \A id \in RunId : /\ run'[id] = NoRow <=> run[id] = NoRow
                          /\ run'[id] # NoRow => /\ run'[id].status # "running"
                                                 /\ run'[id].dev = run[id].dev
                                                 /\ run'[id].age = run[id].age
                                                 /\ run'[id].dev \in DeviceId
    <3> SUFFICES ASSUME NEW id \in RunId
                 PROVE  /\ run'[id] = NoRow <=> run[id] = NoRow
                        /\ run'[id] # NoRow => /\ run'[id].status # "running"
                                               /\ run'[id].dev = run[id].dev
                                               /\ run'[id].age = run[id].age
                                               /\ run'[id].dev \in DeviceId
      OBVIOUS
    <3>1. run'[id] = Interrupt(run[id]) /\ run[id] \in RunRow \cup {NoRow}
      BY <2>1 DEF TypeInv, TypeOK
    <3>2. CASE run[id] = NoRow
      BY <3>1, <3>2, RowTypes
    <3>3. CASE run[id] \in RunRow
      <4>1. run'[id] # NoRow /\ run[id] # NoRow
        BY <3>1, <3>3, RowTypes
      <4> QED
        BY <3>1, <3>3, <4>1 DEF Interrupt, RunRow
    <3> QED
      BY <3>1, <3>2, <3>3
  <2>5. DOMAIN run' = RunId /\ DOMAIN state' = DeviceId /\ DOMAIN run = RunId
    BY <2>1 DEF TypeInv, TypeOK
  <2>6. RunsHaveState'
    BY <2>3, <2>4, <2>5 DEF OwnInv, RunsHaveState, Rows
  <2>7. RunsAreYoung'
    BY <2>1, <2>4 DEF OwnInv, RunsAreYoung, TypeInv, JobSound, Recording
  <2>8. RowsOwned'
    BY <2>3, <2>4, <2>5 DEF RowsOwned, Rows
  <2> QED
    BY <1>0, <2>6, <2>7, <2>8 DEF OwnInv
<1>2. CASE Stop
  <2>1. mode' = "stopping" /\ UNCHANGED <<state, run, job>>
    BY <1>2 DEF Stop, tables
  <2> QED
    BY <1>0, <2>1, OwnFrame DEF Recording, TypeInv, TypeOK
<1>3. ASSUME ProcessEnds PROVE OwnInv'
  <2>1. /\ mode' = "down" /\ UNCHANGED <<state, run>>
        /\ job' = [r \in Runner |-> IF r \in Worker THEN IdleJob ELSE job[r]]
    BY <1>3 DEF ProcessEnds, tables
  <2>2. \A r \in Runner : Recording(r)' => Recording(r) /\ job'[r] = job[r]
    BY <2>1 DEF Recording, IdleJob
  <2>3. RunsAreYoung'
    BY <2>1, <2>2 DEF OwnInv, RunsAreYoung
  <2> QED
    BY <1>0, <2>1, <2>3 DEF OwnInv, RunsHaveState
<1> QED
  BY <1>1, <1>2, <1>3 DEF Server, Exit, Crash

LEMMA OwnScheduler ==
    ASSUME TypeInv, OwnInv, Scheduler PROVE OwnInv'
<1>0. SpentOnly' /\ (Undisturbed' => Undisturbed)
  BY Spending
     DEF OwnInv, Scheduler, ReadDue, SubmitDue, SubmitRefused, Prune, TickFails, Events
<1>1. CASE ReadDue
  <2>1. state' = EnsureStates /\ UNCHANGED <<run, mode, job>>
    BY <1>1 DEF ReadDue
  <2> QED
    BY <1>0, <2>1, EnsureStatesKeeps, OwnFrame DEF Recording
<1>2. CASE SubmitDue \/ SubmitRefused \/ TickFails
  <2>1. UNCHANGED <<state, run, mode, job>>
    BY <1>2 DEF SubmitDue, SubmitRefused, TickFails, tables
  <2> QED
    BY <1>0, <2>1, OwnFrame DEF Recording, TypeInv, TypeOK
<1>3. CASE Prune
  <2>1. /\ UNCHANGED <<state, mode, job>>
        /\ run' = [id \in RunId |-> IF ~pruned /\ run[id] # NoRow /\ run[id].age >= Retention
                                    THEN NoRow ELSE run[id]]
    BY <1>3 DEF Prune
  <2>2. DOMAIN run' = RunId /\ \A id \in RunId : run'[id] # NoRow => run'[id] = run[id]
    BY <2>1
  <2>3. \A id \in Rows(run)' : id \in Rows(run) /\ run'[id] = run[id]
    BY <2>2 DEF Rows, TypeInv, TypeOK
  <2>4. RunsHaveState'
    BY <2>1, <2>3 DEF OwnInv, RunsHaveState
  <2>5. RunsAreYoung'
    BY <2>1, <2>2 DEF OwnInv, RunsAreYoung, TypeInv, JobSound, Recording
  <2>6. ASSUME NEW r \in Runner, NEW id, Owns(r, id) PROVE Owns(r, id)'
    <3>1. id \in RunId /\ run[id] # NoRow /\ run[id].age < Retention /\ run[id].age \in Nat
      BY <2>6 DEF Owns, TypeInv, TypeOK, JobSound, OwnInv, RunsAreYoung, RunRow
    <3>2. run'[id] = run[id]
      BY <2>1, <3>1, TimeAssumption
    <3> QED
      BY <2>1, <2>6, <3>2 DEF Owns, Recording
  <2>7. RowsOwned => RowsOwned'
    BY <2>1, <2>3, <2>6 DEF RowsOwned
  <2> QED
    BY <1>0, <2>1, <2>4, <2>5, <2>7 DEF OwnInv
<1> QED
  BY <1>1, <1>2, <1>3 DEF Scheduler

\* The attempt that finds its device, with the id it is given.
Attempts(r, d, id) ==
    /\ d = job[r].dev /\ device[d] # NoRow /\ IsNextId(id, Rows(run))
    /\ run' = [run EXCEPT ![id] = [dev |-> d, status |-> "running", age |-> 0]]
    /\ job' = [job EXCEPT ![r].pc = "fetch", ![r].run = id]
    /\ state' = [EnsureStates EXCEPT ![d].status = "running", ![d].age = 0]

\* A new run: a row above all others, its device's row with it.
LEMMA AttemptEffect ==
    ASSUME TypeInv, NEW r \in Runner, NEW d \in DeviceId, NEW id \in RunId,
           Attempts(r, d, id)
    PROVE  /\ run[id] = NoRow /\ \A i \in Rows(run) : i < id
           /\ job'[r].pc = "fetch" /\ job'[r].run = id /\ job'[r].dev = d
           /\ \A q \in Runner \ {r} : job'[q] = job[q]
           /\ run'[id].dev = d /\ run'[id].status = "running" /\ run'[id].age = 0
           /\ \A i \in RunId \ {id} : run'[i] = run[i]
           /\ run'[id] # NoRow /\ Rows(run)' = Rows(run) \cup {id} /\ Rows(run) \subseteq RunId
           /\ \A i \in Rows(run) : run'[i] = run[i] /\ run[i].dev \in DeviceId
           /\ state'[d] # NoRow /\ state'[d].status = "running" /\ DOMAIN state' = DeviceId
           /\ \A e \in DeviceId :
                 /\ state[e] # NoRow => state'[e] # NoRow
                 /\ e # d /\ state[e] # NoRow => state'[e] = state[e]
                 /\ e # d /\ state'[e] # NoRow /\ state'[e].status = "running" =>
                       state[e] # NoRow /\ state[e].status = "running"
<1> DEFINE new == [dev |-> d, status |-> "running", age |-> 0]
<1>1. run[id] = NoRow /\ \A i \in Rows(run) : i < id
  <2>1. id \in Nat /\ ~(id < id)
    BY SizeAssumption DEF RunId
  <2> QED
    BY <2>1 DEF Attempts, IsNextId, Rows, TypeInv, TypeOK
<1>2. /\ job'[r].pc = "fetch" /\ job'[r].run = id /\ job'[r].dev = d
      /\ \A q \in Runner \ {r} : job'[q] = job[q]
  BY DEF Attempts, TypeInv, TypeOK, Job
<1>3. /\ new \in RunRow /\ run'[id] = new /\ DOMAIN run' = RunId
      /\ \A i \in RunId \ {id} : run'[i] = run[i]
  BY TimeAssumption DEF Attempts, TypeInv, TypeOK, RunRow, Status
<1>4. run'[id] # NoRow /\ Rows(run)' = Rows(run) \cup {id} /\ Rows(run) \subseteq RunId
  <2>1. run'[id] # NoRow
    BY <1>3, RowTypes
  <2> QED
    BY <1>3, <2>1 DEF Rows, TypeInv, TypeOK
<1>5. \A i \in Rows(run) : run'[i] = run[i] /\ run[i].dev \in DeviceId
  BY <1>1, <1>3, <1>4 DEF Rows, TypeInv, TypeOK, RunRow
<1>6. EnsureStates[d] \in StateRow /\ EnsureStates \in [DeviceId -> StateRow \cup {NoRow}]
  BY EnsureStatesType DEF Attempts, TypeInv
<1> DEFINE row == [EnsureStates[d] EXCEPT !.status = "running", !.age = 0]
<1>7. row \in StateRow /\ row.status = "running"
  <2>1. 0 \in 0..MaxWait /\ "running" \in Status
    BY SizeAssumption DEF Status
  <2> QED
    BY <1>6, <2>1 DEF StateRow
<1>8. /\ state'[d] = row /\ DOMAIN state' = DeviceId
      /\ \A e \in DeviceId \ {d} : state'[e] = EnsureStates[e]
  <2>1. state' = [EnsureStates EXCEPT ![d] = row]
    BY <1>6 DEF Attempts
  <2> HIDE DEF row
  <2> QED
    BY <1>6, <2>1
<1> HIDE DEF row
<1>9. state'[d] # NoRow /\ state'[d].status = "running"
  BY <1>7, <1>8, RowTypes
<1>10. \A e \in DeviceId :
          /\ state[e] # NoRow => state'[e] # NoRow
          /\ e # d /\ state[e] # NoRow => state'[e] = state[e]
          /\ e # d /\ state'[e] # NoRow /\ state'[e].status = "running" =>
                state[e] # NoRow /\ state[e].status = "running"
  BY <1>8, <1>9, EnsureStatesKeeps
<1>11. run'[id].dev = d /\ run'[id].status = "running" /\ run'[id].age = 0
  BY <1>3
<1> HIDE DEF new
<1> QED
  BY <1>1, <1>2, <1>3, <1>11, <1>4, <1>5, <1>8, <1>9, <1>10

LEMMA OwnRecordAttempt ==
    ASSUME TypeInv, OwnInv, NEW r \in Runner, RecordAttempt(r) PROVE OwnInv'
<1> DEFINE d == job[r].dev
<1>0. /\ UNCHANGED <<mode, budget>> /\ SpentOnly' /\ job[r].pc = "start" /\ d \in DeviceId
      /\ job \in [Runner -> Job] /\ ~Recording(r)
  BY DEF RecordAttempt, OwnInv, SpentOnly, TypeInv, TypeOK, JobSound, Recording
<1>1. CASE job' = [job EXCEPT ![r].pc = "release"] /\ UNCHANGED <<state, run>>
  <2>1. \A q \in Runner : /\ Recording(q)' <=> Recording(q)
                          /\ Recording(q) => job'[q] = job[q]
    BY <1>0, <1>1 DEF Recording, Job
  <2> QED
    BY <1>0, <1>1, <2>1, OwnFrame DEF Undisturbed, TypeInv, TypeOK
<1>2. ASSUME NEW id \in RunId, Attempts(r, d, id) PROVE OwnInv'
  <2>1. /\ run[id] = NoRow
        /\ job'[r].pc = "fetch" /\ job'[r].run = id /\ job'[r].dev = d
        /\ \A q \in Runner \ {r} : job'[q] = job[q]
        /\ run'[id].dev = d /\ run'[id].age = 0
        /\ \A i \in RunId \ {id} : run'[i] = run[i]
        /\ run'[id] # NoRow /\ Rows(run)' = Rows(run) \cup {id} /\ Rows(run) \subseteq RunId
        /\ \A i \in Rows(run) : run'[i] = run[i] /\ run[i].dev \in DeviceId
        /\ state'[d] # NoRow /\ DOMAIN state' = DeviceId
    BY <1>0, <1>2, AttemptEffect
  <2>2. \A e \in DeviceId : /\ state[e] # NoRow => state'[e] # NoRow
                            /\ e # d /\ state'[e] # NoRow /\ state'[e].status = "running" =>
                                  state[e] # NoRow /\ state[e].status = "running"
    BY <1>0, <1>2, AttemptEffect
  <2>3. RunsHaveState'
    BY <2>1, <2>2 DEF OwnInv, RunsHaveState
  <2>4. RunsAreYoung'
    <3>1. run'[id].age < Retention
      BY <2>1, TimeAssumption
    <3> QED
      BY <2>1, <3>1 DEF OwnInv, RunsAreYoung, Recording, TypeInv, JobSound
  <2>5. Owns(r, id)'
    BY <2>1 DEF Owns, Recording
  <2>6. ASSUME NEW q \in Runner, NEW i, Owns(q, i) PROVE Owns(q, i)' /\ job'[q] = job[q]
    <3>1. q # r /\ i # id /\ i \in RunId
      BY <1>0, <2>1, <2>6 DEF Owns, TypeInv, JobSound
    <3> QED
      BY <2>1, <2>6, <3>1 DEF Owns, Recording
  <2>7. ASSUME RowsOwned PROVE RowsOwned'
    <3>1. ASSUME NEW e \in Rows(state)', state'[e].status = "running"
          PROVE  \E q \in Runner : Owns(q, job[q].run)' /\ job'[q].dev = e
      <4>1. CASE e = d
        BY <2>1, <2>5, <4>1
      <4>2. CASE e # d
        <5>1. e \in Rows(state) /\ state[e].status = "running"
          BY <2>1, <2>2, <3>1, <4>2 DEF Rows, TypeInv, TypeOK
        <5> QED
          BY <2>6, <2>7, <5>1 DEF RowsOwned
      <4> QED
        BY <4>1, <4>2
    <3>2. ASSUME NEW i \in Rows(run)', run'[i].status = "running"
          PROVE  \E q \in Runner : Owns(q, i)'
      <4>1. CASE i = id
        BY <2>5, <4>1
      <4>2. CASE i # id
        <5>1. i \in Rows(run) /\ run[i].status = "running"
          BY <2>1, <3>2, <4>2
        <5> QED
          BY <2>6, <2>7, <5>1 DEF RowsOwned
      <4> QED
        BY <4>1, <4>2
    <3> QED
      BY <3>1, <3>2 DEF RowsOwned
  <2> QED
    BY <1>0, <2>3, <2>4, <2>7 DEF OwnInv, Undisturbed
<1>3. \/ job' = [job EXCEPT ![r].pc = "release"] /\ UNCHANGED <<state, run>>
      \/ \E id \in RunId : Attempts(r, d, id)
  BY DEF RecordAttempt, Attempts
<1> QED
  BY <1>1, <1>2, <1>3

\* The outcome in the run and in its device's row, when both are there.
LEMMA OutcomeEffect ==
    ASSUME TypeInv, NEW r \in Runner, NEW d \in DeviceId, NEW id \in RunId,
           d = job[r].dev, id = job[r].run, RecordOutcome(r),
           run[id] # NoRow, state[d] # NoRow
    PROVE  /\ DOMAIN run' = RunId /\ DOMAIN state' = DeviceId
           /\ Outcome(r) # "running"
           /\ run'[id] # NoRow /\ run'[id].status = Outcome(r)
           /\ run'[id].dev = run[id].dev /\ run'[id].age = run[id].age
           /\ \A i \in RunId \ {id} : run'[i] = run[i]
           /\ state'[d] # NoRow /\ state'[d].status = Outcome(r)
           /\ \A e \in DeviceId \ {d} : state'[e] = state[e]
<1> DEFINE row == [run[id] EXCEPT !.status = Outcome(r)]
           device_row == Concluded(state[d], job[r].ok)
<1>1. /\ run' = [run EXCEPT ![id] = row] /\ run[id] \in RunRow
      /\ state' = [state EXCEPT ![d] = device_row] /\ state[d] \in StateRow
  BY DEF RecordOutcome, TypeInv, TypeOK
<1>2. Outcome(r) \in Status \ {"running"}
  BY DEF Outcome, Status
<1>3. row \in RunRow /\ row.status = Outcome(r) /\ row.dev = run[id].dev /\ row.age = run[id].age
  BY <1>1, <1>2 DEF RunRow
<1>4. device_row \in StateRow /\ device_row.status = Outcome(r)
  <2>1. 0 \in 0..StaleAfter
    BY TimeAssumption
  <2>2. /\ [state[d] EXCEPT !.status = "success", !.good = 0] \in StateRow
        /\ [state[d] EXCEPT !.status = "failed"] \in StateRow
        /\ [state[d] EXCEPT !.status = "success", !.good = 0].status = "success"
        /\ [state[d] EXCEPT !.status = "failed"].status = "failed"
    BY <1>1, <2>1 DEF StateRow, Status
  <2> QED
    BY <2>2 DEF Concluded, Outcome
<1> HIDE DEF row, device_row
<1>5. /\ run'[id] = row /\ \A i \in RunId \ {id} : run'[i] = run[i]
      /\ state'[d] = device_row /\ \A e \in DeviceId \ {d} : state'[e] = state[e]
      /\ DOMAIN run' = RunId /\ DOMAIN state' = DeviceId
  BY <1>1 DEF TypeInv, TypeOK
<1> QED
  BY <1>2, <1>3, <1>4, <1>5, RowTypes

\* The outcome is written into both rows: if the run is the runner's own,
\* its device has a state row, so neither stays behind as "running".
LEMMA OwnRecordOutcome ==
    ASSUME TypeInv, OwnInv, NEW r \in Runner, RecordOutcome(r) PROVE OwnInv'
<1> DEFINE d == job[r].dev
           id == job[r].run
           found == run[id] # NoRow /\ state[d] # NoRow
<1>0. /\ UNCHANGED <<mode, budget>> /\ SpentOnly' /\ Recording(r)
      /\ d \in DeviceId /\ id \in RunId
      /\ job \in [Runner -> Job]
  BY DEF RecordOutcome, OwnInv, SpentOnly, TypeInv, TypeOK, JobSound, Recording
<1>1. /\ job'[r].pc = "release" /\ ~Recording(r)'
      /\ \A q \in Runner \ {r} : job'[q] = job[q]
  BY <1>0 DEF RecordOutcome, Recording, Job
<1>2. /\ \A i \in RunId : /\ run'[i] = NoRow <=> run[i] = NoRow
                          /\ run[i] # NoRow => run'[i].dev = run[i].dev
                                               /\ run'[i].age = run[i].age
                                               /\ run[i].dev \in DeviceId
                          /\ i # id => run'[i] = run[i]
                          /\ IF found THEN run'[id].status # "running" ELSE run' = run
      /\ DOMAIN run' = RunId /\ DOMAIN run = RunId
  <2>1. DOMAIN run = RunId /\ \A i \in RunId : run[i] # NoRow => run[i].dev \in DeviceId
    BY DEF TypeInv, TypeOK, RunRow
  <2>2. CASE found
    BY <1>0, <2>1, <2>2, OutcomeEffect
  <2>3. CASE ~found
    BY <2>1, <2>3 DEF RecordOutcome
  <2> QED
    BY <2>2, <2>3
<1>3. /\ \A e \in DeviceId : /\ state'[e] = NoRow <=> state[e] = NoRow
                             /\ e # d => state'[e] = state[e]
                             /\ IF found THEN state'[d].status # "running" ELSE state' = state
      /\ DOMAIN state' = DeviceId /\ DOMAIN state = DeviceId
  <2>1. DOMAIN state = DeviceId
    BY DEF TypeInv, TypeOK
  <2>2. CASE found
    BY <1>0, <2>1, <2>2, OutcomeEffect
  <2>3. CASE ~found
    BY <2>1, <2>3 DEF RecordOutcome
  <2> QED
    BY <2>2, <2>3
<1> HIDE DEF found
<1>4. Rows(run)' = Rows(run) /\ Rows(run) \subseteq RunId /\ Rows(state)' = Rows(state)
      /\ Rows(state) \subseteq DeviceId
  BY <1>2, <1>3 DEF Rows
<1>5. RunsHaveState'
  BY <1>2, <1>3, <1>4 DEF OwnInv, RunsHaveState, Rows
<1>6. RunsAreYoung'
  BY <1>1, <1>2 DEF OwnInv, RunsAreYoung, Recording, TypeInv, JobSound
<1>7. ASSUME NEW q \in Runner \ {r}, NEW i, Owns(q, i) PROVE Owns(q, i)'
  <2>1. i \in RunId
    BY <1>7 DEF Owns, TypeInv, JobSound
  <2> QED
    BY <1>1, <1>2, <1>7, <2>1 DEF Owns, Recording
<1>8. ASSUME NEW i, Owns(r, i) PROVE found /\ i = id
  BY <1>4, <1>8 DEF Owns, OwnInv, RunsHaveState, found, Rows, TypeInv, TypeOK, JobSound
<1>9. ASSUME RowsOwned PROVE RowsOwned'
  <2>1. ASSUME NEW e \in Rows(state)', state'[e].status = "running"
        PROVE  \E q \in Runner : Owns(q, job[q].run)' /\ job'[q].dev = e
    <3>1. e \in Rows(state) /\ state[e].status = "running"
      BY <1>3, <1>4, <2>1 DEF Rows
    <3>2. PICK q \in Runner : Owns(q, job[q].run) /\ job[q].dev = e
      BY <1>9, <3>1 DEF RowsOwned
    <3>3. q # r
      <4> SUFFICES ASSUME q = r PROVE FALSE
        OBVIOUS
      <4>1. found /\ e = d
        BY <1>8, <3>2
      <4> QED
        BY <1>0, <1>3, <2>1, <4>1
    <3> QED
      BY <1>1, <1>7, <3>2, <3>3
  <2>2. ASSUME NEW i \in Rows(run)', run'[i].status = "running"
        PROVE  \E q \in Runner : Owns(q, i)'
    <3>1. i \in Rows(run) /\ run[i].status = "running"
      BY <1>2, <1>4, <2>2
    <3>2. PICK q \in Runner : Owns(q, i)
      BY <1>9, <3>1 DEF RowsOwned
    <3>3. q # r
      <4> SUFFICES ASSUME q = r PROVE FALSE
        OBVIOUS
      <4>1. found /\ i = id
        BY <1>8, <3>2
      <4> QED
        BY <1>0, <1>2, <2>2, <4>1
    <3> QED
      BY <1>7, <3>2, <3>3
  <2> QED
    BY <2>1, <2>2 DEF RowsOwned
<1> QED
  BY <1>0, <1>5, <1>6, <1>9 DEF OwnInv, Undisturbed

\* The other steps of run() and of the shells: DbError and a kill spend what
\* Undisturbed counts.
LEMMA OwnRun ==
    ASSUME TypeInv, OwnInv, NEW r \in Runner, Run(r) PROVE OwnInv'
<1>0. SpentOnly' /\ (Undisturbed' => Undisturbed /\ ~Spend("dbError"))
  BY Spending
     DEF OwnInv, Run, RecordAttempt, Fetch, RecordOutcome, DbError, Release, Events
<1>1. job \in [Runner -> Job]
  BY DEF TypeInv, TypeOK
<1>2. CASE Fetch(r)
  <2>1. UNCHANGED <<state, run, mode>> /\ job[r].pc = "fetch"
    BY <1>2 DEF Fetch, tables
  <2>2. PICK ok \in BOOLEAN : job' = [job EXCEPT ![r].pc = "record", ![r].ok = ok]
    BY <1>2 DEF Fetch
  <2>3. \A q \in Runner : /\ Recording(q)' <=> Recording(q)
                          /\ job'[q].run = job[q].run /\ job'[q].dev = job[q].dev
    BY <1>1, <2>1, <2>2 DEF Recording, Job
  <2> QED
    BY <1>0, <2>1, <2>3, OwnFrame DEF TypeInv, TypeOK
<1>3. CASE DbError(r)
  <2>1. /\ UNCHANGED <<state, run>> /\ ~Undisturbed'
        /\ job' = [job EXCEPT ![r].pc = "release"]
    BY <1>0, <1>3 DEF DbError, tables
  <2>2. \A q \in Runner : Recording(q)' => Recording(q) /\ job'[q] = job[q]
    BY <1>1, <2>1 DEF Recording, Job
  <2>3. RunsHaveState' /\ RunsAreYoung'
    BY <2>1, <2>2 DEF OwnInv, RunsHaveState, RunsAreYoung, Rows
  <2> QED
    BY <1>0, <2>1, <2>3 DEF OwnInv
<1>4. CASE Release(r)
  <2>1. /\ UNCHANGED <<state, run, mode>> /\ job' = [job EXCEPT ![r] = IdleJob]
        /\ job[r].pc = "release"
    BY <1>4 DEF Release, tables
  <2>2. \A q \in Runner : /\ Recording(q)' <=> Recording(q)
                          /\ Recording(q) => job'[q] = job[q]
    BY <1>1, <2>1 DEF Recording, IdleJob
  <2> QED
    BY <1>0, <2>1, <2>2, OwnFrame DEF TypeInv, TypeOK
<1> QED
  BY <1>2, <1>3, <1>4, OwnRecordAttempt, OwnRecordOutcome DEF Run

\* Steps that take an idle runner to work.
LEMMA OwnBegin ==
    ASSUME TypeInv, OwnInv, NEW r \in Runner, SpentOnly', Undisturbed' => Undisturbed,
           job[r].pc = "idle", job'[r].pc = "start", UNCHANGED <<state, run, mode>>,
           \A q \in Runner \ {r} : job'[q] = job[q]
    PROVE  OwnInv'
<1>1. \A q \in Runner : /\ Recording(q)' <=> Recording(q)
                        /\ Recording(q) => job'[q] = job[q]
  BY DEF Recording
<1> QED
  BY <1>1, OwnFrame DEF TypeInv, TypeOK

LEMMA OwnRequest ==
    ASSUME TypeInv, OwnInv, Request PROVE OwnInv'
<1>0. SpentOnly' /\ (Undisturbed' => Undisturbed) /\ job' = job /\ mode' = mode
  BY Spending
     DEF OwnInv, Request, CreateDevice, ReadStates, UpdateDevice, DeleteDevice, UpdateSettings,
         RunNow, Events
<1>1. \A r \in Runner : Recording(r)' <=> Recording(r)
  BY <1>0 DEF Recording
<1>2. CASE CreateDevice \/ \E d \in DeviceId : UpdateDevice(d)
  <2>1. UNCHANGED <<state, run>>
    BY <1>2 DEF CreateDevice, UpdateDevice
  <2> QED
    BY <1>0, <1>1, <2>1, OwnFrame DEF TypeInv, TypeOK
<1>3. CASE ReadStates \/ \E d \in DeviceId : RunNow(d)
  <2>1. state' = EnsureStates /\ UNCHANGED run
    BY <1>3 DEF ReadStates, RunNow
  <2> QED
    BY <1>0, <1>1, <2>1, EnsureStatesKeeps, OwnFrame
<1>4. ASSUME NEW d \in DeviceId, UpdateSettings(d) PROVE OwnInv'
  <2>1. PICK f \in Freq, e \in BOOLEAN :
            state' = [EnsureStates EXCEPT ![d].freq = f, ![d].enabled = e]
    BY <1>4 DEF UpdateSettings
  <2>2. /\ EnsureStates[d] \in StateRow
        /\ EnsureStates \in [DeviceId -> StateRow \cup {NoRow}]
    BY <1>4, EnsureStatesType DEF UpdateSettings, TypeInv
  <2>3. state' = [EnsureStates EXCEPT ![d] = [EnsureStates[d] EXCEPT !.freq = f, !.enabled = e]]
    BY <2>1, <2>2
  <2>4. /\ [EnsureStates[d] EXCEPT !.freq = f, !.enabled = e] \in StateRow
        /\ [EnsureStates[d] EXCEPT !.freq = f, !.enabled = e].status = EnsureStates[d].status
    BY <2>1, <2>2 DEF StateRow
  <2>5. /\ DOMAIN state' = DeviceId
        /\ state'[d] # NoRow /\ state'[d].status = EnsureStates[d].status
        /\ EnsureStates[d] # NoRow
        /\ \A c \in DeviceId \ {d} : state'[c] = EnsureStates[c]
    BY <2>2, <2>3, <2>4, RowTypes
  <2>6. \A c \in DeviceId :
            /\ state[c] # NoRow => state'[c] # NoRow
            /\ state'[c] # NoRow /\ state'[c].status = "running" =>
                  state[c] # NoRow /\ state[c].status = "running"
    BY <2>5, EnsureStatesKeeps
  <2>7. run' = run
    BY <1>4 DEF UpdateSettings
  <2> QED
    BY <1>0, <1>1, <2>5, <2>6, <2>7, OwnFrame
<1>5. ASSUME NEW d \in DeviceId, DeleteDevice(d) PROVE OwnInv'
  <2>1. /\ state' = [state EXCEPT ![d] = NoRow]
        /\ run' = [id \in RunId |-> IF run[id] # NoRow /\ run[id].dev = d THEN NoRow ELSE run[id]]
    BY <1>5 DEF DeleteDevice
  <2>2. /\ \A id \in Rows(run)' : id \in Rows(run) /\ run'[id] = run[id] /\ run[id].dev # d
        /\ \A id \in RunId : run[id] # NoRow /\ run[id].dev # d => run'[id] = run[id]
        /\ \A e \in Rows(state)' : e \in Rows(state) /\ state'[e] = state[e] /\ e # d
        /\ \A id \in Rows(run) : run[id].dev \in DeviceId
        /\ \A e \in DeviceId : e # d => state'[e] = state[e]
    BY <2>1 DEF Rows, TypeInv, TypeOK, RunRow
  <2>3. RunsHaveState'
    BY <2>2 DEF OwnInv, RunsHaveState
  <2>4. \A id \in RunId : run'[id] # NoRow => run'[id] = run[id]
    BY <2>1
  <2>5. RunsAreYoung'
    BY <1>0, <2>4 DEF OwnInv, RunsAreYoung, TypeInv, JobSound, Recording
  <2>6. ASSUME NEW r \in Runner, NEW id, Owns(r, id), job[r].dev # d PROVE Owns(r, id)'
    <3>1. id \in RunId /\ run'[id] = run[id]
      BY <2>2, <2>6 DEF Owns, TypeInv, JobSound
    <3> QED
      BY <1>0, <2>6, <3>1 DEF Owns, Recording
  <2>7. ASSUME RowsOwned PROVE RowsOwned'
    <3>1. ASSUME NEW e \in Rows(state)', state'[e].status = "running"
          PROVE  \E q \in Runner : Owns(q, job[q].run)' /\ job'[q].dev = e
      BY <1>0, <2>2, <2>6, <2>7, <3>1 DEF RowsOwned
    <3>2. ASSUME NEW i \in Rows(run)', run'[i].status = "running"
          PROVE  \E q \in Runner : Owns(q, i)'
      <4>1. i \in Rows(run) /\ run[i].status = "running" /\ run[i].dev # d
        BY <2>2, <3>2
      <4>2. PICK q \in Runner : Owns(q, i)
        BY <2>7, <4>1 DEF RowsOwned
      <4>3. job[q].dev # d
        BY <4>1, <4>2 DEF Owns
      <4> QED
        BY <2>6, <4>2, <4>3
    <3> QED
      BY <3>1, <3>2 DEF RowsOwned
  <2> QED
    BY <1>0, <2>3, <2>5, <2>7 DEF OwnInv
<1> QED
  BY <1>2, <1>3, <1>4, <1>5 DEF Request

LEMMA OwnTimePasses ==
    ASSUME TypeInv, OwnInv, TimePasses PROVE OwnInv'
<1>1. /\ UNCHANGED <<mode, job, budget>>
      /\ state' = [d \in DeviceId |-> IF state[d] = NoRow THEN NoRow ELSE OlderState(state[d])]
      /\ run' = [id \in RunId |-> IF run[id] = NoRow THEN NoRow ELSE Older(run[id])]
  BY DEF TimePasses
<1>2. \A row \in StateRow : OlderState(row).status = row.status
  BY DEF StateRow, OlderState
<1>3. \A row \in RunRow : /\ Older(row).status = row.status /\ Older(row).dev = row.dev
                          /\ Older(row).age <= row.age + 1 /\ Older(row).age \in Nat
                          /\ row.age \in Nat
  BY TimeAssumption DEF RunRow, Older, NextAge
<1>4. \A d \in DeviceId : /\ state'[d] = NoRow <=> state[d] = NoRow
                          /\ state[d] # NoRow => state'[d].status = state[d].status
  BY <1>1, <1>2, RowTypes DEF TypeInv, TypeOK
<1>5. \A id \in RunId : /\ run'[id] = NoRow <=> run[id] = NoRow
                        /\ run[id] # NoRow => /\ run[id] \in RunRow
                                              /\ run'[id] = Older(run[id])
  BY <1>1, RowTypes DEF TypeInv, TypeOK
<1>6. /\ Rows(run)' = Rows(run) /\ Rows(run) \subseteq RunId /\ Rows(state)' = Rows(state)
      /\ Rows(state) \subseteq DeviceId
      /\ \A id \in Rows(run) : run[id].dev \in DeviceId
  BY <1>1, <1>4, <1>5 DEF Rows, TypeInv, TypeOK, RunRow
<1>7. RunsHaveState'
  BY <1>3, <1>4, <1>5, <1>6 DEF OwnInv, RunsHaveState, Rows
<1>8. RunsAreYoung'
  <2> SUFFICES ASSUME NEW r \in Runner, Recording(r)', run'[job'[r].run] # NoRow
               PROVE  run'[job'[r].run].age < Retention
    BY DEF RunsAreYoung
  <2> DEFINE id == job[r].run
  <2>1. id \in RunId /\ job[r].pc \in {"fetch", "record"} /\ job' = job
    BY <1>1 DEF TypeInv, JobSound, Recording
  <2>2. run[id] # NoRow /\ run[id] \in RunRow /\ run'[id] = Older(run[id])
    BY <1>5, <2>1
  <2>3. run[id].age + 1 < Retention
    BY <2>1, <2>2 DEF TimePasses
  <2> QED
    BY <1>3, <2>1, <2>2, <2>3, TimeAssumption
<1>9. \A r \in Runner, id \in RunId : Owns(r, id) => Owns(r, id)'
  BY <1>1, <1>3, <1>5 DEF Owns, Recording
<1>10. RowsOwned => RowsOwned'
  <2> SUFFICES ASSUME RowsOwned PROVE RowsOwned'
    OBVIOUS
  <2>1. ASSUME NEW e \in Rows(state)', state'[e].status = "running"
        PROVE  \E q \in Runner : Owns(q, job[q].run)' /\ job'[q].dev = e
    <3>1. e \in Rows(state) /\ state[e].status = "running"
      BY <1>4, <1>6, <2>1 DEF Rows
    <3>2. PICK q \in Runner : Owns(q, job[q].run) /\ job[q].dev = e
      BY <3>1 DEF RowsOwned
    <3>3. job[q].run \in RunId
      BY <3>2 DEF Owns, TypeInv, JobSound
    <3> QED
      BY <1>1, <1>9, <3>2, <3>3
  <2>2. ASSUME NEW i \in Rows(run)', run'[i].status = "running"
        PROVE  \E q \in Runner : Owns(q, i)'
    <3>1. i \in Rows(run) /\ i \in RunId /\ run[i].status = "running"
      BY <1>3, <1>5, <1>6, <2>2 DEF Rows
    <3> QED
      BY <1>9, <3>1 DEF RowsOwned
  <2> QED
    BY <2>1, <2>2 DEF RowsOwned
<1> QED
  BY <1>1, <1>7, <1>8, <1>10 DEF OwnInv, SpentOnly, Undisturbed

LEMMA OwnStep == TypeInv /\ OwnInv /\ [Next]_vars => OwnInv'
<1> SUFFICES ASSUME TypeInv, OwnInv, [Next]_vars PROVE OwnInv'
  OBVIOUS
<1>1. ASSUME NEW w \in Worker, TakeJob(w) PROVE OwnInv'
  <2>1. /\ job' = [job EXCEPT ![w] = [IdleJob EXCEPT !.pc = "start", !.dev = Head(queue)]]
        /\ job[w].pc = "idle" /\ UNCHANGED <<state, run, mode>>
    BY <1>1 DEF TakeJob, tables
  <2>2. w \in Runner /\ job'[w].pc = "start" /\ \A q \in Runner \ {w} : job'[q] = job[q]
    BY <2>1 DEF TypeInv, TypeOK, Runner, IdleJob
  <2>3. SpentOnly' /\ (Undisturbed' => Undisturbed)
    BY <1>1, Spending DEF TakeJob, OwnInv
  <2> QED
    BY <2>1, <2>2, <2>3, OwnBegin
<1>2. ASSUME NEW c \in Shell, ShellStart(c) PROVE OwnInv'
  <2>1. PICK d \in Rows(device) :
            job' = [job EXCEPT ![c] = [IdleJob EXCEPT !.pc = "start", !.dev = d]]
    BY <1>2 DEF ShellStart
  <2>2. c \in Runner /\ job'[c].pc = "start" /\ \A q \in Runner \ {c} : job'[q] = job[q]
    BY <2>1 DEF TypeInv, TypeOK, Runner, IdleJob
  <2>3. job[c].pc = "idle" /\ UNCHANGED <<state, run, mode>>
    BY <1>2 DEF ShellStart, tables
  <2>4. SpentOnly' /\ (Undisturbed' => Undisturbed)
    BY <1>2, Spending DEF ShellStart, OwnInv, Events
  <2> QED
    BY <2>2, <2>3, <2>4, OwnBegin
<1>3. ASSUME NEW c \in Shell, ShellKilled(c) PROVE OwnInv'
  <2>1. /\ UNCHANGED <<state, run>> /\ Spend("kill") /\ job' = [job EXCEPT ![c] = IdleJob]
    BY <1>3 DEF ShellKilled, tables
  <2>2. SpentOnly' /\ ~Undisturbed'
    BY <2>1, Spending DEF OwnInv, Events
  <2>3. \A q \in Runner : Recording(q)' => Recording(q) /\ job'[q] = job[q]
    BY <2>1 DEF Recording, IdleJob, TypeInv, TypeOK
  <2>4. RunsHaveState' /\ RunsAreYoung'
    BY <2>1, <2>3 DEF OwnInv, RunsHaveState, RunsAreYoung, Rows
  <2> QED
    BY <2>2, <2>4 DEF OwnInv
<1>4. CASE UNCHANGED vars
  BY <1>4 DEF vars, OwnInv, RunsHaveState, RunsAreYoung, SpentOnly, RowsOwned, Undisturbed,
              Rows, Owns, Recording
<1> QED
  BY <1>1, <1>2, <1>3, <1>4, OwnServer, OwnScheduler, OwnRun, OwnRequest, OwnTimePasses DEF Next

LEMMA OwnInit == Init => OwnInv
<1> SUFFICES ASSUME Init PROVE OwnInv
  OBVIOUS
<1>1. Rows(run) = {} /\ Rows(state) = {} /\ \A r \in Runner : ~Recording(r)
  BY DEF Init, Rows, Recording, IdleJob
<1> QED
  BY <1>1, BudgetAssumption DEF Init, OwnInv, RunsHaveState, RunsAreYoung, SpentOnly, RowsOwned

\* While the server is up and no transaction has failed and no shell was killed,
\* whatever is shown as running is being backed up by a thread or a shell: for
\* any number of devices, threads and shells, through deleted devices, rows
\* under their freed ids, pruning, stops and crashes.
THEOREM RunningIsOwnedAlways == Spec => []RunningIsOwned
<1>1. Init => TypeInv /\ OwnInv
  BY TypeInit, OwnInit
<1>2. TypeInv /\ OwnInv /\ [Next]_vars => (TypeInv /\ OwnInv)'
  BY TypeStep, OwnStep
<1>3. OwnInv => RunningIsOwned
  BY DEF OwnInv, RowsOwned, Owns, RunningIsOwned
<1> QED
  BY <1>1, <1>2, <1>3, PTL DEF Spec

-----------------------------------------------------------------------------
(* The history as it is shown                                              *)

\* The server is alone: nobody has started a shell, and none is at work.
ServerOnly == Alone /\ \A c \in Shell : job[c].pc = "idle"

IsNewest(id) == \A other \in Rows(run) : run[other].dev = run[id].dev => other <= id

\* Ages fall as ids rise, so pruning takes a device's oldest runs first.
AgesFall == \A i, j \in Rows(run) : i < j => run[j].age <= run[i].age

\* A backup under way has the newest run of its device, still shown as running.
HoldsNewest ==
    \A w \in Worker : Recording(w) =>
        /\ Owns(w, job[w].run) /\ run[job[w].run].status = "running"
        /\ IsNewest(job[w].run)

\* What LatestRunShown says while the server is alone.
NewestShown == \A id \in Rows(run) : IsNewest(id) => state[run[id].dev].status = run[id].status

NewestInv == AgesFall /\ HoldsNewest /\ NewestShown

\* The invariant: without a shell all of it, and no shell comes from nowhere.
HistoryInv ==
    /\ budget.shell <= Budget.shell /\ budget.delete <= Budget.delete
    /\ Alone => ServerOnly /\ NewestInv

\* One step of FinishedRunsStay.
OutcomesStay ==
    \A id \in Rows(run) :
        (run[id].status # "running" /\ run'[id] # NoRow) => run'[id].status = run[id].status

\* What is spent stays spent, and a server that is alone has been alone.
LEMMA NothingSpent ==
    ASSUME TypeInv, HistoryInv, UNCHANGED budget \/ \E what \in Events : Spend(what)
    PROVE  /\ budget'.shell <= Budget.shell /\ budget'.delete <= Budget.delete
           /\ Alone' => Alone /\ ~Spend("delete") /\ ~Spend("shell")
<1>1. budget \in [create : Nat, delete : Nat, edit : Nat, restart : Nat,
                  dbError : Nat, shell : Nat, kill : Nat]
  BY DEF TypeInv, TypeOK
<1>2. Budget.shell \in Nat /\ Budget.delete \in Nat
  BY BudgetAssumption
<1>3. CASE UNCHANGED budget
  BY <1>1, <1>2, <1>3 DEF HistoryInv, Alone, Spend
<1>4. ASSUME NEW what \in Events, Spend(what)
      PROVE  /\ budget'.shell <= budget.shell /\ budget'.delete <= budget.delete
             /\ budget'.shell \in Nat /\ budget'.delete \in Nat
  BY <1>1, <1>4 DEF Spend, Events
<1>5. Spend("shell") => budget'.shell < budget.shell
  BY <1>1 DEF Spend
<1>6. Spend("delete") => budget'.delete < budget.delete
  BY <1>1 DEF Spend
<1>7. CASE \E what \in Events : Spend(what)
  BY <1>1, <1>2, <1>4, <1>5, <1>6, <1>7 DEF HistoryInv, Alone
<1> QED
  BY <1>3, <1>7

\* Steps that write no run and no status.
LEMMA NewestFrame ==
    ASSUME TypeInv, OwnInv, NewestInv, UNCHANGED run,
           \A w \in Worker : Recording(w)' => /\ Recording(w)
                                              /\ job'[w].run = job[w].run
                                              /\ job'[w].dev = job[w].dev,
           \A d \in DeviceId : state[d] # NoRow => /\ state'[d] # NoRow
                                                   /\ state'[d].status = state[d].status
    PROVE  NewestInv' /\ OutcomesStay
<1>1. /\ Rows(run)' = Rows(run) /\ Rows(run) \subseteq RunId
      /\ \A id \in Rows(run) : run[id].dev \in DeviceId
  BY DEF Rows, TypeInv, TypeOK, RunRow
<1>2. AgesFall'
  BY <1>1 DEF NewestInv, AgesFall
<1>3. \A id : IsNewest(id)' <=> IsNewest(id)
  BY <1>1 DEF IsNewest
<1>4. HoldsNewest'
  BY <1>3 DEF NewestInv, HoldsNewest, Owns
<1>5. NewestShown'
  BY <1>1, <1>3 DEF NewestInv, NewestShown, OwnInv, RunsHaveState
<1> QED
  BY <1>2, <1>4, <1>5 DEF NewestInv, OutcomesStay

LEMMA NewestStart ==
    ASSUME TypeInv, GateInv, OwnInv, NewestInv, ServerOnly, Start
    PROVE  NewestInv' /\ OutcomesStay
<1>1. /\ state' = [d \in DeviceId |-> Interrupt(state[d])] /\ mode = "down"
      /\ run' = [id \in RunId |-> Interrupt(run[id])] /\ job' = job
  BY DEF Start, RecoverInterrupted
<1>2. \A r \in Runner : ~Recording(r)'
  BY <1>1 DEF ServerOnly, Runner, Recording, GateInv, DownIsEmpty, Busy
<1>3. ASSUME NEW id \in RunId, run[id] # NoRow
      PROVE  /\ run'[id] # NoRow /\ run'[id].dev = run[id].dev /\ run'[id].age = run[id].age
             /\ run[id].dev \in DeviceId
             /\ run'[id].status = IF run[id].status = "running" THEN "failed" ELSE run[id].status
  <2>1. run[id] \in RunRow /\ run'[id] = Interrupt(run[id])
    BY <1>1, <1>3 DEF TypeInv, TypeOK
  <2>2. Interrupt(run[id]) \in RunRow
    BY <2>1, RowTypes
  <2> QED
    BY <1>3, <2>1, <2>2, RowTypes DEF Interrupt, RunRow
<1>4. ASSUME NEW d \in DeviceId, state[d] # NoRow
      PROVE  /\ state'[d] # NoRow
             /\ state'[d].status = IF state[d].status = "running" THEN "failed"
                                   ELSE state[d].status
  <2>1. state[d] \in StateRow /\ state'[d] = Interrupt(state[d])
    BY <1>1, <1>4 DEF TypeInv, TypeOK
  <2>2. Interrupt(state[d]) \in StateRow
    BY <2>1, RowTypes
  <2> QED
    BY <1>4, <2>1, <2>2, RowTypes DEF Interrupt, StateRow
<1>5. Rows(run)' = Rows(run) /\ Rows(run) \subseteq RunId
  <2>1. \A id \in RunId : run[id] = NoRow => run'[id] = NoRow
    BY <1>1, RowTypes
  <2> QED
    BY <1>1, <1>3, <2>1 DEF Rows, TypeInv, TypeOK
<1>6. \A id \in Rows(run) : run[id] # NoRow /\ id \in RunId
  BY <1>5 DEF Rows
<1>7. AgesFall'
  BY <1>3, <1>5, <1>6 DEF NewestInv, AgesFall
<1>8. HoldsNewest'
  BY <1>2 DEF HoldsNewest, Runner
<1>9. NewestShown'
  <2> SUFFICES ASSUME NEW id \in Rows(run), IsNewest(id)'
               PROVE  state'[run'[id].dev].status = run'[id].status
    BY <1>5 DEF NewestShown, IsNewest
  <2>1. IsNewest(id)
    BY <1>3, <1>5, <1>6 DEF IsNewest
  <2>2. state[run[id].dev].status = run[id].status /\ state[run[id].dev] # NoRow
    BY <2>1 DEF NewestInv, NewestShown, OwnInv, RunsHaveState, IsNewest
  <2> QED
    BY <1>3, <1>4, <1>6, <2>2
<1>10. OutcomesStay
  BY <1>3, <1>6 DEF OutcomesStay
<1> QED
  BY <1>7, <1>8, <1>9, <1>10 DEF NewestInv

\* A run that is too old takes every older run of its device along, and none of
\* a backup under way.
LEMMA NewestPrune ==
    ASSUME TypeInv, OwnInv, NewestInv, Prune
    PROVE  NewestInv' /\ OutcomesStay
<1>1. /\ UNCHANGED <<state, job>>
      /\ run' = [id \in RunId |-> IF ~pruned /\ run[id] # NoRow /\ run[id].age >= Retention
                                  THEN NoRow ELSE run[id]]
  BY DEF Prune
<1>2. /\ \A id \in RunId : run'[id] # NoRow => run'[id] = run[id]
      /\ \A id \in Rows(run)' : id \in Rows(run) /\ run'[id] = run[id]
      /\ Rows(run) \subseteq RunId
  BY <1>1 DEF Rows, TypeInv, TypeOK
<1>3. \A id \in Rows(run) : run[id].age \in Nat
  BY DEF Rows, TypeInv, TypeOK, RunRow
<1>4. AgesFall'
  BY <1>2 DEF NewestInv, AgesFall
<1>5. \A id \in Rows(run) : run[id].age < Retention => id \in Rows(run)' /\ run'[id] = run[id]
  BY <1>1, <1>2, <1>3, TimeAssumption DEF Rows
<1>6. ASSUME NEW w \in Worker, Recording(w)'
      PROVE  Owns(w, job[w].run)' /\ run'[job[w].run].status = "running" /\ IsNewest(job[w].run)'
  <2>1. Recording(w) /\ w \in Runner /\ job' = job
    BY <1>1, <1>6 DEF Recording, Runner
  <2>2. /\ Owns(w, job[w].run) /\ run[job[w].run].status = "running" /\ IsNewest(job[w].run)
        /\ run[job[w].run].age < Retention /\ job[w].run \in Rows(run)
    BY <2>1 DEF NewestInv, HoldsNewest, OwnInv, RunsAreYoung, Owns, Rows, TypeInv, TypeOK, JobSound
  <2>3. run'[job[w].run] = run[job[w].run]
    BY <1>5, <2>2
  <2> QED
    BY <1>2, <1>6, <2>1, <2>2, <2>3 DEF Owns, IsNewest
<1>7. HoldsNewest'
  BY <1>1, <1>6 DEF HoldsNewest
<1>8. NewestShown'
  <2> SUFFICES ASSUME NEW id \in Rows(run)', IsNewest(id)'
               PROVE  state'[run'[id].dev].status = run'[id].status
    BY DEF NewestShown, IsNewest
  <2>1. id \in Rows(run) /\ run'[id] = run[id]
    BY <1>2
  <2>2. IsNewest(id)
    <3> SUFFICES ASSUME NEW other \in Rows(run), run[other].dev = run[id].dev, ~(other <= id)
                 PROVE  FALSE
      BY DEF IsNewest
    <3>1. other \in Nat /\ id \in Nat
      BY <1>2, <2>1, SizeAssumption DEF RunId
    <3>2. run[other].age <= run[id].age
      BY <2>1, <3>1 DEF NewestInv, AgesFall
    <3>3. other \in Rows(run)' /\ run'[other] = run[other]
      BY <1>1, <1>2, <1>3, <2>1, <3>2, TimeAssumption DEF Rows
    <3> QED
      BY <2>1, <3>3 DEF IsNewest
  <2> QED
    BY <1>1, <2>1, <2>2 DEF NewestInv, NewestShown, IsNewest
<1>9. OutcomesStay
  BY <1>2 DEF OutcomesStay
<1> QED
  BY <1>4, <1>7, <1>8, <1>9 DEF NewestInv

\* The new run is its device's newest, and the only one under way.
LEMMA NewestAttempt ==
    ASSUME TypeInv, GateInv, OwnInv, NewestInv,
           NEW w \in Worker, RecordAttempt(w)
    PROVE  NewestInv' /\ OutcomesStay
<1> DEFINE d == job[w].dev
<1>1. w \in Runner /\ job[w].pc = "start" /\ d \in DeviceId /\ job \in [Runner -> Job]
  BY DEF RecordAttempt, Runner, TypeInv, TypeOK, JobSound
<1>2. CASE job' = [job EXCEPT ![w].pc = "release"] /\ UNCHANGED <<state, run>>
  <2>1. \A v \in Worker : Recording(v)' => Recording(v) /\ job'[v] = job[v]
    BY <1>1, <1>2 DEF Recording, Job, Runner
  <2> QED
    BY <1>2, <2>1, NewestFrame
<1>3. ASSUME NEW id \in RunId, Attempts(w, d, id) PROVE NewestInv' /\ OutcomesStay
  <2> HIDE DEF d
  <2>1. /\ run[id] = NoRow /\ \A i \in Rows(run) : i < id
        /\ job'[w].pc = "fetch" /\ job'[w].run = id /\ job'[w].dev = d
        /\ \A q \in Runner \ {w} : job'[q] = job[q]
        /\ run'[id].dev = d /\ run'[id].status = "running" /\ run'[id].age = 0
        /\ run'[id] # NoRow /\ Rows(run)' = Rows(run) \cup {id} /\ Rows(run) \subseteq RunId
        /\ \A i \in Rows(run) : run'[i] = run[i] /\ run[i].dev \in DeviceId
    BY <1>1, <1>3, AttemptEffect
  <2>2. /\ state'[d] # NoRow /\ state'[d].status = "running"
        /\ \A e \in DeviceId : e # d /\ state[e] # NoRow => state'[e] = state[e]
    BY <1>1, <1>3, AttemptEffect
  <2>3. id \notin Rows(run) /\ id \in Int /\ \A i \in Rows(run) : i \in Int /\ run[i].age \in Nat
    BY <2>1, SizeAssumption DEF Rows, RunId, TypeInv, TypeOK, RunRow
  <2>4. AgesFall'
    BY <2>1, <2>3 DEF NewestInv, AgesFall
  <2>5. \A v \in Worker : Recording(v) => job[v].dev # d
    BY <1>1, <1>3 DEF d, Recording, GateInv, GateExact, Busy
  <2>6. \A i \in Rows(run) : IsNewest(i) /\ run[i].dev # d => IsNewest(i)'
    BY <2>1 DEF IsNewest
  <2>7. HoldsNewest'
    <3> SUFFICES ASSUME NEW v \in Worker, Recording(v)'
                 PROVE  /\ Owns(v, job[v].run)' /\ run'[job'[v].run].status = "running"
                        /\ IsNewest(job[v].run)'
      BY DEF HoldsNewest
    <3>1. CASE v = w
      BY <2>1, <2>3, <3>1 DEF Owns, Recording, IsNewest
    <3>2. CASE v # w
      <4>1. Recording(v) /\ job'[v] = job[v] /\ v \in Runner
        BY <2>1, <3>2 DEF Recording, Runner
      <4>2. /\ Owns(v, job[v].run) /\ run[job[v].run].status = "running"
            /\ IsNewest(job[v].run) /\ job[v].run \in Rows(run)
        BY <4>1 DEF NewestInv, HoldsNewest, Owns, Rows, TypeInv, TypeOK, JobSound
      <4>3. run[job[v].run].dev # d
        BY <2>5, <4>1, <4>2 DEF Owns
      <4> QED
        BY <2>1, <2>6, <4>1, <4>2, <4>3 DEF Owns, Recording
    <3> QED
      BY <3>1, <3>2
  <2>8. NewestShown'
    <3> SUFFICES ASSUME NEW i \in Rows(run)', IsNewest(i)'
                 PROVE  state'[run'[i].dev].status = run'[i].status
      BY DEF NewestShown, IsNewest
    <3>1. CASE i = id
      BY <2>1, <2>2, <3>1
    <3>2. CASE i # id
      <4>1. i \in Rows(run) /\ run'[i] = run[i] /\ IsNewest(i)
        BY <2>1, <3>2 DEF IsNewest
      <4>2. run[i].dev # d
        BY <2>1, <2>3, <4>1 DEF IsNewest
      <4>3. state[run[i].dev].status = run[i].status /\ state[run[i].dev] # NoRow
        BY <4>1 DEF NewestInv, NewestShown, OwnInv, RunsHaveState, IsNewest
      <4> QED
        BY <2>1, <2>2, <4>1, <4>2, <4>3
    <3> QED
      BY <3>1, <3>2
  <2>9. OutcomesStay
    BY <2>1 DEF OutcomesStay
  <2> QED
    BY <2>4, <2>7, <2>8, <2>9 DEF NewestInv
<1>4. \/ job' = [job EXCEPT ![w].pc = "release"] /\ UNCHANGED <<state, run>>
      \/ \E id \in RunId : Attempts(w, d, id)
  BY DEF RecordAttempt, Attempts
<1> QED
  BY <1>2, <1>3, <1>4

\* Only a run still shown as running is given an outcome, and its device's row
\* the same one.
LEMMA NewestOutcome ==
    ASSUME TypeInv, GateInv, OwnInv, NewestInv,
           NEW w \in Worker, RecordOutcome(w)
    PROVE  NewestInv' /\ OutcomesStay
<1> DEFINE d == job[w].dev
           id == job[w].run
<1>1. /\ w \in Runner /\ Recording(w) /\ d \in DeviceId /\ id \in RunId
      /\ job \in [Runner -> Job]
  BY DEF RecordOutcome, Runner, TypeInv, TypeOK, JobSound, Recording
<1>2. /\ ~Recording(w)' /\ \A q \in Runner \ {w} : job'[q] = job[q]
  BY <1>1 DEF RecordOutcome, Recording, Job
<1>3. /\ run[id] # NoRow /\ run[id].dev = d /\ run[id].status = "running"
      /\ IsNewest(id) /\ id \in Rows(run) /\ state[d] # NoRow
  BY <1>1 DEF NewestInv, HoldsNewest, Owns, OwnInv, RunsHaveState, Rows, TypeInv, TypeOK
<1>4. /\ DOMAIN run' = RunId
      /\ run'[id] # NoRow /\ run'[id].status = Outcome(w)
      /\ run'[id].dev = run[id].dev /\ run'[id].age = run[id].age
      /\ \A i \in RunId \ {id} : run'[i] = run[i]
      /\ state'[d].status = Outcome(w)
      /\ \A e \in DeviceId \ {d} : state'[e] = state[e]
  BY <1>1, <1>3, OutcomeEffect
<1> HIDE DEF d, id
<1>5. /\ Rows(run)' = Rows(run) /\ Rows(run) \subseteq RunId
      /\ \A i \in Rows(run) : /\ run'[i].dev = run[i].dev /\ run'[i].age = run[i].age
                              /\ run[i].dev \in DeviceId
  BY <1>1, <1>3, <1>4 DEF Rows, TypeInv, TypeOK, RunRow
<1>6. AgesFall'
  BY <1>5 DEF NewestInv, AgesFall
<1>7. \A i \in Rows(run) : IsNewest(i)' <=> IsNewest(i)
  BY <1>5 DEF IsNewest
<1>8. ASSUME NEW v \in Worker, Recording(v)'
      PROVE  Owns(v, job[v].run)' /\ run'[job'[v].run].status = "running" /\ IsNewest(job[v].run)'
  <2>1. v # w /\ v \in Runner
    BY <1>2, <1>8 DEF Runner
  <2>2. Recording(v) /\ job'[v] = job[v]
    BY <1>2, <1>8, <2>1 DEF Recording
  <2>3. /\ Owns(v, job[v].run) /\ run[job[v].run].status = "running"
        /\ IsNewest(job[v].run) /\ job[v].run \in Rows(run)
    BY <2>1, <2>2 DEF NewestInv, HoldsNewest, Owns, Rows, TypeInv, TypeOK, JobSound
  <2>4. job[v].dev # d
    BY <1>1, <2>1, <2>2 DEF d, Recording, GateInv, GateExact, Busy
  <2>5. job[v].run # id
    BY <1>3, <2>3, <2>4 DEF Owns
  <2>6. run'[job[v].run] = run[job[v].run]
    BY <1>4, <1>5, <2>3, <2>5
  <2> QED
    BY <1>7, <1>8, <2>2, <2>3, <2>6 DEF Owns
<1>9. HoldsNewest'
  BY <1>8 DEF HoldsNewest
<1>10. NewestShown'
  <2> SUFFICES ASSUME NEW i \in Rows(run), IsNewest(i)
               PROVE  state'[run'[i].dev].status = run'[i].status
    BY <1>5, <1>7 DEF NewestShown, IsNewest
  <2>1. CASE i = id
    BY <1>3, <1>4, <2>1
  <2>2. CASE i # id
    <3>1. run[i].dev # d
      <4>1. i \in Int /\ id \in Int
        BY <1>1, <1>5, SizeAssumption DEF RunId
      <4> QED
        BY <1>3, <2>2, <4>1 DEF IsNewest
    <3>2. state[run[i].dev].status = run[i].status
      BY DEF NewestInv, NewestShown, IsNewest
    <3> QED
      BY <1>4, <1>5, <2>2, <3>1, <3>2
  <2> QED
    BY <2>1, <2>2
<1>11. OutcomesStay
  BY <1>3, <1>4, <1>5 DEF OutcomesStay
<1> QED
  BY <1>6, <1>9, <1>10, <1>11 DEF NewestInv

LEMMA NewestTimePasses ==
    ASSUME TypeInv, OwnInv, NewestInv, TimePasses
    PROVE  NewestInv' /\ OutcomesStay
<1>1. /\ job' = job
      /\ state' = [d \in DeviceId |-> IF state[d] = NoRow THEN NoRow ELSE OlderState(state[d])]
      /\ run' = [id \in RunId |-> IF run[id] = NoRow THEN NoRow ELSE Older(run[id])]
  BY DEF TimePasses
<1>2. \A d \in DeviceId : state[d] # NoRow => state'[d].status = state[d].status
  <2>1. \A row \in StateRow : OlderState(row).status = row.status
    BY DEF StateRow, OlderState
  <2> QED
    BY <1>1, <2>1 DEF TypeInv, TypeOK
<1>3. \A row \in RunRow : /\ Older(row).status = row.status /\ Older(row).dev = row.dev
                          /\ Older(row).age = NextAge(row.age, Retention)
                          /\ row.age \in 0..Retention
                          /\ row.dev \in DeviceId
  BY DEF RunRow, Older
<1>4. \A a, b \in 0..Retention : a <= b => NextAge(a, Retention) <= NextAge(b, Retention)
  BY TimeAssumption DEF NextAge
<1>5. /\ Rows(run)' = Rows(run) /\ Rows(run) \subseteq RunId
      /\ \A id \in Rows(run) : run[id] \in RunRow /\ run'[id] = Older(run[id])
  BY <1>1, RowTypes DEF Rows, TypeInv, TypeOK
<1>6. AgesFall'
  BY <1>3, <1>4, <1>5 DEF NewestInv, AgesFall
<1>7. \A id \in Rows(run) : IsNewest(id)' <=> IsNewest(id)
  BY <1>3, <1>5 DEF IsNewest
<1>8. ASSUME NEW v \in Worker, Recording(v)'
      PROVE  Owns(v, job[v].run)' /\ run'[job'[v].run].status = "running" /\ IsNewest(job[v].run)'
  <2>1. Recording(v) /\ v \in Runner
    BY <1>1, <1>8 DEF Recording, Runner
  <2>2. /\ Owns(v, job[v].run) /\ run[job[v].run].status = "running"
        /\ IsNewest(job[v].run) /\ job[v].run \in Rows(run)
    BY <2>1 DEF NewestInv, HoldsNewest, Owns, Rows, TypeInv, TypeOK, JobSound
  <2>3. /\ run'[job[v].run].status = "running" /\ run'[job[v].run].dev = run[job[v].run].dev
        /\ run'[job[v].run] # NoRow
    BY <1>3, <1>5, <2>2 DEF Rows
  <2> QED
    BY <1>1, <1>7, <1>8, <2>2, <2>3 DEF Owns
<1>9. HoldsNewest'
  BY <1>8 DEF HoldsNewest
<1>10. NewestShown'
  <2> SUFFICES ASSUME NEW id \in Rows(run), IsNewest(id)
               PROVE  state'[run'[id].dev].status = run'[id].status
    BY <1>5, <1>7 DEF NewestShown, IsNewest
  <2>1. state[run[id].dev].status = run[id].status /\ state[run[id].dev] # NoRow
    BY DEF NewestInv, NewestShown, OwnInv, RunsHaveState, IsNewest
  <2> QED
    BY <1>2, <1>3, <1>5, <2>1
<1>11. OutcomesStay
  BY <1>3, <1>5 DEF OutcomesStay
<1> QED
  BY <1>6, <1>9, <1>10, <1>11 DEF NewestInv

LEMMA NewestRun ==
    ASSUME TypeInv, GateInv, OwnInv, NewestInv, NEW w \in Worker, Run(w)
    PROVE  NewestInv' /\ OutcomesStay
<1>1. w \in Runner /\ job \in [Runner -> Job] /\ \A v \in Worker : v \in Runner
  BY DEF Runner, TypeInv, TypeOK
<1>3. CASE Fetch(w)
  <2>1. UNCHANGED <<state, run>> /\ job[w].pc = "fetch"
    BY <1>3 DEF Fetch, tables
  <2>2. PICK ok \in BOOLEAN : job' = [job EXCEPT ![w].pc = "record", ![w].ok = ok]
    BY <1>3 DEF Fetch
  <2>3. \A v \in Worker : Recording(v)' => /\ Recording(v) /\ job'[v].run = job[v].run
                                           /\ job'[v].dev = job[v].dev
    BY <1>1, <2>1, <2>2 DEF Recording, Job
  <2> QED
    BY <2>1, <2>3, NewestFrame
<1>4. CASE DbError(w) \/ Release(w)
  <2>1. /\ UNCHANGED <<state, run>>
        /\ job' = [job EXCEPT ![w].pc = "release"] \/ job' = [job EXCEPT ![w] = IdleJob]
    BY <1>4 DEF DbError, Release, tables
  <2>2. \A v \in Worker : Recording(v)' => Recording(v) /\ job'[v] = job[v]
    BY <1>1, <2>1 DEF Recording, Job, IdleJob
  <2> QED
    BY <2>1, <2>2, NewestFrame
<1> QED
  BY <1>3, <1>4, NewestAttempt, NewestOutcome DEF Run

LEMMA NewestRequest ==
    ASSUME TypeInv, OwnInv, NewestInv, Request, ~Spend("delete")
    PROVE  NewestInv' /\ OutcomesStay
<1>1. job' = job
  BY DEF Request, CreateDevice, ReadStates, UpdateDevice, DeleteDevice, UpdateSettings, RunNow
<1>3. \A v \in Worker : Recording(v)' => Recording(v) /\ job'[v] = job[v]
  BY <1>1 DEF Recording
<1>4. CASE CreateDevice \/ \E d \in DeviceId : UpdateDevice(d)
  <2>1. UNCHANGED <<state, run>>
    BY <1>4 DEF CreateDevice, UpdateDevice
  <2> QED
    BY <1>3, <2>1, NewestFrame
<1>5. CASE ReadStates \/ \E d \in DeviceId : RunNow(d)
  <2>1. state' = EnsureStates /\ UNCHANGED run
    BY <1>5 DEF ReadStates, RunNow
  <2> QED
    BY <1>3, <2>1, EnsureStatesKeeps, NewestFrame
<1>6. ASSUME NEW d \in DeviceId, UpdateSettings(d) PROVE NewestInv' /\ OutcomesStay
  <2>1. PICK f \in Freq, e \in BOOLEAN :
            state' = [EnsureStates EXCEPT ![d].freq = f, ![d].enabled = e]
    BY <1>6 DEF UpdateSettings
  <2>2. /\ EnsureStates[d] \in StateRow /\ run' = run
        /\ EnsureStates \in [DeviceId -> StateRow \cup {NoRow}]
    BY <1>6, EnsureStatesType DEF UpdateSettings, TypeInv
  <2> DEFINE row == [EnsureStates[d] EXCEPT !.freq = f, !.enabled = e]
  <2>3. state' = [EnsureStates EXCEPT ![d] = row]
    BY <2>1, <2>2
  <2>4. row \in StateRow /\ row.status = EnsureStates[d].status
    BY <2>1, <2>2 DEF StateRow
  <2> HIDE DEF row
  <2>5. state'[d] = row /\ \A c \in DeviceId \ {d} : state'[c] = EnsureStates[c]
    BY <2>2, <2>3
  <2>6. \A c \in DeviceId : state[c] # NoRow => /\ state'[c] # NoRow
                                                /\ state'[c].status = state[c].status
    BY <2>4, <2>5, EnsureStatesKeeps, RowTypes
  <2> QED
    BY <1>3, <2>2, <2>6, NewestFrame
<1>7. \A d \in DeviceId : ~DeleteDevice(d)
  BY DEF DeleteDevice
<1> QED
  BY <1>4, <1>5, <1>6, <1>7 DEF Request

\* While it stays alone, whatever the server does.
LEMMA NewestStep ==
    ASSUME TypeInv, GateInv, OwnInv, NewestInv, ServerOnly, [Next]_vars,
           ~Spend("delete"), ~Spend("shell")
    PROVE  NewestInv' /\ OutcomesStay /\ \A c \in Shell : job'[c].pc = "idle"
<1>1. /\ job \in [Runner -> Job] /\ \A c \in Shell : job[c].pc = "idle" /\ c \in Runner
      /\ \A w \in Worker : w \in Runner /\ w \notin Shell
  BY ProcessAssumption DEF ServerOnly, Runner, TypeInv, TypeOK
<1>2. CASE Server
  <2>1. CASE Stop
    <3>1. UNCHANGED <<state, run, job>>
      BY <2>1 DEF Stop, tables
    <3> QED
      BY <1>1, <3>1, NewestFrame DEF Recording
  <2>2. CASE ProcessEnds
    <3>1. /\ UNCHANGED <<state, run>> /\ \A w \in Worker : ~Recording(w)'
          /\ \A c \in Shell : job'[c] = job[c]
      BY <1>1, <2>2 DEF ProcessEnds, tables, Recording, IdleJob
    <3> QED
      BY <1>1, <3>1, NewestFrame
  <2>3. CASE Start
    BY <1>1, <2>3, NewestStart DEF Start
  <2> QED
    BY <1>2, <2>1, <2>2, <2>3 DEF Server, Exit, Crash
<1>3. CASE Scheduler
  <2>1. UNCHANGED job
    BY <1>3 DEF Scheduler, ReadDue, SubmitDue, SubmitRefused, Prune, TickFails
  <2>2. CASE ReadDue
    <3>1. state' = EnsureStates /\ UNCHANGED <<run, job>>
      BY <2>2 DEF ReadDue
    <3> QED
      BY <1>1, <3>1, EnsureStatesKeeps, NewestFrame DEF Recording
  <2>3. CASE SubmitDue \/ SubmitRefused \/ TickFails
    <3>1. UNCHANGED <<state, run, job>>
      BY <2>3 DEF SubmitDue, SubmitRefused, TickFails, tables
    <3> QED
      BY <1>1, <3>1, NewestFrame DEF Recording
  <2> QED
    BY <1>1, <1>3, <2>1, <2>2, <2>3, NewestPrune DEF Scheduler
<1>4. ASSUME NEW w \in Worker, TakeJob(w)
      PROVE  NewestInv' /\ OutcomesStay /\ \A c \in Shell : job'[c].pc = "idle"
  <2>1. /\ job' = [job EXCEPT ![w] = [IdleJob EXCEPT !.pc = "start", !.dev = Head(queue)]]
        /\ UNCHANGED <<state, run, budget>>
    BY <1>4 DEF TakeJob, tables
  <2>2. \A v \in Worker : Recording(v)' => Recording(v) /\ job'[v] = job[v]
    BY <1>1, <2>1 DEF Recording, IdleJob
  <2> QED
    BY <1>1, <2>1, <2>2, NewestFrame
<1>5. CASE TimePasses
  BY <1>1, <1>5, NewestTimePasses DEF TimePasses
<1>6. CASE Request
  <2>1. UNCHANGED job
    BY <1>6 DEF Request, CreateDevice, ReadStates, UpdateDevice, DeleteDevice, UpdateSettings,
                RunNow
  <2> QED
    BY <1>1, <1>6, <2>1, NewestRequest
<1>7. ASSUME NEW r \in Runner, Run(r)
      PROVE  NewestInv' /\ OutcomesStay /\ \A c \in Shell : job'[c].pc = "idle"
  <2>1. r \in Worker
    BY <1>1, <1>7 DEF Run, RecordAttempt, Fetch, RecordOutcome, DbError, Release, Runner
  <2>2. \A q \in Runner \ {r} : job'[q] = job[q]
    BY <1>1, <1>7 DEF Run, RecordAttempt, Fetch, RecordOutcome, DbError, Release
  <2> QED
    BY <1>1, <1>7, <2>1, <2>2, NewestRun
<1>8. CASE UNCHANGED vars
  <2>1. UNCHANGED <<state, run, job, budget>>
    BY <1>8 DEF vars
  <2> QED
    BY <1>1, <2>1, NewestFrame DEF Recording
<1>9. \A c \in Shell : ~ShellStart(c) /\ ~ShellKilled(c)
  BY <1>1 DEF ShellStart, ShellKilled
<1> QED
  BY <1>2, <1>3, <1>4, <1>5, <1>6, <1>7, <1>8, <1>9 DEF Next

LEMMA HistoryStep ==
    TypeInv /\ GateInv /\ OwnInv /\ HistoryInv /\ [Next]_vars
        => HistoryInv' /\ (Alone' => OutcomesStay)
<1> SUFFICES ASSUME TypeInv, GateInv, OwnInv, HistoryInv, [Next]_vars
             PROVE  HistoryInv' /\ (Alone' => OutcomesStay)
  OBVIOUS
<1>1. UNCHANGED budget \/ \E what \in Events : Spend(what)
  <2>1. CASE Server
    BY <2>1 DEF Server, Start, Stop, Exit, Crash, Events
  <2>2. CASE Scheduler
    BY <2>2 DEF Scheduler, ReadDue, SubmitDue, SubmitRefused, Prune, TickFails, Events
  <2>3. CASE Request
    BY <2>3 DEF Request, CreateDevice, ReadStates, UpdateDevice, DeleteDevice, UpdateSettings,
                RunNow, Events
  <2>4. CASE \E r \in Runner : Run(r)
    BY <2>4 DEF Run, RecordAttempt, Fetch, RecordOutcome, DbError, Release, Events
  <2>5. CASE \/ \E w \in Worker : TakeJob(w)
             \/ \E c \in Shell : ShellStart(c) \/ ShellKilled(c)
    BY <2>5 DEF TakeJob, ShellStart, ShellKilled, Events
  <2>6. CASE TimePasses \/ UNCHANGED vars
    BY <2>6 DEF TimePasses, vars
  <2> QED
    BY <2>1, <2>2, <2>3, <2>4, <2>5, <2>6 DEF Next
<1>2. Alone' => Alone /\ ~Spend("delete") /\ ~Spend("shell")
  BY <1>1, NothingSpent
<1>3. ASSUME Alone' PROVE ServerOnly' /\ NewestInv' /\ OutcomesStay
  <2>1. ServerOnly /\ NewestInv
    BY <1>2, <1>3 DEF HistoryInv
  <2> QED
    BY <1>2, <1>3, <2>1, NewestStep DEF ServerOnly
<1> QED
  BY <1>1, <1>3, NothingSpent DEF HistoryInv

LEMMA HistoryInit == Init => HistoryInv
<1> SUFFICES ASSUME Init PROVE HistoryInv
  OBVIOUS
<1>1. Rows(run) = {} /\ \A r \in Runner : ~Recording(r) /\ job[r].pc = "idle"
  BY DEF Init, Rows, Recording, IdleJob
<1>2. budget = Budget /\ Budget.shell \in Nat /\ Budget.delete \in Nat
  BY BudgetAssumption DEF Init
<1> QED
  BY <1>1, <1>2 DEF HistoryInv, ServerOnly, Alone, NewestInv, AgesFall, HoldsNewest, NewestShown,
                    Runner

\* While backups are the server's alone and no device was deleted, the status
\* shown for a device is that of its newest run: for any number of devices and
\* threads, through crashes, recovery, failing transactions and pruning.
THEOREM LatestRunIsShown == Spec => []LatestRunShown
<1>1. HistoryInv => LatestRunShown
  BY DEF HistoryInv, NewestInv, NewestShown, IsNewest, LatestRunShown
<1> QED
  BY <1>1, TypeInit, GateInit, OwnInit, HistoryInit, TypeStep, GateStep, OwnStep, HistoryStep,
     PTL DEF Spec

\* Under the same condition no step rewrites the outcome of a concluded run.
THEOREM FinishedRunsKeepOutcome == Spec => FinishedRunsStay
<1>1. (Alone' => OutcomesStay) =>
          (Alone' => \A id \in Rows(run) :
              (run[id].status # "running" /\ run'[id] # NoRow) =>
                  run'[id].status = run[id].status)
  BY DEF OutcomesStay
<1> QED
  BY <1>1, TypeInit, GateInit, OwnInit, HistoryInit, TypeStep, GateStep, OwnStep, HistoryStep,
     PTL DEF Spec, FinishedRunsStay
=============================================================================
