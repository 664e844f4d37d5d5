----------------------- MODULE FirmwareServiceProofs -----------------------
(***************************************************************************)
(* FirmwareService for any number of devices and threads: its types, that  *)
(* it implements JobGate, that what is shown as running has an owner, and  *)
(* that a version once known is neither lost nor replaced by an older one. *)
(***************************************************************************)
EXTENDS FirmwareService, FiniteSetTheorems, SequenceTheorems, TLAPS

\* A queue without repetitions and what it holds.
Elements(q) == {q[i] : i \in DOMAIN q}
NoRepeats(q) == \A i, j \in DOMAIN q : q[i] = q[j] => i = j

LEMMA AppendElements ==
    ASSUME NEW S, NEW q \in Seq(S), NEW e \in S
    PROVE  /\ Append(q, e) \in Seq(S)
           /\ Elements(Append(q, e)) = Elements(q) \cup {e}
           /\ e \notin Elements(q) /\ NoRepeats(q) => NoRepeats(Append(q, e))
<1> DEFINE a == Append(q, e)
<1>1. /\ a \in Seq(S) /\ Len(q) \in Nat /\ DOMAIN q = 1..Len(q) /\ DOMAIN a = 1..(Len(q) + 1)
      /\ a[Len(q) + 1] = e /\ \A i \in 1..Len(q) : a[i] = q[i]
  BY AppendProperties, LenProperties
<1> HIDE DEF a
<1>2. Elements(a) = Elements(q) \cup {e}
  <2>1. \A i \in DOMAIN a : i \in DOMAIN q \/ i = Len(q) + 1
    BY <1>1
  <2> QED
    BY <1>1, <2>1 DEF Elements
<1>3. ASSUME e \notin Elements(q), NoRepeats(q), NEW i \in DOMAIN a, NEW j \in DOMAIN a, a[i] = a[j]
      PROVE  i = j
  <2>1. \A k \in DOMAIN q : q[k] # e
    BY <1>3 DEF Elements
  <2>2. (i \in DOMAIN q \/ i = Len(q) + 1) /\ (j \in DOMAIN q \/ j = Len(q) + 1)
    BY <1>1
  <2> QED
    BY <1>1, <1>3, <2>1, <2>2 DEF NoRepeats
<1> QED
  BY <1>1, <1>2, <1>3 DEF a, NoRepeats

LEMMA TailElements ==
    ASSUME NEW S, NEW q \in Seq(S), q # <<>>
    PROVE  /\ Head(q) \in S /\ Tail(q) \in Seq(S)
           /\ Elements(q) = Elements(Tail(q)) \cup {Head(q)}
           /\ NoRepeats(q) => Head(q) \notin Elements(Tail(q)) /\ NoRepeats(Tail(q))
<1> DEFINE t == Tail(q)
<1>1. /\ t \in Seq(S) /\ Head(q) \in S /\ Len(q) \in Nat \ {0} /\ Head(q) = q[1]
      /\ DOMAIN q = 1..Len(q) /\ DOMAIN t = 1..(Len(q) - 1)
      /\ \A i \in DOMAIN t : t[i] = q[i + 1]
  BY HeadTailProperties, LenProperties, EmptySeq
<1> HIDE DEF t
<1>2. \A i \in DOMAIN t : i + 1 \in DOMAIN q /\ i + 1 # 1
  BY <1>1
<1>3. \A i \in DOMAIN q : i = 1 \/ (i - 1 \in DOMAIN t /\ t[i - 1] = q[i])
  BY <1>1
<1>4. 1 \in DOMAIN q
  BY <1>1
<1>5. Elements(q) = Elements(t) \cup {q[1]}
  <2>1. Elements(q) \subseteq Elements(t) \cup {q[1]}
    BY <1>3 DEF Elements
  <2>2. Elements(t) \cup {q[1]} \subseteq Elements(q)
    BY <1>1, <1>2, <1>4 DEF Elements
  <2> QED
    BY <2>1, <2>2
<1>6. ASSUME NoRepeats(q) PROVE q[1] \notin Elements(t) /\ NoRepeats(t)
  <2>1. \A i \in DOMAIN t : q[i + 1] # q[1]
    BY <1>2, <1>4, <1>6 DEF NoRepeats
  <2>2. \A i, j \in DOMAIN t : q[i + 1] = q[j + 1] => i = j
    BY <1>1, <1>2, <1>6 DEF NoRepeats
  <2> QED
    BY <1>1, <2>1, <2>2 DEF NoRepeats, Elements
<1> QED
  BY <1>1, <1>5, <1>6 DEF t

-----------------------------------------------------------------------------
(* Types                                                                   *)

Recording(w) == job[w].pc \in {"ask", "record"}

\* A thread at work has a device, and knows nothing before it has asked.
JobSound ==
    \A w \in Worker :
        /\ ~At(w, "idle") => job[w].dev \in DeviceId
        /\ job[w].pc \in {"start", "ask"} => ~job[w].ok

TypeInv == TypeOK /\ JobSound

LEMMA RowTypes ==
    /\ NewFacts \in FactsRow /\ IdleJob \in Job /\ NoFacts \in Answer
    /\ NoRow \notin FactsRow /\ NoRow \notin DeviceRow
BY FirmwareAssumption, FirmwareRowAssumption
   DEF NewFacts, FactsRow, IdleJob, Job, NoFacts, Answer

\* What ensure_facts leaves in a device's row.
LEMMA EnsureFactsEffect ==
    ASSUME TypeInv
    PROVE  /\ EnsureFacts \in [DeviceId -> FactsRow \cup {NoRow}]
           /\ \A d \in DeviceId :
                 /\ device[d] # NoRow => EnsureFacts[d] \in FactsRow
                 /\ EnsureFacts[d] = facts[d] \/ (facts[d] = NoRow /\ EnsureFacts[d] = NewFacts)
BY RowTypes DEF EnsureFacts, TypeInv, TypeOK

Events == {"create", "delete", "edit", "upgrade", "restart", "dbError"}

LEMMA BudgetFalls ==
    ASSUME TypeInv, [Next]_vars
    PROVE  /\ budget' \in BudgetType
           /\ budget'.create <= budget.create /\ budget'.delete <= budget.delete
           /\ budget'.dbError <= budget.dbError
           /\ budget.create \in Nat /\ budget'.create \in Nat
           /\ budget.delete \in Nat /\ budget'.delete \in Nat
           /\ budget.dbError \in Nat /\ budget'.dbError \in Nat
<1>1. budget \in BudgetType
  BY DEF TypeInv, TypeOK
<1>2. CASE UNCHANGED budget
  BY <1>1, <1>2 DEF BudgetType
<1>3. ASSUME NEW what \in Events, Spend(what)
      PROVE  /\ budget' \in BudgetType
             /\ budget'.create <= budget.create /\ budget'.delete <= budget.delete
             /\ budget'.dbError <= budget.dbError
  BY <1>1, <1>3 DEF Spend, Events, BudgetType
<1>4. UNCHANGED budget \/ \E what \in Events : Spend(what)
  <2>1. CASE Start \/ Stop \/ Exit \/ Crash \/ ReadDue \/ SubmitDue \/ SubmitRefused
    BY <2>1 DEF Start, Stop, Exit, Crash, ReadDue, SubmitDue, SubmitRefused, Events
  <2>2. ASSUME NEW w \in Worker,
               TakeJob(w) \/ RecordAttempt(w) \/ Ask(w) \/ RecordOutcome(w) \/ DbError(w) \/ Release(w)
        PROVE  UNCHANGED budget \/ \E what \in Events : Spend(what)
    BY <2>2 DEF TakeJob, RecordAttempt, Ask, RecordOutcome, DbError, Release, Events
  <2>3. CASE CreateDevice \/ ReadReport \/ TimePasses
    BY <2>3 DEF CreateDevice, ReadReport, TimePasses, Events
  <2>4. ASSUME NEW d \in DeviceId, UpdateDevice(d) \/ DeleteDevice(d) \/ CheckNow(d) \/ Upgrade(d)
        PROVE  UNCHANGED budget \/ \E what \in Events : Spend(what)
    BY <2>4 DEF UpdateDevice, DeleteDevice, CheckNow, Upgrade, Events
  <2>5. CASE UNCHANGED vars
    BY <2>5 DEF vars
  <2> QED
    BY <2>1, <2>2, <2>3, <2>4, <2>5 DEF Next
<1> QED
  BY <1>1, <1>2, <1>3, <1>4 DEF BudgetType

\* What moving a thread on changes.
LEMMA GoEffect ==
    ASSUME TypeInv, NEW w \in Worker, NEW pc, Go(w, pc)
    PROVE  /\ job'[w].pc = pc /\ job'[w].dev = job[w].dev /\ job'[w].born = job[w].born
           /\ job'[w].ok = job[w].ok /\ job'[w].facts = job[w].facts
           /\ \A v \in Worker \ {w} : job'[v] = job[v]
           /\ pc \in {"idle", "start", "ask", "record", "release"} => job' \in [Worker -> Job]
BY DEF Go, TypeInv, TypeOK, Job

LEMMA AttemptEffect ==
    ASSUME TypeInv, NEW w \in Worker, NEW d \in DeviceId, d = job[w].dev,
           RecordAttempt(w), device[d] # NoRow
    PROVE  /\ job' \in [Worker -> Job] /\ job'[w].pc = "ask" /\ job'[w].dev = d
           /\ job'[w].born = device[d].born /\ job'[w].ok = job[w].ok
           /\ \A v \in Worker \ {w} : job'[v] = job[v]
           /\ facts' \in [DeviceId -> FactsRow \cup {NoRow}]
           /\ facts'[d] # NoRow /\ facts'[d].facts = EnsureFacts[d].facts
           /\ facts'[d].previous = EnsureFacts[d].previous
           /\ \A e \in DeviceId \ {d} : facts'[e] = EnsureFacts[e]
<1>1. /\ job' = [job EXCEPT ![w].pc = "ask", ![w].born = device[d].born]
      /\ facts' = [EnsureFacts EXCEPT ![d].status = "running", ![d].age = 0]
  BY DEF RecordAttempt
<1>2. device[d].born \in Nat
  BY DEF TypeInv, TypeOK, DeviceRow
<1>3. /\ job' \in [Worker -> Job] /\ job'[w].pc = "ask" /\ job'[w].dev = d
      /\ job'[w].born = device[d].born /\ job'[w].ok = job[w].ok
      /\ \A v \in Worker \ {w} : job'[v] = job[v]
  BY <1>1, <1>2 DEF TypeInv, TypeOK, Job
<1>4. EnsureFacts[d] \in FactsRow /\ EnsureFacts \in [DeviceId -> FactsRow \cup {NoRow}]
  BY EnsureFactsEffect
<1> DEFINE row == [EnsureFacts[d] EXCEPT !.status = "running", !.age = 0]
<1>5. facts' = [EnsureFacts EXCEPT ![d] = row]
  BY <1>1, <1>4
<1>6. row \in FactsRow /\ row.facts = EnsureFacts[d].facts /\ row.previous = EnsureFacts[d].previous
  <2>1. 0 \in 0..MaxAge
    BY FirmwareAssumption
  <2> QED
    BY <1>4, <2>1 DEF FactsRow
<1> HIDE DEF row
<1>7. /\ facts' \in [DeviceId -> FactsRow \cup {NoRow}] /\ facts'[d] = row
      /\ \A e \in DeviceId \ {d} : facts'[e] = EnsureFacts[e]
  BY <1>4, <1>5, <1>6
<1> QED
  BY <1>3, <1>6, <1>7, RowTypes

\* The version a row is left with, and the one before.
Upgraded(row, new) == row.facts.version # 0 /\ row.facts.version # new.version

LEMMA OutcomeEffect ==
    ASSUME TypeInv, NEW w \in Worker, NEW d \in DeviceId, d = job[w].dev, RecordOutcome(w)
    PROVE  /\ facts' \in [DeviceId -> FactsRow \cup {NoRow}]
           /\ \A e \in DeviceId \ {d} : facts'[e] = facts[e]
           /\ facts[d] = NoRow => facts'[d] = NoRow
           /\ facts[d] # NoRow => /\ facts'[d] # NoRow /\ facts'[d].status # "running"
                                  /\ ~job[w].ok => /\ facts'[d].facts = facts[d].facts
                                                   /\ facts'[d].previous = facts[d].previous
                                  /\ job[w].ok =>
                                       /\ facts'[d].facts = job[w].facts
                                       /\ facts'[d].previous =
                                             IF Upgraded(facts[d], job[w].facts)
                                             THEN facts[d].facts.version ELSE facts[d].previous
<1>1. facts \in [DeviceId -> FactsRow \cup {NoRow}] /\ job[w].facts \in Answer
  BY DEF TypeInv, TypeOK, Job
<1>2. CASE facts[d] = NoRow
  BY <1>1, <1>2 DEF RecordOutcome
<1>3. CASE facts[d] # NoRow /\ ~job[w].ok
  <2> DEFINE row == [facts[d] EXCEPT !.status = "failed"]
  <2>1. facts' = [facts EXCEPT ![d] = row] /\ facts[d] \in FactsRow
    BY <1>1, <1>3 DEF RecordOutcome
  <2>2. /\ row \in FactsRow /\ row.status # "running" /\ row.facts = facts[d].facts
        /\ row.previous = facts[d].previous
    BY <2>1 DEF FactsRow
  <2> HIDE DEF row
  <2> QED
    BY <1>1, <1>3, <2>1, <2>2, RowTypes
<1>4. CASE facts[d] # NoRow /\ job[w].ok
  <2> DEFINE before == IF Upgraded(facts[d], job[w].facts)
                       THEN facts[d].facts.version ELSE facts[d].previous
             row == [facts[d] EXCEPT !.status = "success", !.facts = job[w].facts,
                                     !.previous = before]
  <2>1. facts[d] \in FactsRow
    BY <1>1, <1>4
  <2>2. facts' = [facts EXCEPT ![d] = row]
    BY <1>1, <1>4, <2>1 DEF RecordOutcome, Upgraded
  <2>3. before \in Nat
    BY <2>1 DEF FactsRow, Answer
  <2>4. /\ row \in FactsRow /\ row.status # "running" /\ row.facts = job[w].facts
        /\ row.previous = before
    <3> HIDE DEF before
    <3> QED
      BY <1>1, <2>1, <2>3 DEF FactsRow
  <2> HIDE DEF row
  <2> QED
    BY <1>1, <1>4, <2>2, <2>4, RowTypes
<1> QED
  BY <1>2, <1>3, <1>4

LEMMA TypeInit == Init => TypeInv
<1> SUFFICES ASSUME Init PROVE TypeInv
  OBVIOUS
<1>1. /\ job \in [Worker -> Job] /\ queue \in Seq(DeviceId) /\ budget \in BudgetType
      /\ \A w \in Worker : job[w].pc = "idle"
  BY RowTypes, FirmwareAssumption DEF Init, IdleJob
<1> QED
  BY <1>1 DEF Init, TypeInv, TypeOK, JobSound, At

LEMMA SubmitType ==
    ASSUME TypeInv, NEW d \in DeviceId, Submit(d)
    PROVE  inFlight' \subseteq DeviceId /\ queue' \in Seq(DeviceId)
BY AppendProperties DEF Submit, TypeInv, TypeOK

LEMMA SchedulingType ==
    ASSUME TypeInv, [Next]_vars,
           \/ Start \/ Stop \/ Exit \/ Crash \/ ReadDue \/ SubmitDue \/ SubmitRefused
           \/ ReadReport \/ TimePasses \/ UNCHANGED vars
    PROVE  TypeInv'
<1>0. budget' \in BudgetType /\ job \in [Worker -> Job]
  BY BudgetFalls DEF TypeInv, TypeOK
<1>1. CASE Start
  <2>1. facts' \in [DeviceId -> FactsRow \cup {NoRow}]
    BY <1>1 DEF Start, RecoverInterrupted, TypeInv, TypeOK, FactsRow
  <2> QED
    BY <1>0, <1>1, <2>1 DEF Start, TypeInv, TypeOK, JobSound, At
<1>2. CASE Stop
  BY <1>0, <1>2 DEF Stop, tables, TypeInv, TypeOK, JobSound, At
<1>3. CASE Exit \/ Crash
  <2>1. ProcessEnds
    BY <1>3 DEF Exit, Crash
  <2>2. job' \in [Worker -> Job] /\ \A w \in Worker : job'[w].pc = "idle"
    BY <2>1, RowTypes DEF ProcessEnds, IdleJob
  <2> QED
    BY <1>0, <2>1, <2>2 DEF ProcessEnds, tables, TypeInv, TypeOK, JobSound, At
<1>4. CASE ReadDue
  <2>1. DueDevices(EnsureFacts) \subseteq DeviceId
    BY DEF DueDevices, Rows, TypeInv, TypeOK
  <2> QED
    BY <1>0, <1>4, <2>1, EnsureFactsEffect DEF ReadDue, TypeInv, TypeOK, JobSound, At
<1>5. CASE SubmitDue
  <2>1. PICK d \in due : Submit(d) /\ due' = due \ {d}
    BY <1>5 DEF SubmitDue
  <2>2. inFlight' \subseteq DeviceId /\ queue' \in Seq(DeviceId) /\ due' \subseteq DeviceId
    BY <2>1, SubmitType DEF TypeInv, TypeOK
  <2> QED
    BY <1>0, <1>5, <2>2 DEF SubmitDue, tables, TypeInv, TypeOK, JobSound, At
<1>6. CASE SubmitRefused
  <2>1. inFlight' \subseteq DeviceId /\ due' \subseteq DeviceId
    BY <1>6 DEF SubmitRefused, TypeInv, TypeOK
  <2> QED
    BY <1>0, <1>6, <2>1 DEF SubmitRefused, tables, TypeInv, TypeOK, JobSound, At
<1>7. CASE ReadReport
  BY <1>0, <1>7, EnsureFactsEffect DEF ReadReport, TypeInv, TypeOK, JobSound, At
<1>8. CASE TimePasses
  <2>1. facts' \in [DeviceId -> FactsRow \cup {NoRow}]
    <3> SUFFICES ASSUME NEW d \in DeviceId
                 PROVE  (IF facts[d] = NoRow \/ facts[d].age = MaxAge THEN facts[d]
                         ELSE [facts[d] EXCEPT !.age = @ + 1]) \in FactsRow \cup {NoRow}
      BY <1>8 DEF TimePasses
    <3>1. facts[d] \in FactsRow \cup {NoRow}
      BY DEF TypeInv, TypeOK
    <3>2. CASE facts[d] \in FactsRow /\ facts[d].age # MaxAge
      <4>1. facts[d].age + 1 \in 0..MaxAge
        BY <3>2, FirmwareAssumption DEF FactsRow
      <4> QED
        BY <3>2, <4>1 DEF FactsRow
    <3> QED
      BY <3>1, <3>2
  <2> QED
    BY <1>0, <1>8, <2>1 DEF TimePasses, TypeInv, TypeOK, JobSound, At
<1>9. CASE UNCHANGED vars
  BY <1>0, <1>9 DEF vars, TypeInv, TypeOK, JobSound, At
<1> QED
  BY <1>1, <1>2, <1>3, <1>4, <1>5, <1>6, <1>7, <1>8, <1>9

LEMMA CheckType ==
    ASSUME TypeInv, [Next]_vars, NEW w \in Worker,
           TakeJob(w) \/ RecordAttempt(w) \/ Ask(w) \/ RecordOutcome(w) \/ DbError(w) \/ Release(w)
    PROVE  TypeInv'
<1>0. budget' \in BudgetType /\ job \in [Worker -> Job]
  BY BudgetFalls DEF TypeInv, TypeOK
<1> DEFINE d == job[w].dev
<1>1. CASE TakeJob(w)
  <2>1. /\ job' = [job EXCEPT ![w] = [IdleJob EXCEPT !.pc = "start", !.dev = Head(queue)]]
        /\ queue' = Tail(queue) /\ queue # <<>>
    BY <1>1 DEF TakeJob
  <2>2. Head(queue) \in DeviceId /\ queue' \in Seq(DeviceId)
    BY <2>1, HeadTailProperties DEF TypeInv, TypeOK
  <2> DEFINE begun == [IdleJob EXCEPT !.pc = "start", !.dev = Head(queue)]
  <2>3. Head(queue) \in 0..MaxDevice /\ IdleJob \in Job /\ ~IdleJob.ok
    BY <2>2, RowTypes, FirmwareAssumption DEF DeviceId, IdleJob
  <2>4. begun \in Job /\ begun.pc = "start" /\ begun.dev = Head(queue) /\ ~begun.ok
    BY <2>3 DEF Job
  <2> HIDE DEF begun
  <2>5. job' = [job EXCEPT ![w] = begun]
    BY <2>1 DEF begun
  <2>6. job' \in [Worker -> Job] /\ JobSound'
    BY <1>0, <2>2, <2>4, <2>5 DEF JobSound, At, TypeInv
  <2> QED
    BY <1>0, <1>1, <2>2, <2>6 DEF TakeJob, tables, TypeInv, TypeOK
<1>2. CASE RecordAttempt(w)
  <2>1. At(w, "start") /\ d \in DeviceId
    BY <1>2 DEF RecordAttempt, At, TypeInv, JobSound
  <2>2. CASE device[d] # NoRow
    <3>1. /\ job' \in [Worker -> Job] /\ job'[w].dev = d /\ job'[w].ok = job[w].ok
          /\ \A v \in Worker \ {w} : job'[v] = job[v]
          /\ facts' \in [DeviceId -> FactsRow \cup {NoRow}]
      BY <1>2, <2>1, <2>2, AttemptEffect
    <3>2. JobSound'
      BY <2>1, <3>1 DEF JobSound, At, TypeInv
    <3> QED
      BY <1>0, <1>2, <3>1, <3>2 DEF RecordAttempt, TypeInv, TypeOK
  <2>3. CASE device[d] = NoRow
    <3>1. Go(w, "release") /\ UNCHANGED facts
      BY <1>2, <2>3 DEF RecordAttempt
    <3>2. job' \in [Worker -> Job] /\ JobSound'
      BY <2>1, <3>1, GoEffect DEF JobSound, At, TypeInv
    <3> QED
      BY <1>0, <1>2, <3>1, <3>2 DEF RecordAttempt, TypeInv, TypeOK
  <2> QED
    BY <2>2, <2>3
<1>3. CASE Ask(w)
  <2>1. /\ job' \in [Worker -> Job] /\ job'[w].pc = "record" /\ job'[w].dev = d
        /\ \A v \in Worker \ {w} : job'[v] = job[v]
    <3>1. CASE Go(w, "record")
      BY <3>1, GoEffect
    <3>2. ASSUME NEW v \in 1..(Budget["upgrade"] + 1),
                 job' = [job EXCEPT ![w].pc = "record", ![w].ok = TRUE,
                                    ![w].facts = [born |-> job[w].born, version |-> v]]
          PROVE  /\ job' \in [Worker -> Job] /\ job'[w].pc = "record" /\ job'[w].dev = d
                 /\ \A u \in Worker \ {w} : job'[u] = job[u]
      <4>1. [born |-> job[w].born, version |-> v] \in Answer
        BY <1>0, FirmwareAssumption DEF Answer, Job, BudgetType
      <4> QED
        BY <1>0, <3>2, <4>1 DEF Job
    <3> QED
      BY <1>3, <3>1, <3>2 DEF Ask
  <2>2. JobSound'
    BY <1>3, <2>1 DEF Ask, JobSound, At, TypeInv
  <2> QED
    BY <1>0, <1>3, <2>1, <2>2 DEF Ask, tables, TypeInv, TypeOK
<1>4. CASE RecordOutcome(w)
  <2>1. At(w, "record") /\ d \in DeviceId /\ Go(w, "release")
    BY <1>4 DEF RecordOutcome, At, TypeInv, JobSound
  <2>2. facts' \in [DeviceId -> FactsRow \cup {NoRow}]
    BY <1>4, <2>1, OutcomeEffect
  <2>3. job' \in [Worker -> Job] /\ JobSound'
    BY <2>1, GoEffect DEF JobSound, At, TypeInv
  <2> QED
    BY <1>0, <1>4, <2>2, <2>3 DEF RecordOutcome, TypeInv, TypeOK
<1>5. CASE DbError(w)
  <2>1. Go(w, "release") /\ ~At(w, "idle")
    BY <1>5 DEF DbError, At
  <2>2. job' \in [Worker -> Job] /\ JobSound'
    BY <2>1, GoEffect DEF JobSound, At, TypeInv
  <2> QED
    BY <1>0, <1>5, <2>2 DEF DbError, tables, TypeInv, TypeOK
<1>6. CASE Release(w)
  <2>1. job' = [job EXCEPT ![w] = IdleJob] /\ IdleJob.pc = "idle"
    BY <1>6 DEF Release, IdleJob
  <2>2. job' \in [Worker -> Job] /\ JobSound'
    BY <1>0, <2>1, RowTypes DEF JobSound, At, TypeInv
  <2> QED
    BY <1>0, <1>6, <2>2 DEF Release, tables, TypeInv, TypeOK
<1> QED
  BY <1>1, <1>2, <1>3, <1>4, <1>5, <1>6

LEMMA TypeStep == TypeInv /\ [Next]_vars => TypeInv'
<1> SUFFICES ASSUME TypeInv, [Next]_vars PROVE TypeInv'
  OBVIOUS
<1>0. budget' \in BudgetType /\ JobSound
  BY BudgetFalls DEF TypeInv
<1>1. CASE CreateDevice
  <2>1. PICK d \in DeviceId, e \in BOOLEAN :
          device' = [device EXCEPT ![d] = [enabled |-> e, born |-> budget["create"], version |-> 1]]
    BY <1>1 DEF CreateDevice
  <2>2. [enabled |-> e, born |-> budget["create"], version |-> 1] \in DeviceRow
    BY DEF DeviceRow, TypeInv, TypeOK, BudgetType
  <2> QED
    BY <1>0, <1>1, <2>1, <2>2 DEF CreateDevice, TypeInv, TypeOK, JobSound, At
<1>2. ASSUME NEW d \in DeviceId, UpdateDevice(d) \/ Upgrade(d) PROVE TypeInv'
  <2>1. device[d] \in DeviceRow
    BY <1>2 DEF UpdateDevice, Upgrade, TypeInv, TypeOK
  <2>2. \/ device' = [device EXCEPT ![d] = [device[d] EXCEPT !.enabled = ~device[d].enabled]]
        \/ device' = [device EXCEPT ![d] = [device[d] EXCEPT !.version = device[d].version + 1]]
    BY <1>2 DEF UpdateDevice, Upgrade
  <2>3. /\ [device[d] EXCEPT !.enabled = ~device[d].enabled] \in DeviceRow
        /\ [device[d] EXCEPT !.version = device[d].version + 1] \in DeviceRow
    <3>1. [device[d] EXCEPT !.version = device[d].version + 1] \in DeviceRow
      BY <2>1 DEF DeviceRow
    <3>2. [device[d] EXCEPT !.enabled = ~device[d].enabled] \in DeviceRow
      <4>1. \A e \in BOOLEAN : [device[d] EXCEPT !.enabled = e] \in DeviceRow
        BY <2>1 DEF DeviceRow
      <4> QED
        BY <4>1
    <3> QED
      BY <3>1, <3>2
  <2>4. device' \in [DeviceId -> DeviceRow \cup {NoRow}]
    BY <2>2, <2>3 DEF TypeInv, TypeOK
  <2> QED
    BY <1>0, <1>2, <2>4 DEF UpdateDevice, Upgrade, TypeInv, TypeOK, JobSound, At
<1>3. ASSUME NEW d \in DeviceId, DeleteDevice(d) PROVE TypeInv'
  BY <1>0, <1>3 DEF DeleteDevice, TypeInv, TypeOK, JobSound, At
<1>4. ASSUME NEW d \in DeviceId, CheckNow(d) PROVE TypeInv'
  <2>1. inFlight' \subseteq DeviceId /\ queue' \in Seq(DeviceId)
    BY <1>4, SubmitType DEF CheckNow
  <2> QED
    BY <1>0, <1>4, <2>1 DEF CheckNow, tables, TypeInv, TypeOK, JobSound, At
<1> QED
  BY <1>1, <1>2, <1>3, <1>4, SchedulingType, CheckType DEF Next

\* Every variable keeps its type, whatever the interleaving of scheduler,
\* threads, requests, upgrades and restarts.
THEOREM TypeCorrect == Spec => []TypeOK
<1>1. TypeInv => TypeOK
  BY DEF TypeInv
<1> QED
  BY <1>1, TypeInit, TypeStep, PTL DEF Spec

-----------------------------------------------------------------------------
(* The gate of JobGate                                                     *)

Busy == {w \in Worker : ~At(w, "idle")}

\* The queue holds a device once, no two threads have the same one, none that is
\* queued is in hand, and all of them are reserved.  (A submission the pool
\* refused leaves a reservation that nothing works on.)
GateInv ==
    /\ NoRepeats(queue)
    /\ \A v, w \in Busy : job[v].dev = job[w].dev => v = w
    /\ Queued \cap InHand = {}
    /\ Queued \cup InHand \subseteq inFlight

\* What a device is to JobGate, and a step of JobGate or a stutter.
Active == [d \in DeviceId |-> IF d \in Queued THEN "queued"
                             ELSE IF d \in InHand THEN "running" ELSE "free"]
GateMoves == [Gate!Next]_Active

LEMMA InHandIsBusy == InHand = {job[w].dev : w \in Busy}
BY DEF InHand, Busy

LEMMA MoveNothing ==
    ASSUME Queued' = Queued, InHand' = InHand
    PROVE  GateMoves
BY DEF GateMoves, Active

LEMMA MoveEnqueue ==
    ASSUME NEW d \in DeviceId, d \notin Queued \cup InHand,
           Queued' = Queued \cup {d}, InHand' = InHand
    PROVE  GateMoves
<1>1. Gate!Enqueue(d)
  BY DEF Gate!Enqueue
<1> QED
  BY <1>1 DEF GateMoves, Gate!Next

\* A thread is idle, so fewer devices are in hand than there are threads.
LEMMA MoveBegin ==
    ASSUME NEW d \in DeviceId, d \in Queued, GateInv, NEW w \in Worker \ Busy,
           InHand \subseteq DeviceId,
           Queued' = Queued \ {d}, InHand' = InHand \cup {d}
    PROVE  GateMoves
<1>1. Cardinality(InHand) < Cardinality(Worker)
  <2> DEFINE dev == [v \in Busy |-> job[v].dev]
  <2>1. dev \in Surjection(Busy, InHand)
    BY InHandIsBusy DEF Surjection
  <2>2. /\ IsFiniteSet(Busy) /\ Cardinality(Busy) <= Cardinality(Worker)
        /\ Cardinality(Busy) # Cardinality(Worker)
    BY FirmwareAssumption, FS_Subset DEF Busy
  <2>3. Cardinality(InHand) <= Cardinality(Busy) /\ IsFiniteSet(InHand)
    BY <2>1, <2>2, FS_Surjection
  <2>4. /\ Cardinality(Worker) \in Nat /\ Cardinality(Busy) \in Nat
        /\ Cardinality(InHand) \in Nat
    BY <2>2, <2>3, FirmwareAssumption, FS_CardinalityType
  <2> QED
    BY <2>2, <2>3, <2>4
<1>2. Gate!In("running") = InHand
  BY DEF Gate!In, GateInv
<1>3. Gate!Cardinality(InHand) = Cardinality(InHand)
  BY DEF Gate!Cardinality, Cardinality
<1>4. Gate!Begin(d)
  BY <1>1, <1>2, <1>3 DEF Gate!Begin, GateInv
<1> QED
  BY <1>4 DEF GateMoves, Gate!Next

LEMMA MoveFinish ==
    ASSUME NEW d \in DeviceId, d \in InHand, GateInv,
           Queued' = Queued, InHand' = InHand \ {d}
    PROVE  GateMoves
<1>1. Gate!Finish(d)
  BY DEF Gate!Finish, GateInv
<1> QED
  BY <1>1 DEF GateMoves, Gate!Next

LEMMA MoveDrain ==
    ASSUME GateInv, Queued' = {}, InHand' = InHand
    PROVE  GateMoves
<1>1. Gate!Drain
  BY DEF Gate!Drain, GateInv
<1> QED
  BY <1>1 DEF GateMoves, Gate!Next

LEMMA MoveAbort ==
    ASSUME Queued' = {}, InHand' = {}
    PROVE  GateMoves
<1>1. Gate!Abort
  BY DEF Gate!Abort
<1> QED
  BY <1>1 DEF GateMoves, Gate!Next

\* Steps that leave the queue and the threads' devices alone.
LEMMA GateFrame ==
    ASSUME GateInv, UNCHANGED queue, inFlight \subseteq inFlight',
           \A w \in Worker : /\ job'[w].pc = "idle" <=> job[w].pc = "idle"
                             /\ job'[w].dev = job[w].dev
    PROVE  GateInv' /\ GateMoves
<1>1. Busy' = Busy /\ InHand' = InHand /\ Queued' = Queued
  BY DEF Busy, At, InHand, Queued
<1> QED
  BY <1>1, MoveNothing DEF GateInv, Busy

LEMMA GateSubmit ==
    ASSUME TypeInv, GateInv, NEW d \in DeviceId, Submit(d), UNCHANGED job
    PROVE  GateInv' /\ GateMoves
<1>1. Busy' = Busy /\ InHand' = InHand
  BY DEF Busy, At, InHand
<1>2. CASE d \in inFlight
  BY <1>2, GateFrame DEF Submit
<1>3. CASE d \notin inFlight
  <2>1. inFlight' = inFlight \cup {d} /\ queue' = Append(queue, d)
    BY <1>3 DEF Submit
  <2>2. d \notin Queued /\ d \notin InHand
    BY <1>3 DEF GateInv
  <2>3. queue \in Seq(DeviceId) /\ Queued = Elements(queue) /\ Queued' = Elements(Append(queue, d))
    BY <2>1 DEF TypeInv, TypeOK, Queued, Elements
  <2>4. Queued' = Queued \cup {d} /\ NoRepeats(queue')
    BY <2>1, <2>2, <2>3, AppendElements DEF GateInv
  <2>5. \A v, w \in Busy' : job'[v].dev = job'[w].dev => v = w
    BY <1>1 DEF GateInv
  <2>6. Queued' \cap InHand' = {} /\ Queued' \cup InHand' \subseteq inFlight'
    BY <1>1, <2>1, <2>2, <2>4 DEF GateInv
  <2>7. GateMoves
    BY <1>1, <2>2, <2>4, MoveEnqueue
  <2> QED
    BY <2>4, <2>5, <2>6, <2>7 DEF GateInv
<1> QED
  BY <1>2, <1>3

\* A queue that is thrown away, and a process that ends.
LEMMA GateServer ==
    ASSUME TypeInv, GateInv, Stop \/ Exit \/ Crash
    PROVE  GateInv' /\ GateMoves
<1>1. CASE Stop
  <2>1. UNCHANGED <<inFlight, job>> /\ queue' = <<>>
    BY <1>1 DEF Stop
  <2>2. Busy' = Busy /\ InHand' = InHand /\ Queued' = {} /\ NoRepeats(queue')
    BY <2>1 DEF Busy, At, InHand, Queued, NoRepeats
  <2> QED
    BY <2>1, <2>2, MoveDrain DEF GateInv
<1>2. CASE ProcessEnds
  <2>1. inFlight' = {} /\ queue' = <<>>
    BY <1>2 DEF ProcessEnds
  <2>2. \A w \in Worker : job'[w].pc = "idle"
    BY <1>2 DEF ProcessEnds, IdleJob
  <2>3. Busy' = {} /\ InHand' = {} /\ Queued' = {} /\ NoRepeats(queue')
    BY <2>1, <2>2 DEF Busy, At, InHand, Queued, NoRepeats
  <2> QED
    BY <2>1, <2>3, MoveAbort DEF GateInv
<1> QED
  BY <1>1, <1>2 DEF Exit, Crash

LEMMA GateTakeJob ==
    ASSUME TypeInv, GateInv, NEW w \in Worker, TakeJob(w)
    PROVE  GateInv' /\ GateMoves
<1> DEFINE d == Head(queue)
<1>1. /\ queue # <<>> /\ job[w].pc = "idle"
      /\ job' = [job EXCEPT ![w] = [IdleJob EXCEPT !.pc = "start", !.dev = d]]
      /\ queue' = Tail(queue) /\ UNCHANGED inFlight
  BY DEF TakeJob, At
<1>2. job'[w].pc = "start" /\ job'[w].dev = d /\ \A v \in Worker \ {w} : job'[v] = job[v]
  BY <1>1 DEF TypeInv, TypeOK, IdleJob
<1>3. Busy' = Busy \cup {w} /\ w \notin Busy
  BY <1>1, <1>2 DEF Busy, At
<1>4. InHand' = InHand \cup {d}
  <2>1. InHand' = {job'[v].dev : v \in Busy'} /\ InHand = {job[v].dev : v \in Busy}
    BY InHandIsBusy DEF InHand, Busy
  <2>2. \A v \in Busy : job'[v] = job[v]
    BY <1>2, <1>3 DEF Busy
  <2> QED
    BY <1>2, <1>3, <2>1, <2>2
<1>5. Queued = Queued' \cup {d} /\ d \notin Queued' /\ NoRepeats(queue') /\ d \in DeviceId
  <2>1. queue \in Seq(DeviceId) /\ Queued = Elements(queue) /\ Queued' = Elements(Tail(queue))
    BY <1>1 DEF TypeInv, TypeOK, Queued, Elements
  <2> QED
    BY <1>1, <2>1, TailElements DEF GateInv
<1>6. \A u, v \in Busy' : job'[u].dev = job'[v].dev => u = v
  <2>1. \A v \in Busy : job[v].dev # d
    BY <1>5, InHandIsBusy DEF GateInv
  <2>2. \A v \in Busy : v # w /\ job'[v].dev = job[v].dev
    BY <1>2, <1>3 DEF Busy
  <2>3. \A u, v \in Busy : job'[u].dev = job'[v].dev => u = v
    BY <2>2 DEF GateInv
  <2> QED
    BY <1>2, <1>3, <2>1, <2>2, <2>3
<1>7. Queued' \cap InHand' = {} /\ Queued' \cup InHand' \subseteq inFlight'
  BY <1>1, <1>4, <1>5 DEF GateInv
<1>8. GateMoves
  <2>1. InHand \subseteq DeviceId
    BY InHandIsBusy DEF TypeInv, JobSound, Busy
  <2>2. Queued' = Queued \ {d} /\ w \in Worker \ Busy
    BY <1>3, <1>5
  <2> QED
    BY <1>4, <1>5, <2>1, <2>2, MoveBegin
<1> QED
  BY <1>5, <1>6, <1>7, <1>8 DEF GateInv

LEMMA GateRelease ==
    ASSUME TypeInv, GateInv, NEW w \in Worker, Release(w)
    PROVE  GateInv' /\ GateMoves
<1> DEFINE d == job[w].dev
<1>1. /\ job[w].pc = "release" /\ job' = [job EXCEPT ![w] = IdleJob]
      /\ inFlight' = inFlight \ {d} /\ UNCHANGED queue
  BY DEF Release, At
<1>2. job'[w] = IdleJob /\ IdleJob.pc = "idle" /\ \A v \in Worker \ {w} : job'[v] = job[v]
  BY <1>1 DEF TypeInv, TypeOK, IdleJob
<1>3. w \in Busy /\ Busy' = Busy \ {w} /\ \A v \in Busy' : job'[v] = job[v]
  BY <1>1, <1>2 DEF Busy, At
<1>4. InHand' = {job'[v].dev : v \in Busy'}
  BY DEF InHand, Busy
<1>5. d \in InHand /\ \A v \in Busy \ {w} : job[v].dev # d
  BY <1>3, InHandIsBusy DEF GateInv
<1>6. InHand' = InHand \ {d}
  BY <1>3, <1>4, <1>5, InHandIsBusy
<1>7. Queued' = Queued /\ d \notin Queued
  BY <1>1, <1>5 DEF Queued, GateInv
<1>8. \A u, v \in Busy' : job'[u].dev = job'[v].dev => u = v
  BY <1>3 DEF GateInv
<1>9. d \in DeviceId
  BY <1>1 DEF TypeInv, JobSound, At
<1> QED
  BY <1>1, <1>5, <1>6, <1>7, <1>8, <1>9, MoveFinish DEF GateInv

LEMMA GateStep == TypeInv /\ GateInv /\ [Next]_vars => GateInv' /\ GateMoves
<1> SUFFICES ASSUME TypeInv, GateInv, [Next]_vars PROVE GateInv' /\ GateMoves
  OBVIOUS
<1>1. ASSUME UNCHANGED <<queue, job>>, inFlight \subseteq inFlight' PROVE GateInv' /\ GateMoves
  BY <1>1, GateFrame
<1>2. CASE \/ Start \/ ReadDue \/ SubmitRefused \/ CreateDevice \/ ReadReport \/ TimePasses
           \/ UNCHANGED vars
           \/ \E d \in DeviceId : UpdateDevice(d) \/ DeleteDevice(d) \/ Upgrade(d)
  BY <1>1, <1>2 DEF Start, ReadDue, SubmitRefused, CreateDevice, ReadReport, TimePasses, vars,
                    UpdateDevice, DeleteDevice, Upgrade
<1>3. CASE SubmitDue \/ \E d \in DeviceId : CheckNow(d)
  <2>1. \E d \in DeviceId : Submit(d) /\ UNCHANGED job
    BY <1>3 DEF SubmitDue, CheckNow, TypeInv, TypeOK
  <2> QED
    BY <2>1, GateSubmit
<1>4. ASSUME NEW w \in Worker, RecordAttempt(w) \/ Ask(w) \/ RecordOutcome(w) \/ DbError(w)
      PROVE  GateInv' /\ GateMoves
  <2>1. UNCHANGED <<inFlight, queue>>
    BY <1>4 DEF RecordAttempt, Ask, RecordOutcome, DbError
  <2>2. job \in [Worker -> Job] /\ job[w].pc # "idle"
    BY <1>4 DEF RecordAttempt, Ask, RecordOutcome, DbError, At, TypeInv, TypeOK
  <2>3. job'[w].pc # "idle" /\ job'[w].dev = job[w].dev /\ \A v \in Worker \ {w} : job'[v] = job[v]
    <3>1. CASE \E pc \in {"record", "release"} : Go(w, pc)
      BY <2>2, <3>1 DEF Go, Job
    <3>2. CASE \E b : job' = [job EXCEPT ![w].pc = "ask", ![w].born = b]
      BY <2>2, <3>2 DEF Job
    <3>3. CASE \E f : job' = [job EXCEPT ![w].pc = "record", ![w].ok = TRUE, ![w].facts = f]
      BY <2>2, <3>3 DEF Job
    <3> QED
      BY <1>4, <3>1, <3>2, <3>3 DEF RecordAttempt, Ask, RecordOutcome, DbError
  <2> QED
    BY <2>1, <2>2, <2>3, GateFrame
<1> QED
  BY <1>2, <1>3, <1>4, GateServer, GateTakeJob, GateRelease DEF Next

LEMMA GateInit == Init => GateInv /\ Gate!Init
<1> SUFFICES ASSUME Init PROVE GateInv /\ Gate!Init
  OBVIOUS
<1>1. Busy = {} /\ InHand = {} /\ Queued = {} /\ NoRepeats(queue)
  BY DEF Init, Busy, At, InHand, Queued, IdleJob, NoRepeats
<1> QED
  BY <1>1 DEF Init, GateInv, Gate!Init

\* The checker keeps JobGate's promise for any number of threads: a device is
\* queued only when free, checked only after it was queued, and never by two
\* threads at once, through refused submissions, shutdowns and crashes.
THEOREM GateIsImplemented == Spec => ImplementsGate
<1>1. Init => TypeInv /\ GateInv /\ Gate!Init
  BY TypeInit, GateInit
<1>2. TypeInv /\ GateInv /\ [Next]_vars => (TypeInv /\ GateInv)' /\ GateMoves
  BY TypeStep, GateStep
<1> QED
  BY <1>1, <1>2, PTL DEF Spec, ImplementsGate, Gate!Spec, GateMoves, Active

-----------------------------------------------------------------------------
(* Rows that are shown as running                                          *)

\* A step leaves the row of a device as it was (a check that was running may
\* have been ended), creates it, or takes it away.
RowKept(d) ==
    \/ facts'[d] = NoRow
    \/ facts[d] = NoRow /\ facts'[d] = NewFacts
    \/ /\ facts[d] # NoRow /\ facts'[d] # NoRow
       /\ facts'[d].facts = facts[d].facts /\ facts'[d].previous = facts[d].previous
       /\ facts'[d].status = "running" => facts[d].status = "running"

\* Only a check changes what is known of a device.
Quiet ==
    \/ Start \/ Stop \/ Exit \/ Crash \/ ReadDue \/ SubmitDue \/ SubmitRefused
    \/ CreateDevice \/ ReadReport \/ TimePasses
    \/ \E d \in DeviceId : UpdateDevice(d) \/ DeleteDevice(d) \/ CheckNow(d) \/ Upgrade(d)
    \/ UNCHANGED vars

LEMMA QuietKeepsRows ==
    ASSUME TypeInv, Quiet
    PROVE  \A d \in DeviceId : RowKept(d)
<1>1. facts \in [DeviceId -> FactsRow \cup {NoRow}]
  BY DEF TypeInv, TypeOK
<1>2. CASE UNCHANGED facts
  BY <1>2 DEF RowKept
<1>3. CASE Start
  <2> SUFFICES ASSUME NEW d \in DeviceId, facts[d] \in FactsRow PROVE RowKept(d)
    BY <1>1, <1>3 DEF Start, RecoverInterrupted, RowKept
  <2>1. facts'[d] = facts[d] \/ facts'[d] = [facts[d] EXCEPT !.status = "failed"]
    BY <1>3 DEF Start, RecoverInterrupted
  <2> QED
    BY <2>1, RowTypes DEF RowKept, FactsRow
<1>4. CASE ReadDue \/ ReadReport
  BY <1>4, EnsureFactsEffect, RowTypes DEF ReadDue, ReadReport, RowKept
<1>5. CASE TimePasses
  <2> SUFFICES ASSUME NEW d \in DeviceId, facts[d] \in FactsRow PROVE RowKept(d)
    BY <1>1, <1>5 DEF TimePasses, RowKept
  <2>1. CASE facts[d].age = MaxAge
    BY <1>5, <2>1, RowTypes DEF TimePasses, RowKept
  <2>2. CASE facts[d].age # MaxAge
    <3> DEFINE row == [facts[d] EXCEPT !.age = facts[d].age + 1]
    <3>1. facts'[d] = row
      BY <1>5, <2>2, RowTypes DEF TimePasses
    <3>2. facts[d].age + 1 \in 0..MaxAge
      BY <2>2, FirmwareAssumption DEF FactsRow
    <3>3. /\ row \in FactsRow /\ row.facts = facts[d].facts
          /\ row.previous = facts[d].previous /\ row.status = facts[d].status
      BY <3>2 DEF FactsRow
    <3> HIDE DEF row
    <3> QED
      BY <3>1, <3>3, RowTypes DEF RowKept
  <2> QED
    BY <2>1, <2>2
<1>6. ASSUME NEW d \in DeviceId, DeleteDevice(d)
      PROVE  \A e \in DeviceId : RowKept(e)
  BY <1>1, <1>6 DEF DeleteDevice, RowKept
<1> QED
  BY <1>2, <1>3, <1>4, <1>5, <1>6
     DEF Quiet, Stop, Exit, Crash, ProcessEnds, SubmitDue, SubmitRefused, CreateDevice,
         UpdateDevice, CheckNow, Upgrade, tables, vars

OwnInv == RunningIsOwned /\ budget.dbError <= Budget.dbError

\* Steps that end no check.
LEMMA OwnFrame ==
    ASSUME OwnInv, budget'.dbError <= Budget.dbError,
           mode' = "up" /\ budget'.dbError = Budget.dbError =>
               mode = "up" /\ budget.dbError = Budget.dbError,
           DOMAIN facts = DOMAIN facts', \A d \in DOMAIN facts : RowKept(d),
           \A w \in Worker : Recording(w) => Recording(w)' /\ job'[w].dev = job[w].dev
    PROVE  OwnInv'
<1> SUFFICES ASSUME mode' = "up", budget'.dbError = Budget.dbError,
                    NEW d \in Rows(facts)', facts'[d].status = "running"
             PROVE  \E w \in Worker : Recording(w)' /\ job'[w].dev = d
  BY DEF OwnInv, RunningIsOwned, Recording
<1>1. d \in DOMAIN facts /\ RowKept(d) /\ facts'[d] # NoRow
  BY DEF Rows
<1>2. d \in Rows(facts) /\ facts[d].status = "running"
  BY <1>1 DEF RowKept, NewFacts, Rows
<1>3. \E w \in Worker : Recording(w) /\ job[w].dev = d
  BY <1>2 DEF OwnInv, RunningIsOwned, Recording
<1> QED
  BY <1>3

LEMMA OwnStep == TypeInv /\ OwnInv /\ [Next]_vars => OwnInv'
<1> SUFFICES ASSUME TypeInv, OwnInv, [Next]_vars PROVE OwnInv'
  OBVIOUS
<1>0. /\ DOMAIN facts = DeviceId /\ DOMAIN facts' = DeviceId /\ job \in [Worker -> Job]
      /\ budget'.dbError <= Budget.dbError
      /\ budget'.dbError = Budget.dbError => budget.dbError = Budget.dbError
  <2>1. TypeInv'
    BY TypeStep
  <2>2. Budget.dbError \in Nat
    BY FirmwareAssumption DEF BudgetType
  <2> QED
    BY <2>1, <2>2, BudgetFalls DEF OwnInv, TypeInv, TypeOK
<1>1. CASE Start \/ Exit \/ Crash
  <2>1. CASE Exit \/ Crash
    BY <1>0, <2>1 DEF Exit, Crash, ProcessEnds, OwnInv, RunningIsOwned
  <2>2. CASE Start
    <3>1. \A d \in DeviceId : facts'[d] # NoRow => facts'[d].status # "running"
      <4> SUFFICES ASSUME NEW d \in DeviceId, facts'[d] # NoRow PROVE facts'[d].status # "running"
        OBVIOUS
      <4>1. facts[d] \in FactsRow \cup {NoRow}
        BY DEF TypeInv, TypeOK
      <4>2. CASE facts[d] \in FactsRow /\ facts[d].status = "running"
        BY <2>2, <4>2, RowTypes DEF Start, RecoverInterrupted, FactsRow
      <4> QED
        BY <2>2, <4>1, <4>2 DEF Start, RecoverInterrupted
    <3> QED
      BY <1>0, <3>1 DEF OwnInv, RunningIsOwned, Rows
  <2> QED
    BY <1>1, <2>1, <2>2
<1>2. CASE Quiet /\ ~(Start \/ Exit \/ Crash)
  <2>1. UNCHANGED job /\ (mode' = "up" => mode = "up")
    BY <1>2 DEF Quiet, Stop, ReadDue, SubmitDue, SubmitRefused, CreateDevice, ReadReport,
                TimePasses, UpdateDevice, DeleteDevice, CheckNow, Upgrade, vars
  <2>2. \A d \in DOMAIN facts : RowKept(d)
    BY <1>0, <1>2, QuietKeepsRows
  <2> QED
    BY <1>0, <2>1, <2>2, OwnFrame DEF Recording
<1>3. ASSUME NEW w \in Worker, TakeJob(w) \/ Release(w) \/ Ask(w) PROVE OwnInv'
  <2>1. UNCHANGED <<facts, mode>>
    BY <1>3 DEF TakeJob, Release, Ask, tables
  <2>2. \A v \in Worker \ {w} : job'[v] = job[v]
    BY <1>0, <1>3 DEF TakeJob, Release, Ask, Go
  <2>3. Recording(w) => Recording(w)' /\ job'[w].dev = job[w].dev
    <3>1. CASE TakeJob(w) \/ Release(w)
      BY <3>1 DEF TakeJob, Release, At, Recording
    <3>2. CASE Ask(w)
      BY <1>0, <3>2 DEF Ask, Go, Recording, Job
    <3> QED
      BY <1>3, <3>1, <3>2
  <2>4. \A v \in Worker : Recording(v) => Recording(v)' /\ job'[v].dev = job[v].dev
    BY <2>2, <2>3 DEF Recording
  <2>5. \A d \in DOMAIN facts : RowKept(d)
    BY <2>1 DEF RowKept
  <2> QED
    BY <1>0, <2>1, <2>4, <2>5, OwnFrame
<1>4. ASSUME NEW w \in Worker, DbError(w) PROVE OwnInv'
  <2>1. budget'.dbError # Budget.dbError
    <3>1. budget \in BudgetType
      BY DEF TypeInv, TypeOK
    <3>2. budget'.dbError = budget.dbError - 1 /\ budget.dbError \in Nat
      BY <1>4, <3>1 DEF DbError, Spend, BudgetType
    <3> QED
      BY <3>2, FirmwareAssumption DEF OwnInv, BudgetType
  <2> QED
    BY <1>0, <2>1 DEF OwnInv, RunningIsOwned
<1>5. ASSUME NEW w \in Worker, RecordAttempt(w) PROVE OwnInv'
  <2> DEFINE d == job[w].dev
  <2>0. d \in DeviceId /\ ~Recording(w) /\ UNCHANGED mode
    BY <1>5 DEF RecordAttempt, TypeInv, JobSound, At, Recording
  <2>1. CASE device[d] = NoRow
    <3>1. UNCHANGED facts /\ Go(w, "release")
      BY <1>5, <2>1 DEF RecordAttempt
    <3>2. \A v \in Worker : Recording(v) => Recording(v)' /\ job'[v].dev = job[v].dev
      BY <2>0, <3>1, GoEffect DEF Recording
    <3> QED
      BY <1>0, <2>0, <3>1, <3>2, OwnFrame DEF RowKept
  <2>2. CASE device[d] # NoRow
    <3>1. /\ job'[w].pc = "ask" /\ job'[w].dev = d /\ \A v \in Worker \ {w} : job'[v] = job[v]
          /\ \A e \in DeviceId \ {d} : facts'[e] = EnsureFacts[e]
      BY <1>5, <2>0, <2>2, AttemptEffect
    <3> SUFFICES ASSUME mode' = "up", budget'.dbError = Budget.dbError,
                        NEW e \in Rows(facts)', facts'[e].status = "running"
                 PROVE  \E v \in Worker : Recording(v)' /\ job'[v].dev = e
      BY <1>0 DEF OwnInv, RunningIsOwned, Recording
    <3>2. CASE e = d
      BY <3>1, <3>2 DEF Recording
    <3>3. CASE e # d
      <4>1. e \in Rows(facts) /\ facts[e].status = "running"
        BY <1>0, <3>1, <3>3, EnsureFactsEffect DEF Rows, NewFacts
      <4>2. \E v \in Worker : Recording(v) /\ job[v].dev = e
        BY <1>0, <2>0, <4>1 DEF OwnInv, RunningIsOwned, Recording
      <4> QED
        BY <2>0, <3>1, <4>2 DEF Recording
    <3> QED
      BY <3>2, <3>3
  <2> QED
    BY <2>1, <2>2
<1>6. ASSUME NEW w \in Worker, RecordOutcome(w) PROVE OwnInv'
  <2> DEFINE d == job[w].dev
  <2>0. d \in DeviceId /\ Go(w, "release") /\ UNCHANGED mode
    BY <1>6 DEF RecordOutcome, TypeInv, JobSound, At
  <2>1. /\ \A e \in DeviceId \ {d} : facts'[e] = facts[e]
        /\ facts'[d] # NoRow => facts'[d].status # "running"
    BY <1>6, <2>0, OutcomeEffect
  <2>2. \A v \in Worker : Recording(v) /\ job[v].dev # d => Recording(v)' /\ job'[v].dev = job[v].dev
    BY <2>0, GoEffect DEF Recording
  <2> SUFFICES ASSUME mode' = "up", budget'.dbError = Budget.dbError,
                      NEW e \in Rows(facts)', facts'[e].status = "running"
               PROVE  \E v \in Worker : Recording(v)' /\ job'[v].dev = e
    BY <1>0 DEF OwnInv, RunningIsOwned, Recording
  <2>3. e # d /\ e \in Rows(facts) /\ facts[e].status = "running"
    BY <1>0, <2>1 DEF Rows
  <2>4. \E v \in Worker : Recording(v) /\ job[v].dev = e
    BY <1>0, <2>0, <2>3 DEF OwnInv, RunningIsOwned, Recording
  <2> QED
    BY <2>2, <2>3, <2>4
<1> QED
  BY <1>1, <1>2, <1>3, <1>4, <1>5, <1>6 DEF Next, Quiet

\* While the server runs and no transaction failed, a device shown as being
\* checked is being checked, whatever was deleted, refused, stopped or killed.
THEOREM RunningIsOwnedAlways == Spec => []RunningIsOwned
<1>1. Init => TypeInv /\ OwnInv
  <2>1. Init => OwnInv
    BY FirmwareAssumption DEF Init, OwnInv, RunningIsOwned, BudgetType
  <2> QED
    BY <2>1, TypeInit
<1>2. TypeInv /\ OwnInv /\ [Next]_vars => (TypeInv /\ OwnInv)'
  BY TypeStep, OwnStep
<1>3. OwnInv => RunningIsOwned
  BY DEF OwnInv
<1> QED
  BY <1>1, <1>2, <1>3, PTL DEF Spec

-----------------------------------------------------------------------------
(* What is known about versions                                            *)

\* The device the check began with is still the one under its id.
Live(w) == device[job[w].dev] # NoRow /\ device[job[w].dev].born = job[w].born

\* Who a device is, is a name no device had before.
BornFresh ==
    /\ \A d \in Rows(device) : device[d].born > budget.create
    /\ \A w \in Worker : Recording(w) => job[w].born > budget.create
    /\ \A d \in Rows(facts) : facts[d].facts.born # 0 => facts[d].facts.born > budget.create

\* What is shown of a device is not newer than what it runs.
FactsNotAhead ==
    \A d \in Rows(device) \cap Rows(facts) :
        facts[d].facts.born = device[d].born => facts[d].facts.version <= device[d].version

\* What the row of the device a check is about says of the same device.
ShownOf(w) == facts[job[w].dev] # NoRow /\ facts[job[w].dev].facts.born = job[w].born

\* A check in progress: nothing is shown of a device that is gone, and the
\* answer it brings is of the device it began with, not newer than what that
\* runs and not older than what is shown of it.
JobsHonest ==
    \A w \in Worker :
        /\ Recording(w) /\ ShownOf(w) => Live(w)
        /\ At(w, "record") /\ job[w].ok =>
              /\ job[w].facts.born = job[w].born /\ job[w].facts.version # 0
              /\ Live(w) => job[w].facts.version <= device[job[w].dev].version
              /\ ShownOf(w) => facts[job[w].dev].facts.version <= job[w].facts.version

\* While no device was deleted, what is shown under an id is of the device that
\* has it, and a check in progress is about that one.
IdsStand ==
    /\ \A d \in DeviceId : Known(d) => device[d] # NoRow /\ device[d].born = facts[d].facts.born
    /\ \A w \in Worker : Recording(w) => Live(w)

FactsInv == BornFresh /\ FactsNotAhead /\ JobsHonest

OlderInv ==
    /\ budget.delete <= Budget.delete
    /\ budget.delete = Budget.delete => IdsStand
    /\ PreviousIsOlder

\* What a step other than the end of a check does to a device, to what is known
\* of it, and to a check in progress.
DeviceKept(d) ==
    \/ device'[d] = NoRow /\ (device[d] # NoRow => facts'[d] = NoRow)
    \/ /\ device[d] # NoRow /\ device'[d] # NoRow
       /\ device'[d].born = device[d].born /\ device[d].version <= device'[d].version
    \/ /\ device[d] = NoRow /\ device'[d] # NoRow
       /\ device'[d].born = budget.create /\ budget'.create < budget.create

FactsKept(d) ==
    \/ facts'[d] = NoRow
    \/ facts[d] = NoRow /\ facts'[d] # NoRow /\ facts'[d].facts = NoFacts /\ facts'[d].previous = 0
    \/ /\ facts[d] # NoRow /\ facts'[d] # NoRow
       /\ facts'[d].facts = facts[d].facts /\ facts'[d].previous = facts[d].previous

JobKept(w) ==
    /\ Recording(w) /\ job'[w].dev = job[w].dev /\ job'[w].born = job[w].born
    /\ At(w, "record")' /\ job'[w].ok =>
           At(w, "record") /\ job[w].ok /\ job'[w].facts = job[w].facts

JobStarts(w) == job'[w].pc = "ask" /\ Live(w)'

LEMMA DevicesKept ==
    ASSUME TypeInv, [Next]_vars
    PROVE  \A d \in DeviceId : DeviceKept(d)
<1>1. device \in [DeviceId -> DeviceRow \cup {NoRow}]
  BY DEF TypeInv, TypeOK
<1>2. CASE UNCHANGED device
  BY <1>1, <1>2 DEF DeviceKept, DeviceRow
<1>3. CASE CreateDevice
  <2>1. PICK d \in DeviceId, e \in BOOLEAN :
          /\ IsNextId(d)
          /\ device' = [device EXCEPT ![d] = [enabled |-> e, born |-> budget["create"], version |-> 1]]
    BY <1>3 DEF CreateDevice
  <2>2. device[d] = NoRow
    <3>1. \A e1 \in Rows(device) : e1 < d
      BY <2>1 DEF IsNextId
    <3> QED
      BY <1>1, <3>1 DEF Rows, DeviceId
  <2>3. budget'.create < budget.create
    BY <1>3 DEF CreateDevice, Spend, TypeInv, TypeOK, BudgetType
  <2>4. [enabled |-> e, born |-> budget["create"], version |-> 1] # NoRow
    BY RowTypes DEF DeviceRow, TypeInv, TypeOK, BudgetType
  <2> QED
    BY <1>1, <2>1, <2>2, <2>3, <2>4 DEF DeviceKept, DeviceRow
<1>4. ASSUME NEW d \in DeviceId, DeleteDevice(d)
      PROVE  \A e \in DeviceId : DeviceKept(e)
  <2>1. facts'[d] = NoRow
    BY <1>4 DEF DeleteDevice, TypeInv, TypeOK
  <2> QED
    BY <1>1, <1>4, <2>1 DEF DeleteDevice, DeviceKept, DeviceRow
<1>5. ASSUME NEW d \in DeviceId, UpdateDevice(d) \/ Upgrade(d)
      PROVE  \A e \in DeviceId : DeviceKept(e)
  <2>1. device[d] \in DeviceRow /\ device' \in [DeviceId -> DeviceRow \cup {NoRow}]
    <3>1. TypeInv'
      BY TypeStep
    <3> QED
      BY <1>1, <1>5, <3>1 DEF UpdateDevice, Upgrade, TypeInv, TypeOK
  <2>2. CASE UpdateDevice(d)
    <3>1. device' = [device EXCEPT ![d] = [device[d] EXCEPT !.enabled = ~device[d].enabled]]
      BY <2>2 DEF UpdateDevice
    <3>2. /\ device'[d].born = device[d].born /\ device'[d].version = device[d].version
          /\ device'[d] # NoRow /\ \A e \in DeviceId \ {d} : device'[e] = device[e]
      <4> DEFINE no == ~device[d].enabled
      <4>1. no \in BOOLEAN
        OBVIOUS
      <4>2. device' = [device EXCEPT ![d] = [device[d] EXCEPT !.enabled = no]]
        BY <3>1
      <4> HIDE DEF no
      <4>3. [device[d] EXCEPT !.enabled = no] \in DeviceRow
        BY <2>1, <4>1 DEF DeviceRow
      <4> QED
        BY <1>1, <2>1, <4>2, <4>3, RowTypes DEF DeviceRow
    <3> QED
      BY <1>1, <2>1, <3>2, RowTypes DEF DeviceKept, DeviceRow
  <2>3. CASE Upgrade(d)
    <3>1. device' = [device EXCEPT ![d] = [device[d] EXCEPT !.version = device[d].version + 1]]
      BY <2>3 DEF Upgrade
    <3>2. /\ device'[d].born = device[d].born /\ device[d].version <= device'[d].version
          /\ device'[d] # NoRow /\ \A e \in DeviceId \ {d} : device'[e] = device[e]
      <4>1. [device[d] EXCEPT !.version = device[d].version + 1] \in DeviceRow
        BY <2>1 DEF DeviceRow
      <4> QED
        BY <1>1, <2>1, <3>1, <4>1, RowTypes DEF DeviceRow
    <3> QED
      BY <1>1, <2>1, <3>2, RowTypes DEF DeviceKept, DeviceRow
  <2> QED
    BY <1>5, <2>2, <2>3
<1> QED
  BY <1>2, <1>3, <1>4, <1>5
     DEF Next, Start, Stop, Exit, Crash, ProcessEnds, ReadDue, SubmitDue, SubmitRefused, ReadReport,
         TimePasses, CheckNow, TakeJob, RecordAttempt, Ask, RecordOutcome, DbError, Release,
         tables, vars

\* Steps that record nothing keep what is known in step with what is there.
LEMMA FactsFrame ==
    ASSUME TypeInv, TypeInv', FactsInv, [Next]_vars,
           \A d \in DeviceId : FactsKept(d),
           \A w \in Worker : Recording(w)' => JobKept(w) \/ JobStarts(w)
    PROVE  FactsInv'
<1>1. /\ \A d \in DeviceId : DeviceKept(d)
      /\ budget.create \in Nat /\ budget'.create \in Nat /\ budget'.create <= budget.create
  BY DevicesKept, BudgetFalls
<1>2. /\ device \in [DeviceId -> DeviceRow \cup {NoRow}]
      /\ facts \in [DeviceId -> FactsRow \cup {NoRow}] /\ job \in [Worker -> Job]
      /\ device' \in [DeviceId -> DeviceRow \cup {NoRow}]
      /\ facts' \in [DeviceId -> FactsRow \cup {NoRow}] /\ job' \in [Worker -> Job]
      /\ \A w \in Worker : Recording(w) => job[w].dev \in DeviceId
      /\ \A w \in Worker : Recording(w)' => job'[w].dev \in DeviceId
  BY DEF TypeInv, TypeOK, JobSound, Recording, At
<1>3. BornFresh'
  <2>1. \A d \in Rows(device)' : device'[d].born > budget'.create
    <3> SUFFICES ASSUME NEW d \in DeviceId, device'[d] # NoRow PROVE device'[d].born > budget'.create
      BY <1>2 DEF Rows
    <3>1. device'[d].born \in Nat
      BY <1>2 DEF DeviceRow
    <3>2. CASE device[d] # NoRow
      <4>1. device[d].born > budget.create /\ device'[d].born = device[d].born
        BY <1>1, <1>2, <3>2 DEF FactsInv, BornFresh, Rows, DeviceKept
      <4> QED
        BY <1>1, <3>1, <4>1
    <3>3. CASE device[d] = NoRow
      BY <1>1, <3>3 DEF DeviceKept
    <3> QED
      BY <3>2, <3>3
  <2>2. \A w \in Worker : Recording(w)' => job'[w].born > budget'.create
    <3> SUFFICES ASSUME NEW w \in Worker, Recording(w)' PROVE job'[w].born > budget'.create
      OBVIOUS
    <3>1. job'[w].born \in Nat
      BY <1>2 DEF Job
    <3>2. CASE JobKept(w)
      <4>1. job'[w].born > budget.create
        BY <3>2 DEF FactsInv, BornFresh, JobKept
      <4> QED
        BY <1>1, <3>1, <4>1
    <3>3. CASE JobStarts(w)
      BY <1>2, <2>1, <3>3 DEF JobStarts, Live, Rows
    <3> QED
      BY <3>2, <3>3
  <2>3. \A d \in Rows(facts)' : facts'[d].facts.born # 0 => facts'[d].facts.born > budget'.create
    <3> SUFFICES ASSUME NEW d \in DeviceId, facts'[d] # NoRow, facts'[d].facts.born # 0
                 PROVE  facts'[d].facts.born > budget'.create
      BY <1>2 DEF Rows
    <3>1. facts[d] # NoRow /\ facts'[d].facts = facts[d].facts
      BY DEF FactsKept, NoFacts
    <3>2. facts[d].facts.born > budget.create /\ facts[d].facts.born \in Nat
      BY <1>2, <3>1 DEF FactsInv, BornFresh, Rows, FactsRow, Answer
    <3> QED
      BY <1>1, <3>1, <3>2
  <2> QED
    BY <2>1, <2>2, <2>3 DEF BornFresh
<1>4. FactsNotAhead'
  <2> SUFFICES ASSUME NEW d \in DeviceId, device'[d] # NoRow, facts'[d] # NoRow,
                      facts'[d].facts.born = device'[d].born
               PROVE  facts'[d].facts.version <= device'[d].version
    BY <1>2 DEF FactsNotAhead, Rows
  <2>1. device'[d].version \in Nat /\ facts'[d].facts.version \in Nat
    BY <1>2 DEF DeviceRow, FactsRow, Answer
  <2>2. CASE facts[d] = NoRow
    BY <2>1, <2>2 DEF FactsKept, NoFacts
  <2>3. CASE facts[d] # NoRow
    <3>1. facts'[d].facts = facts[d].facts
      BY <2>3 DEF FactsKept
    <3>2. device[d] # NoRow
      <4> SUFFICES ASSUME device[d] = NoRow PROVE FALSE
        OBVIOUS
      <4>1. device'[d].born = budget.create /\ budget.create # 0
        BY <1>1 DEF DeviceKept
      <4>2. facts[d].facts.born > budget.create
        BY <1>2, <2>3, <3>1, <4>1 DEF FactsInv, BornFresh, Rows
      <4> QED
        BY <1>1, <3>1, <4>1, <4>2
    <3>3. device'[d].born = device[d].born /\ device[d].version <= device'[d].version
      BY <1>1, <3>2 DEF DeviceKept
    <3>4. facts[d].facts.version <= device[d].version
      BY <1>2, <2>3, <3>1, <3>2, <3>3 DEF FactsInv, FactsNotAhead, Rows
    <3>5. device[d].version \in Nat
      BY <1>2, <3>2 DEF DeviceRow
    <3> QED
      BY <2>1, <3>1, <3>3, <3>4, <3>5
  <2> QED
    BY <2>2, <2>3
<1>5. JobsHonest'
  <2> SUFFICES ASSUME NEW w \in Worker, Recording(w)'
               PROVE  /\ ShownOf(w)' => Live(w)'
                      /\ At(w, "record")' /\ job'[w].ok =>
                           /\ job'[w].facts.born = job'[w].born /\ job'[w].facts.version # 0
                           /\ Live(w)' => job'[w].facts.version <= device'[job'[w].dev].version
                           /\ ShownOf(w)' => facts'[job'[w].dev].facts.version <= job'[w].facts.version
    BY DEF JobsHonest, Recording, At
  <2>1. CASE JobStarts(w)
    BY <2>1 DEF JobStarts, At
  <2>2. CASE JobKept(w)
    <3> DEFINE d == job[w].dev
    <3>1. Recording(w) /\ d \in DeviceId /\ job'[w].dev = d /\ job'[w].born = job[w].born
      BY <1>2, <2>2 DEF JobKept
    <3>2. job[w].born # 0 /\ job[w].born > budget.create /\ job[w].born \in Nat
      <4>1. job[w].born > budget.create /\ job[w].born \in Nat
        BY <1>2, <3>1 DEF FactsInv, BornFresh, Job
      <4> QED
        BY <1>1, <4>1
    <3>3. ShownOf(w)' => ShownOf(w) /\ facts'[d].facts = facts[d].facts
      BY <3>1, <3>2 DEF ShownOf, FactsKept, NoFacts
    <3>4. Live(w)' => Live(w) /\ device[d].version <= device'[d].version
      <4> SUFFICES ASSUME Live(w)' PROVE Live(w) /\ device[d].version <= device'[d].version
        OBVIOUS
      <4>1. device'[d] # NoRow /\ device'[d].born = job[w].born
        BY <3>1 DEF Live
      <4>2. device'[d].born # budget.create
        BY <1>1, <3>2, <4>1
      <4> QED
        BY <1>1, <3>1, <4>1, <4>2 DEF Live, DeviceKept
    <3>5. ShownOf(w)' => Live(w)'
      <4>1. ShownOf(w)' => Live(w) /\ facts'[d] # NoRow
        BY <3>1, <3>3 DEF FactsInv, JobsHonest, ShownOf
      <4> QED
        BY <1>1, <3>1, <4>1 DEF Live, DeviceKept
    <3>6. ASSUME At(w, "record")', job'[w].ok
          PROVE  /\ job'[w].facts.born = job'[w].born /\ job'[w].facts.version # 0
                 /\ Live(w)' => job'[w].facts.version <= device'[d].version
                 /\ ShownOf(w)' => facts'[d].facts.version <= job'[w].facts.version
      <4>1. At(w, "record") /\ job[w].ok /\ job'[w].facts = job[w].facts
        BY <2>2, <3>6 DEF JobKept
      <4>2. /\ job[w].facts.born = job[w].born /\ job[w].facts.version # 0
            /\ Live(w) => job[w].facts.version <= device[d].version
            /\ ShownOf(w) => facts[d].facts.version <= job[w].facts.version
        BY <4>1 DEF FactsInv, JobsHonest
      <4>3. job[w].facts.version \in Nat
        BY <1>2 DEF Job, Answer
      <4>4. Live(w)' => device[d].version \in Nat /\ device'[d].version \in Nat
        <5>1. Live(w)' => device[d] \in DeviceRow /\ device'[d] \in DeviceRow
          BY <1>2, <3>1, <3>4 DEF Live
        <5> QED
          BY <5>1 DEF DeviceRow
      <4> QED
        BY <3>1, <3>3, <3>4, <4>1, <4>2, <4>3, <4>4
    <3> QED
      BY <3>1, <3>5, <3>6
  <2> QED
    BY <2>1, <2>2
<1> QED
  BY <1>3, <1>4, <1>5 DEF FactsInv

\* A check is answered: it learns a version of the device it asked.
Answered(w) ==
    \E v \in 1..(Budget["upgrade"] + 1) :
        /\ At(w, "ask") /\ UNCHANGED tables
        /\ Live(w) => v = device[job[w].dev].version
        /\ job' = [job EXCEPT ![w].pc = "record", ![w].ok = TRUE,
                              ![w].facts = [born |-> job[w].born, version |-> v]]

\* Every step is the answer to a check, its end, or one that keeps what is known.
LEMMA StepKinds ==
    ASSUME TypeInv, [Next]_vars
    PROVE  \/ \E w \in Worker : RecordOutcome(w) \/ Answered(w)
           \/ /\ \A d \in DeviceId : FactsKept(d)
              /\ \A w \in Worker : Recording(w)' => JobKept(w) \/ JobStarts(w)
<1> DEFINE Keeps == /\ \A d \in DeviceId : FactsKept(d)
                    /\ \A w \in Worker : Recording(w)' => JobKept(w) \/ JobStarts(w)
<1>0. job \in [Worker -> Job] /\ facts \in [DeviceId -> FactsRow \cup {NoRow}]
  BY DEF TypeInv, TypeOK
<1>1. CASE Quiet
  <2>1. \A d \in DeviceId : FactsKept(d)
    BY <1>1, QuietKeepsRows, RowTypes DEF RowKept, FactsKept, NewFacts
  <2>2. \A w \in Worker : job'[w] = job[w] \/ job'[w] = IdleJob
    BY <1>1 DEF Quiet, Start, Stop, Exit, Crash, ProcessEnds, ReadDue, SubmitDue, SubmitRefused,
                CreateDevice, ReadReport, TimePasses, UpdateDevice, DeleteDevice, CheckNow, Upgrade,
                vars
  <2>3. \A w \in Worker : Recording(w)' => JobKept(w)
    BY <2>2 DEF Recording, JobKept, At, IdleJob
  <2> QED
    BY <2>1, <2>3
<1>2. ASSUME NEW w \in Worker, TakeJob(w) \/ Release(w) \/ DbError(w) PROVE Keeps
  <2>1. UNCHANGED facts /\ ~Recording(w)' /\ \A v \in Worker \ {w} : job'[v] = job[v]
    <3>1. CASE TakeJob(w)
      BY <1>0, <3>1 DEF TakeJob, tables, IdleJob, Recording
    <3>2. CASE Release(w)
      BY <1>0, <3>2 DEF Release, tables, IdleJob, Recording
    <3>3. CASE DbError(w)
      BY <3>3, GoEffect DEF DbError, tables, Recording
    <3> QED
      BY <1>2, <3>1, <3>2, <3>3
  <2>2. \A v \in Worker : Recording(v)' => JobKept(v)
    BY <2>1 DEF Recording, JobKept, At
  <2> QED
    BY <2>1, <2>2 DEF FactsKept
<1>3. ASSUME NEW w \in Worker, RecordAttempt(w) PROVE Keeps
  <2> DEFINE d == job[w].dev
  <2>0. d \in DeviceId /\ UNCHANGED device
    BY <1>3 DEF RecordAttempt, TypeInv, JobSound, At
  <2>1. CASE device[d] = NoRow
    <3>1. UNCHANGED facts /\ Go(w, "release")
      BY <1>3, <2>1 DEF RecordAttempt
    <3>2. \A v \in Worker : Recording(v)' => JobKept(v)
      BY <3>1, GoEffect DEF Recording, JobKept, At
    <3> QED
      BY <3>1, <3>2 DEF FactsKept
  <2>2. CASE device[d] # NoRow
    <3>1. /\ job'[w].pc = "ask" /\ job'[w].dev = d /\ job'[w].born = device[d].born
          /\ \A v \in Worker \ {w} : job'[v] = job[v]
          /\ facts'[d] # NoRow /\ facts'[d].facts = EnsureFacts[d].facts
          /\ facts'[d].previous = EnsureFacts[d].previous
          /\ \A e \in DeviceId \ {d} : facts'[e] = EnsureFacts[e]
      BY <1>3, <2>0, <2>2, AttemptEffect
    <3>2. JobStarts(w) /\ \A v \in Worker \ {w} : Recording(v)' => JobKept(v)
      BY <2>0, <2>2, <3>1 DEF JobStarts, Live, Recording, JobKept, At
    <3>3. \A e \in DeviceId : FactsKept(e)
      <4> SUFFICES ASSUME NEW e \in DeviceId PROVE FactsKept(e)
        OBVIOUS
      <4>1. EnsureFacts[e] = facts[e] \/ (facts[e] = NoRow /\ EnsureFacts[e] = NewFacts)
        BY EnsureFactsEffect
      <4>2. EnsureFacts[d] # NoRow
        BY <2>0, <2>2, EnsureFactsEffect, RowTypes
      <4>3. CASE e = d
        BY <3>1, <4>1, <4>2, <4>3 DEF FactsKept, NewFacts
      <4>4. CASE e # d
        BY <3>1, <4>1, <4>4, RowTypes DEF FactsKept, NewFacts
      <4> QED
        BY <4>3, <4>4
    <3> QED
      BY <3>2, <3>3
  <2> QED
    BY <2>1, <2>2
<1>4. ASSUME NEW w \in Worker, Ask(w) PROVE Keeps \/ Answered(w)
  <2>1. CASE Go(w, "record")
    <3>1. ~job'[w].ok /\ \A v \in Worker \ {w} : job'[v] = job[v]
      BY <1>4, <2>1, GoEffect DEF Ask, TypeInv, JobSound, At
    <3>2. Recording(w) /\ job'[w].dev = job[w].dev /\ job'[w].born = job[w].born
      BY <1>4, <2>1, GoEffect DEF Ask, At, Recording
    <3>3. \A v \in Worker : Recording(v)' => JobKept(v)
      BY <3>1, <3>2 DEF Recording, JobKept, At
    <3> QED
      BY <1>4, <3>3 DEF Ask, tables, FactsKept
  <2>2. CASE ~Go(w, "record")
    BY <1>4, <2>2 DEF Ask, Answered, Live
  <2> QED
    BY <2>1, <2>2
<1> QED
  BY <1>1, <1>2, <1>3, <1>4 DEF Next, Quiet

LEMMA AnsweredEffect ==
    ASSUME TypeInv, NEW w \in Worker, Answered(w)
    PROVE  /\ UNCHANGED tables /\ Recording(w) /\ \A v \in Worker \ {w} : job'[v] = job[v]
           /\ job'[w].pc = "record" /\ job'[w].dev = job[w].dev /\ job'[w].born = job[w].born
           /\ job'[w].facts.born = job[w].born /\ job'[w].facts.version \in Nat \ {0}
           /\ Live(w) => job'[w].facts.version = device[job[w].dev].version
<1>1. PICK v \in 1..(Budget["upgrade"] + 1) :
         /\ Live(w) => v = device[job[w].dev].version
         /\ job' = [job EXCEPT ![w].pc = "record", ![w].ok = TRUE,
                               ![w].facts = [born |-> job[w].born, version |-> v]]
  BY DEF Answered
<1>2. job \in [Worker -> Job] /\ v \in Nat \ {0}
  BY FirmwareAssumption DEF TypeInv, TypeOK, BudgetType
<1>3. /\ \A u \in Worker \ {w} : job'[u] = job[u]
      /\ job'[w].pc = "record" /\ job'[w].dev = job[w].dev /\ job'[w].born = job[w].born
      /\ job'[w].facts = [born |-> job[w].born, version |-> v]
  BY <1>1, <1>2 DEF Job
<1> QED
  BY <1>1, <1>2, <1>3 DEF Answered, Recording, At

LEMMA FactsAnswered ==
    ASSUME TypeInv, FactsInv, [Next]_vars, NEW w \in Worker, Answered(w)
    PROVE  FactsInv'
<1> DEFINE d == job[w].dev
<1>1. /\ UNCHANGED tables /\ Recording(w) /\ \A v \in Worker \ {w} : job'[v] = job[v]
      /\ job'[w].pc = "record" /\ job'[w].dev = d /\ job'[w].born = job[w].born
      /\ job'[w].facts.born = job[w].born /\ job'[w].facts.version \in Nat \ {0}
      /\ Live(w) => job'[w].facts.version = device[d].version
  BY AnsweredEffect
<1>2. /\ d \in DeviceId /\ budget.create \in Nat /\ budget'.create \in Nat
      /\ budget'.create <= budget.create
      /\ device \in [DeviceId -> DeviceRow \cup {NoRow}]
      /\ facts \in [DeviceId -> FactsRow \cup {NoRow}] /\ job \in [Worker -> Job]
  BY <1>1, BudgetFalls DEF TypeInv, TypeOK, JobSound, Recording, At
<1>3. BornFresh'
  <2>1. \A x \in Nat : x > budget.create => x > budget'.create
    BY <1>2
  <2>2. /\ \A e \in Rows(device) : device[e].born \in Nat /\ device[e].born > budget.create
        /\ \A e \in Rows(facts) : facts[e].facts.born \in Nat
        /\ \A v \in Worker : job[v].born \in Nat
    BY <1>2 DEF Rows, DeviceRow, FactsRow, Answer, Job, FactsInv, BornFresh
  <2>3. \A e \in Rows(device)' : device'[e].born > budget'.create
    BY <1>1, <2>1, <2>2 DEF Rows, tables
  <2>4. \A e \in Rows(facts)' : facts'[e].facts.born # 0 => facts'[e].facts.born > budget'.create
    BY <1>1, <2>1, <2>2 DEF Rows, tables, FactsInv, BornFresh
  <2>5. ASSUME NEW v \in Worker, Recording(v)' PROVE job'[v].born > budget'.create
    <3>1. Recording(v) /\ job'[v].born = job[v].born
      BY <1>1, <2>5 DEF Recording
    <3> QED
      BY <2>1, <2>2, <3>1 DEF FactsInv, BornFresh
  <2> QED
    BY <2>3, <2>4, <2>5 DEF BornFresh
<1>4. FactsNotAhead'
  BY <1>1 DEF FactsInv, FactsNotAhead, Rows, tables
<1>5. JobsHonest'
  <2>1. ASSUME NEW v \in Worker \ {w}
        PROVE  /\ Recording(v)' /\ ShownOf(v)' => Live(v)'
               /\ At(v, "record")' /\ job'[v].ok =>
                     /\ job'[v].facts.born = job'[v].born /\ job'[v].facts.version # 0
                     /\ Live(v)' => job'[v].facts.version <= device'[job'[v].dev].version
                     /\ ShownOf(v)' => facts'[job'[v].dev].facts.version <= job'[v].facts.version
    BY <1>1, <2>1 DEF FactsInv, JobsHonest, Recording, ShownOf, Live, At, tables
  <2>2. (ShownOf(w)' <=> ShownOf(w)) /\ (Live(w)' <=> Live(w))
    BY <1>1 DEF ShownOf, Live, tables
  <2>3. ShownOf(w) => Live(w)
    BY <1>1 DEF FactsInv, JobsHonest
  <2>4. Live(w) => job'[w].facts.version <= device[d].version
    BY <1>1
  <2>5. ShownOf(w) => facts[d].facts.version <= job'[w].facts.version
    <3> SUFFICES ASSUME ShownOf(w) PROVE facts[d].facts.version <= job'[w].facts.version
      OBVIOUS
    <3>1. d \in Rows(device) \cap Rows(facts) /\ facts[d].facts.born = device[d].born
      BY <1>2, <2>3 DEF ShownOf, Live, Rows
    <3> QED
      BY <1>1, <2>3, <3>1 DEF FactsInv, FactsNotAhead
  <2>6. /\ Recording(w)' /\ ShownOf(w)' => Live(w)'
        /\ At(w, "record")' /\ job'[w].ok =>
              /\ job'[w].facts.born = job'[w].born /\ job'[w].facts.version # 0
              /\ Live(w)' => job'[w].facts.version <= device'[job'[w].dev].version
              /\ ShownOf(w)' => facts'[job'[w].dev].facts.version <= job'[w].facts.version
    BY <1>1, <2>2, <2>3, <2>4, <2>5 DEF tables
  <2> QED
    BY <2>1, <2>6 DEF JobsHonest
<1> QED
  BY <1>3, <1>4, <1>5 DEF FactsInv

\* No other check is about the same device: that is what the gate is for.
LEMMA FactsRecorded ==
    ASSUME TypeInv, GateInv, FactsInv, [Next]_vars, NEW w \in Worker, RecordOutcome(w)
    PROVE  FactsInv'
<1> DEFINE d == job[w].dev
<1>1. /\ d \in DeviceId /\ At(w, "record") /\ Recording(w) /\ Go(w, "release")
      /\ UNCHANGED <<device, budget>>
  BY DEF RecordOutcome, TypeInv, JobSound, At, Recording
<1>2. /\ device \in [DeviceId -> DeviceRow \cup {NoRow}]
      /\ facts \in [DeviceId -> FactsRow \cup {NoRow}] /\ job \in [Worker -> Job]
      /\ \A v \in Worker : Recording(v) => job[v].dev \in DeviceId
  BY DEF TypeInv, TypeOK, JobSound, Recording, At
<1>3. /\ facts' \in [DeviceId -> FactsRow \cup {NoRow}]
      /\ \A e \in DeviceId \ {d} : facts'[e] = facts[e]
      /\ facts[d] = NoRow => facts'[d] = NoRow
      /\ facts[d] # NoRow => facts'[d] # NoRow
      /\ facts[d] # NoRow /\ ~job[w].ok => facts'[d].facts = facts[d].facts
      /\ facts[d] # NoRow /\ job[w].ok => facts'[d].facts = job[w].facts
  BY <1>1, OutcomeEffect
<1>4. ~Recording(w)' /\ \A v \in Worker \ {w} : job'[v] = job[v]
  BY <1>1, GoEffect DEF Recording
<1>5. \A v \in Worker \ {w} : Recording(v) => job[v].dev \in DeviceId \ {d}
  BY <1>1, <1>2 DEF GateInv, Busy, Recording, At
<1>6. job[w].ok => job[w].facts.born = job[w].born /\ job[w].born > budget.create
  BY <1>1 DEF FactsInv, JobsHonest, BornFresh
<1>7. BornFresh'
  <2>1. \A e \in Rows(facts)' : facts'[e].facts.born # 0 => facts'[e].facts.born > budget'.create
    <3> SUFFICES ASSUME NEW e \in DeviceId, facts'[e] # NoRow, facts'[e].facts.born # 0
                 PROVE  facts'[e].facts.born > budget.create
      BY <1>1, <1>3 DEF Rows
    <3>1. CASE e = d
      BY <1>2, <1>3, <1>6, <3>1 DEF FactsInv, BornFresh, Rows
    <3>2. CASE e # d
      BY <1>2, <1>3, <3>2 DEF FactsInv, BornFresh, Rows
    <3> QED
      BY <3>1, <3>2
  <2>2. \A v \in Worker : Recording(v)' => job'[v].born > budget'.create
    BY <1>1, <1>4 DEF FactsInv, BornFresh, Recording
  <2> QED
    BY <1>1, <2>1, <2>2 DEF FactsInv, BornFresh, Rows
<1>8. FactsNotAhead'
  <2> SUFFICES ASSUME NEW e \in DeviceId, device[e] # NoRow, facts'[e] # NoRow,
                      facts'[e].facts.born = device[e].born
               PROVE  facts'[e].facts.version <= device[e].version
    BY <1>1, <1>2 DEF FactsNotAhead, Rows
  <2>1. CASE e # d \/ ~job[w].ok
    <3>1. facts[e] # NoRow /\ facts'[e].facts = facts[e].facts
      BY <1>3, <2>1
    <3> QED
      BY <1>2, <3>1 DEF FactsInv, FactsNotAhead, Rows
  <2>2. CASE e = d /\ job[w].ok
    <3>1. facts'[e].facts = job[w].facts
      BY <1>3, <2>2
    <3>2. Live(w)
      BY <1>6, <2>2, <3>1 DEF Live
    <3> QED
      BY <1>1, <2>2, <3>1, <3>2 DEF FactsInv, JobsHonest
  <2> QED
    BY <2>1, <2>2
<1>9. JobsHonest'
  <2> SUFFICES ASSUME NEW v \in Worker, Recording(v)'
               PROVE  /\ ShownOf(v)' => Live(v)'
                      /\ At(v, "record")' /\ job'[v].ok =>
                           /\ job'[v].facts.born = job'[v].born /\ job'[v].facts.version # 0
                           /\ Live(v)' => job'[v].facts.version <= device'[job'[v].dev].version
                           /\ ShownOf(v)' => facts'[job'[v].dev].facts.version <= job'[v].facts.version
    BY DEF JobsHonest, Recording, At
  <2>1. v # w /\ job'[v] = job[v] /\ Recording(v) /\ job[v].dev \in DeviceId \ {d}
    BY <1>4, <1>5 DEF Recording
  <2>2. facts'[job[v].dev] = facts[job[v].dev]
    BY <1>3, <2>1
  <2> QED
    BY <1>1, <2>1, <2>2 DEF FactsInv, JobsHonest, ShownOf, Live, At
<1> QED
  BY <1>7, <1>8, <1>9 DEF FactsInv

LEMMA FactsStep == TypeInv /\ GateInv /\ FactsInv /\ [Next]_vars => FactsInv'
BY TypeStep, StepKinds, FactsFrame, FactsAnswered, FactsRecorded

LEMMA FactsInit == Init => FactsInv
BY DEF Init, FactsInv, BornFresh, FactsNotAhead, JobsHonest, Rows, Recording, At, IdleJob

\* What one step may do to what is known: the promise of NeverGoesBack.
LEMMA StepNeverGoesBack ==
    ASSUME TypeInv, FactsInv, [Next]_vars, NEW d \in DeviceId, Known(d)
    PROVE  \/ facts'[d] = NoRow
           \/ /\ Known(d)'
              /\ facts'[d].facts.born = facts[d].facts.born =>
                     facts[d].facts.version <= facts'[d].facts.version
<1>0. /\ facts \in [DeviceId -> FactsRow \cup {NoRow}] /\ facts[d] \in FactsRow
      /\ facts[d].facts.version \in Nat
  BY DEF TypeInv, TypeOK, Known, FactsRow, Answer
<1>1. CASE FactsKept(d)
  BY <1>0, <1>1 DEF FactsKept, Known
<1>2. ASSUME NEW w \in Worker, Answered(w)
      PROVE  Known(d)' /\ facts[d].facts.version <= facts'[d].facts.version
  BY <1>0, <1>2 DEF Answered, tables, Known
<1>3. ASSUME NEW w \in Worker, RecordOutcome(w)
      PROVE  \/ facts'[d] = NoRow
             \/ /\ Known(d)'
                /\ facts'[d].facts.born = facts[d].facts.born =>
                       facts[d].facts.version <= facts'[d].facts.version
  <2>1. At(w, "record") /\ job[w].dev \in DeviceId /\ Recording(w)
    BY <1>3 DEF RecordOutcome, TypeInv, JobSound, At, Recording
  <2>2. CASE d # job[w].dev \/ ~job[w].ok
    <3>1. facts'[d].facts = facts[d].facts /\ facts'[d] # NoRow
      BY <1>3, <2>1, <2>2, OutcomeEffect DEF Known
    <3> QED
      BY <1>0, <3>1 DEF Known
  <2>3. CASE d = job[w].dev /\ job[w].ok
    <3>1. facts'[d].facts = job[w].facts /\ facts'[d] # NoRow
      BY <1>3, <2>1, <2>3, OutcomeEffect DEF Known
    <3>2. /\ job[w].facts.born = job[w].born /\ job[w].facts.version # 0
          /\ facts[d].facts.born = job[w].born => facts[d].facts.version <= job[w].facts.version
      BY <2>1, <2>3 DEF FactsInv, JobsHonest, ShownOf, Known
    <3> QED
      BY <3>1, <3>2 DEF Known
  <2> QED
    BY <2>2, <2>3
<1> QED
  BY <1>1, <1>2, <1>3, StepKinds

\* A version once known stays known until the device's row goes, and no check,
\* however long it took, records an older version of the device over a newer
\* one: for any number of devices and threads, upgrades, deletions and restarts.
THEOREM VersionsNeverGoBack == Spec => NeverGoesBack
<1>1. Init => TypeInv /\ GateInv /\ FactsInv
  BY TypeInit, GateInit, FactsInit
<1>2. TypeInv /\ GateInv /\ FactsInv /\ [Next]_vars => (TypeInv /\ GateInv /\ FactsInv)'
  BY TypeStep, GateStep, FactsStep
<1>3. TypeInv /\ FactsInv /\ [Next]_vars =>
        [\A d \in DeviceId : Known(d) =>
            \/ facts'[d] = NoRow
            \/ /\ Known(d)'
               /\ facts'[d].facts.born = facts[d].facts.born =>
                      facts[d].facts.version <= facts'[d].facts.version]_vars
  BY StepNeverGoesBack
<1> QED
  BY <1>1, <1>2, <1>3, PTL DEF Spec, NeverGoesBack

\* While no device was deleted none is taken away.
LEMMA NoneTaken ==
    ASSUME TypeInv, [Next]_vars, budget.delete <= Budget.delete, budget'.delete = Budget.delete
    PROVE  /\ budget.delete = Budget.delete
           /\ \A d \in DeviceId : device[d] # NoRow => device'[d] # NoRow
<1>1. budget.delete = Budget.delete
  BY BudgetFalls, FirmwareAssumption DEF BudgetType
<1>2. ASSUME NEW d \in DeviceId, DeleteDevice(d) PROVE FALSE
  <2>1. budget'.delete = budget.delete - 1 /\ budget.delete \in Nat
    BY <1>2 DEF DeleteDevice, Spend, TypeInv, TypeOK, BudgetType
  <2> QED
    BY <1>1, <2>1
<1>3. device \in [DeviceId -> DeviceRow \cup {NoRow}] /\ device' \in [DeviceId -> DeviceRow \cup {NoRow}]
  BY TypeStep DEF TypeInv, TypeOK
<1>4. CASE UNCHANGED device
  BY <1>1, <1>4
<1>5. CASE CreateDevice
  <2>1. \A e \in BOOLEAN : [enabled |-> e, born |-> budget["create"], version |-> 1] # NoRow
    BY RowTypes DEF DeviceRow, TypeInv, TypeOK, BudgetType
  <2> QED
    BY <1>1, <1>3, <1>5, <2>1 DEF CreateDevice
<1>6. ASSUME NEW d \in DeviceId, UpdateDevice(d) \/ Upgrade(d)
      PROVE  \A e \in DeviceId : device[e] # NoRow => device'[e] # NoRow
  <2>1. device'[d] # NoRow
    <3>1. DeviceKept(d) /\ device[d] # NoRow
      BY <1>6, DevicesKept DEF UpdateDevice, Upgrade
    <3>2. UNCHANGED facts /\ \A r : device' = [device EXCEPT ![d] = r] => device'[d] = r
      BY <1>3, <1>6 DEF UpdateDevice, Upgrade
    <3>3. device[d] \in DeviceRow
      BY <1>3, <3>1
    <3>4. CASE UpdateDevice(d)
      <4> DEFINE no == ~device[d].enabled
      <4>1. no \in BOOLEAN /\ device'[d] = [device[d] EXCEPT !.enabled = no]
        BY <3>2, <3>4 DEF UpdateDevice
      <4> HIDE DEF no
      <4>2. device'[d] \in DeviceRow
        BY <3>3, <4>1 DEF DeviceRow
      <4> QED
        BY <4>2, RowTypes
    <3>5. CASE Upgrade(d)
      <4>1. device'[d] = [device[d] EXCEPT !.version = device[d].version + 1]
        BY <3>2, <3>5 DEF Upgrade
      <4>2. device'[d] \in DeviceRow
        BY <3>3, <4>1 DEF DeviceRow
      <4> QED
        BY <4>2, RowTypes
    <3> QED
      BY <1>6, <3>4, <3>5
  <2>2. \A e \in DeviceId \ {d} : device'[e] = device[e]
    BY <1>3, <1>6 DEF UpdateDevice, Upgrade
  <2> QED
    BY <2>1, <2>2
<1> QED
  BY <1>1, <1>2, <1>4, <1>5, <1>6
     DEF Next, Start, Stop, Exit, Crash, ProcessEnds, ReadDue, SubmitDue, SubmitRefused, ReadReport,
         TimePasses, CheckNow, TakeJob, RecordAttempt, Ask, RecordOutcome, DbError, Release,
         tables, vars

LEMMA IdsStep ==
    ASSUME TypeInv, TypeInv', FactsInv, IdsStand, [Next]_vars,
           \A d \in DeviceId : device[d] # NoRow => device'[d] # NoRow
    PROVE  IdsStand'
<1>1. /\ \A w \in Worker : Recording(w) => job[w].dev \in DeviceId
      /\ \A w \in Worker : Recording(w)' => job'[w].dev \in DeviceId
      /\ facts \in [DeviceId -> FactsRow \cup {NoRow}]
      /\ facts' \in [DeviceId -> FactsRow \cup {NoRow}]
  BY DEF TypeInv, TypeOK, JobSound, Recording, At
<1>2. \A d \in DeviceId : device[d] # NoRow => device'[d] # NoRow /\ device'[d].born = device[d].born
  BY DevicesKept DEF DeviceKept
<1>3. \A w \in Worker : Recording(w) /\ Recording(w)' /\ job'[w].dev = job[w].dev
                           /\ job'[w].born = job[w].born => Live(w)'
  BY <1>1, <1>2 DEF IdsStand, Live
<1>4. CASE /\ \A d \in DeviceId : FactsKept(d)
           /\ \A w \in Worker : Recording(w)' => JobKept(w) \/ JobStarts(w)
  <2>1. ASSUME NEW d \in DeviceId, Known(d)'
        PROVE  device'[d] # NoRow /\ device'[d].born = facts'[d].facts.born
    <3>1. Known(d) /\ facts'[d].facts = facts[d].facts
      BY <1>4, <2>1 DEF FactsKept, Known, NoFacts
    <3> QED
      BY <1>2, <3>1 DEF IdsStand
  <2>2. \A w \in Worker : Recording(w)' => Live(w)'
    BY <1>3, <1>4 DEF JobKept, JobStarts
  <2> QED
    BY <2>1, <2>2 DEF IdsStand
<1>5. ASSUME NEW w \in Worker, Answered(w) PROVE IdsStand'
  <2>1. /\ UNCHANGED tables /\ Recording(w) /\ \A v \in Worker \ {w} : job'[v] = job[v]
        /\ job'[w].dev = job[w].dev /\ job'[w].born = job[w].born
    BY <1>5, AnsweredEffect
  <2>2. \A v \in Worker : Recording(v)' => Live(v)'
    BY <1>3, <2>1 DEF Recording
  <2> QED
    BY <2>1, <2>2 DEF IdsStand, Known, tables
<1>6. ASSUME NEW w \in Worker, RecordOutcome(w) PROVE IdsStand'
  <2> DEFINE d == job[w].dev
  <2>1. /\ d \in DeviceId /\ At(w, "record") /\ Recording(w) /\ Go(w, "release")
        /\ UNCHANGED device
    BY <1>6 DEF RecordOutcome, TypeInv, JobSound, At, Recording
  <2>2. /\ \A e \in DeviceId \ {d} : facts'[e] = facts[e]
        /\ facts[d] = NoRow => facts'[d] = NoRow
        /\ facts[d] # NoRow /\ ~job[w].ok => facts'[d].facts = facts[d].facts
        /\ facts[d] # NoRow /\ job[w].ok => facts'[d].facts = job[w].facts
    BY <1>6, <2>1, OutcomeEffect
  <2>3. Live(w) /\ (job[w].ok => job[w].facts.born = job[w].born)
    BY <2>1 DEF IdsStand, FactsInv, JobsHonest
  <2>4. ASSUME NEW e \in DeviceId, Known(e)'
        PROVE  device'[e] # NoRow /\ device'[e].born = facts'[e].facts.born
    <3>1. CASE e # d \/ ~job[w].ok
      BY <2>1, <2>2, <2>4, <3>1 DEF IdsStand, Known
    <3>2. CASE e = d /\ job[w].ok
      BY <2>1, <2>2, <2>3, <2>4, <3>2 DEF Live, Known
    <3> QED
      BY <3>1, <3>2
  <2>5. \A v \in Worker : Recording(v)' => Live(v)'
    <3>1. ~Recording(w)' /\ \A v \in Worker \ {w} : job'[v] = job[v]
      BY <2>1, GoEffect DEF Recording
    <3> QED
      BY <1>3, <3>1 DEF Recording
  <2> QED
    BY <2>4, <2>5 DEF IdsStand
<1> QED
  BY <1>4, <1>5, <1>6, StepKinds

LEMMA OlderStep == TypeInv /\ FactsInv /\ OlderInv /\ [Next]_vars => OlderInv'
<1> SUFFICES ASSUME TypeInv, FactsInv, OlderInv, [Next]_vars PROVE OlderInv'
  OBVIOUS
<1>1. TypeInv' /\ budget'.delete <= Budget.delete
  BY TypeStep, BudgetFalls, FirmwareAssumption DEF OlderInv, BudgetType
<1> SUFFICES ASSUME budget'.delete = Budget.delete
             PROVE  /\ IdsStand'
                    /\ \A d \in Rows(facts)' : facts'[d].previous # 0 =>
                          facts'[d].previous < facts'[d].facts.version
  BY <1>1 DEF OlderInv, PreviousIsOlder
<1>2. budget.delete = Budget.delete /\ \A d \in DeviceId : device[d] # NoRow => device'[d] # NoRow
  BY NoneTaken DEF OlderInv
<1>3. IdsStand'
  BY <1>1, <1>2, IdsStep DEF OlderInv
<1>4. facts \in [DeviceId -> FactsRow \cup {NoRow}] /\ DOMAIN facts' = DeviceId
  BY <1>1 DEF TypeInv, TypeOK
<1>5. \A d \in DeviceId : facts[d] # NoRow /\ facts[d].previous # 0 =>
          facts[d].previous < facts[d].facts.version
  BY <1>2, <1>4 DEF OlderInv, PreviousIsOlder, Rows
<1> SUFFICES ASSUME NEW d \in DeviceId, facts'[d] # NoRow, facts'[d].previous # 0
             PROVE  facts'[d].previous < facts'[d].facts.version
  BY <1>3, <1>4 DEF Rows
<1>6. CASE FactsKept(d)
  BY <1>5, <1>6 DEF FactsKept
<1>7. ASSUME NEW w \in Worker, Answered(w)
      PROVE  facts'[d].previous < facts'[d].facts.version
  BY <1>5, <1>7 DEF Answered, tables
<1>8. ASSUME NEW w \in Worker, RecordOutcome(w)
      PROVE  facts'[d].previous < facts'[d].facts.version
  <2>1. At(w, "record") /\ job[w].dev \in DeviceId /\ Recording(w)
    BY <1>8 DEF RecordOutcome, TypeInv, JobSound, At, Recording
  <2>2. CASE d # job[w].dev \/ ~job[w].ok
    <3>1. /\ facts[d] # NoRow /\ facts'[d].facts = facts[d].facts
          /\ facts'[d].previous = facts[d].previous
      <4>1. CASE d # job[w].dev
        BY <1>8, <2>1, <4>1, OutcomeEffect
      <4>2. CASE d = job[w].dev /\ ~job[w].ok
        BY <1>8, <2>1, <4>2, OutcomeEffect
      <4> QED
        BY <2>2, <4>1, <4>2
    <3> QED
      BY <1>5, <3>1
  <2>3. CASE d = job[w].dev /\ job[w].ok
    <3> DEFINE old == facts[d].facts.version
               new == job[w].facts.version
    <3>1. /\ facts[d] # NoRow /\ facts'[d].facts = job[w].facts
          /\ facts'[d].previous = IF Upgraded(facts[d], job[w].facts) THEN old ELSE facts[d].previous
      BY <1>8, <2>1, <2>3, OutcomeEffect
    <3>2. old \in Nat /\ new \in Nat /\ facts[d].previous \in Nat
      BY <1>4, <3>1 DEF FactsRow, Answer, TypeInv, TypeOK, Job
    <3>3. old # 0 => old <= new
      <4> SUFFICES ASSUME old # 0 PROVE old <= new
        OBVIOUS
      <4>1. Known(d)
        BY <3>1 DEF Known
      <4>2. Live(w) /\ facts[d].facts.born = device[d].born
        BY <1>2, <2>1, <4>1 DEF OlderInv, IdsStand
      <4>3. ShownOf(w)
        BY <2>3, <3>1, <4>2 DEF ShownOf, Live
      <4> QED
        BY <2>1, <2>3, <4>3 DEF FactsInv, JobsHonest
    <3>4. CASE old # 0 /\ old # new
      BY <3>1, <3>2, <3>3, <3>4 DEF Upgraded
    <3>5. CASE ~(old # 0 /\ old # new)
      <4>1. facts'[d].previous = facts[d].previous /\ facts[d].previous < old
        BY <1>5, <3>1, <3>5 DEF Upgraded
      <4> QED
        BY <3>1, <3>2, <3>5, <4>1
    <3> QED
      BY <3>4, <3>5
  <2> QED
    BY <2>2, <2>3
<1> QED
  BY <1>6, <1>7, <1>8, StepKinds

\* While no device was deleted, the previous version kept for a device is older
\* than the one shown, and later checks, failures and restarts do not lose it.
THEOREM PreviousIsOlderAlways == Spec => []PreviousIsOlder
<1>1. Init => TypeInv /\ GateInv /\ FactsInv /\ OlderInv
  <2>1. Init => OlderInv
    BY FirmwareAssumption
       DEF Init, OlderInv, IdsStand, PreviousIsOlder, Known, Rows, Recording, IdleJob, BudgetType
  <2> QED
    BY <2>1, TypeInit, GateInit, FactsInit
<1>2. TypeInv /\ GateInv /\ FactsInv /\ OlderInv /\ [Next]_vars =>
          (TypeInv /\ GateInv /\ FactsInv /\ OlderInv)'
  BY TypeStep, GateStep, FactsStep, OlderStep
<1>3. OlderInv => PreviousIsOlder
  BY DEF OlderInv
<1> QED
  BY <1>1, <1>2, <1>3, PTL DEF Spec

=============================================================================
